--------------------------- MODULE MCDiskSelection ---------------------------
(* Machines with up to six block devices, of the kinds that init and the     *)
(* filter of the handler tell apart.                                         *)
EXTENDS DiskSelection

MCNames == <<"loop0", "nvme0c0n1", "sda", "sdb", "sdc", "sr0">>

MCKind == [d \in ToSet(MCNames) |->
             CASE d = "loop0" -> "loop"
               [] d = "nvme0c0n1" -> "path"
               [] d = "sr0" -> "optical"
               [] OTHER -> "disk"]

MCSubstrings == [d \in ToSet(MCNames) |->
                   CASE d \in {"nvme0c0n1", "sdc"} -> {"c"}
                     [] d = "sr0" -> {"sr"}
                     [] OTHER -> {}]

\* less than a megabyte, just over the limit before it is rounded, two sizes
\* that are the same in MB, and a large one; in the order of the digits of their
\* sizes in bytes: 1024000, 10485760000, 1074789888, 2097152000, 2097156096
TextOrder == <<2000, 20480000, 2099199, 4096000, 4096008>>

MCSizes == ToSet(TextOrder)

MCSortsAfter == {<<TextOrder[i], TextOrder[k]>> :
                   <<i, k>> \in {p \in (1 .. 5) \X (1 .. 5) : p[1] > p[2]}}
=============================================================================
