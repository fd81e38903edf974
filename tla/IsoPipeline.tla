----------------------------- MODULE IsoPipeline -----------------------------
(***************************************************************************)
(* The custom-ISO build: POST /api/v1/servers/provision/custom-iso of      *)
(* configServer/server.py saves job.json and runs ipxe-builder/pipeline.sh *)
(* in the request's own thread.  Every build uses the same boot.ipxe, the  *)
(* same iPXE object tree, the same iso_temp and the same efiboot.img; only *)
(* job.json and the final ISO are per job.  Nothing serialises the builds. *)
(*                                                                         *)
(* What a file contains is abstracted to the request whose network         *)
(* parameters are in it.  A build is one request; JobOf gives its job id   *)
(* (the hostname), so two builds of one job are a retry of the request.    *)
(***************************************************************************)
EXTENDS Naturals, FiniteSets

CONSTANTS
    Builds,     \* the custom-iso requests of a behaviour
    Jobs,       \* job ids
    JobOf,      \* the job id of each request
    MaxActive,  \* bound: how many requests the clients keep in flight
    Faults      \* which of the faults of FaultKinds may happen

FaultKinds == {"compose", "step", "crash"}

ASSUME IsoAssumption ==
    /\ JobOf \in [Builds -> Jobs]
    /\ Builds \cap {"Missing", "Empty", "Dirs", "Broken"} = {}
    /\ MaxActive \in Nat
    /\ Faults \subseteq FaultKinds

VARIABLES
    pc,         \* how far each request's handler and pipeline.sh have got
    buf,        \* what compose.py, then the compiler, holds in memory
    jobJson,    \* jobs/<job>/job.json
    file,       \* the files of the shared build directory
    objFresh,   \* embedded.o is newer than boot.ipxe: make will not rebuild it
    iso,        \* jobs/<job>/custom-<job>.iso (its El Torito boot image)
    overlapped, \* history: another build was active during this one
    composeOk   \* history: compose.py wrote boot.ipxe without an error

vars == <<pc, buf, jobJson, file, objFresh, iso, overlapped, composeOk>>

\* "Missing": no such file.  "Empty": truncated, or a blank file system.
\* "Dirs": a file system that holds the directory EFI/BOOT and no file.
\* "Broken": an incomplete file, or one mixed from two writers.
Content == Builds \cup {"Missing", "Empty", "Dirs", "Broken"}

File == {"boot.ipxe", "embedded.o", "ipxe.efi", "BOOTX64.EFI",
         "efiboot.img", "iso_temp/efiboot.img"}

\* The shell steps of pipeline.sh, each named after what is done already.
Shell == {"saved", "read", "opened", "composed", "compiling", "compiled",
          "linked", "staged", "formatted", "dirs", "filled", "imaged"}

Running == Shell \cup {"jsonOpened", "built"}

PC == Running \cup {"idle", "ok", "failed", "killed"}

Active(b) == pc[b] \in Running

Init ==
    /\ pc = [b \in Builds |-> "idle"]
    /\ buf = [b \in Builds |-> "Missing"]
    /\ jobJson = [j \in Jobs |-> "Missing"]
    /\ file = [f \in File |-> "Missing"]
    /\ objFresh = FALSE
    /\ iso = [j \in Jobs |-> "Missing"]
    /\ overlapped = [b \in Builds |-> FALSE]
    /\ composeOk = [b \in Builds |-> FALSE]

Goto(b, label) == pc' = [pc EXCEPT ![b] = label]

Put(f, c) == file' = [file EXCEPT ![f] = c]

\* What a file may hold after c is written to it through a handle opened for
\* writing earlier.  A file that is no longer empty was written by another
\* process meanwhile: its longer text may stick out behind the new one.
Written(now, c) == IF now = "Empty" THEN {c} ELSE {c, "Broken"}

-----------------------------------------------------------------------------
(* The request handler, up to the call of pipeline.sh *)

\* The request is accepted; open(job.json, "w") truncates the file.
OpenJobJson(b) ==
    /\ pc[b] = "idle"
    /\ Cardinality({c \in Builds : Active(c)}) < MaxActive
    /\ Goto(b, "jsonOpened")
    /\ jobJson' = [jobJson EXCEPT ![JobOf[b]] = "Empty"]
    /\ overlapped' = [c \in Builds |->
                        \/ overlapped[c]
                        \/ c # b /\ Active(c)
                        \/ c = b /\ \E d \in Builds : Active(d)]
    /\ UNCHANGED <<buf, file, objFresh, iso, composeOk>>

\* json.dump to the open file.
DumpJobJson(b) ==
    LET j == JobOf[b] IN
    /\ pc[b] = "jsonOpened"
    /\ Goto(b, "saved")
    /\ \E c \in Written(jobJson[j], b) : jobJson' = [jobJson EXCEPT ![j] = c]
    /\ UNCHANGED <<buf, file, objFresh, iso, overlapped, composeOk>>

-----------------------------------------------------------------------------
(* pipeline.sh, step by step *)

\* compose.py main: json.load of job.json and build_ipxe_context.  A file
\* that does not parse raises outside the try: exit 1, and set -e stops.
ComposeRead(b) ==
    LET json == jobJson[JobOf[b]] IN
    /\ pc[b] = "saved"
    /\ Goto(b, IF json \in Builds THEN "read" ELSE "failed")
    /\ buf' = [buf EXCEPT ![b] = IF json \in Builds THEN json ELSE "Missing"]
    /\ UNCHANGED <<jobJson, file, objFresh, iso, overlapped, composeOk>>

\* compose_ipxe: open(boot.ipxe, "w") truncates the file.
ComposeOpen(b) ==
    /\ pc[b] = "read"
    /\ Goto(b, "opened")
    /\ Put("boot.ipxe", "Empty")
    /\ objFresh' = FALSE
    /\ UNCHANGED <<buf, jobJson, iso, overlapped, composeOk>>

\* A variant of ComposeWrite: the script is named after the job, its content lost.
ComposeWriteJobId(b) ==
    /\ pc[b] = "opened"
    /\ Goto(b, "composed")
    /\ Put("boot.ipxe", JobOf[b])
    /\ objFresh' = FALSE
    /\ buf' = [buf EXCEPT ![b] = "Missing"]
    /\ composeOk' = [composeOk EXCEPT ![b] = TRUE]
    /\ UNCHANGED <<jobJson, iso, overlapped>>

\* compose_ipxe: the hydrated template is written and the file closed.
ComposeWrite(b) ==
    /\ pc[b] = "opened"
    /\ Goto(b, "composed")
    /\ \E c \in Written(file["boot.ipxe"], buf[b]) : Put("boot.ipxe", c)
    /\ objFresh' = FALSE
    /\ buf' = [buf EXCEPT ![b] = "Missing"]
    /\ composeOk' = [composeOk EXCEPT ![b] = TRUE]
    /\ UNCHANGED <<jobJson, iso, overlapped>>

\* main catches what compose_ipxe raises, prints it and exits 0: the
\* pipeline goes on with whatever boot.ipxe holds.
ComposeError(b) ==
    /\ "compose" \in Faults
    /\ pc[b] \in {"read", "opened"}
    /\ Goto(b, "composed")
    /\ buf' = [buf EXCEPT ![b] = "Missing"]
    /\ UNCHANGED <<jobJson, file, objFresh, iso, overlapped, composeOk>>

\* A variant of MakeStart: embedded.o has no dependency on the script, so make
\* keeps any object that exists.
MakeStartNoDeps(b) ==
    /\ pc[b] = "composed"
    /\ \/ /\ file["embedded.o"] # "Missing"
          /\ Goto(b, "compiled")
          /\ UNCHANGED buf
       \/ /\ file["embedded.o"] = "Missing"
          /\ Goto(b, "compiling")
          /\ buf' = [buf EXCEPT ![b] = file["boot.ipxe"]]
    /\ UNCHANGED <<jobJson, file, objFresh, iso, overlapped, composeOk>>

\* make compares embedded.o with boot.ipxe.  It fails when the script does
\* not exist, has nothing to do when the object is newer, and starts the
\* compiler, which reads the script, otherwise.
MakeStart(b) ==
    /\ pc[b] = "composed"
    /\ \/ /\ file["boot.ipxe"] = "Missing"
          /\ Goto(b, "failed")
          /\ UNCHANGED buf
       \/ /\ file["boot.ipxe"] # "Missing" /\ objFresh
          /\ Goto(b, "compiled")
          /\ UNCHANGED buf
       \/ /\ file["boot.ipxe"] # "Missing" /\ ~objFresh
          /\ Goto(b, "compiling")
          /\ buf' = [buf EXCEPT ![b] = file["boot.ipxe"]]
    /\ UNCHANGED <<jobJson, file, objFresh, iso, overlapped, composeOk>>

\* The compiler writes embedded.o, which is now newer than boot.ipxe.
MakeObject(b) ==
    /\ pc[b] = "compiling"
    /\ Goto(b, "compiled")
    /\ Put("embedded.o", buf[b])
    /\ objFresh' = TRUE
    /\ buf' = [buf EXCEPT ![b] = "Missing"]
    /\ UNCHANGED <<jobJson, iso, overlapped, composeOk>>

\* A step that copies one shared file over another.
CopyStep(b, at, from, to, done) ==
    /\ pc[b] = at
    /\ Goto(b, done)
    /\ Put(to, file[from])
    /\ UNCHANGED <<buf, jobJson, objFresh, iso, overlapped, composeOk>>

\* make links ipxe.efi out of the objects.
MakeLink(b) == CopyStep(b, "compiled", "embedded.o", "ipxe.efi", "linked")

\* cp ipxe.efi iso_temp/EFI/BOOT/BOOTX64.EFI
StageEfi(b) == CopyStep(b, "linked", "ipxe.efi", "BOOTX64.EFI", "staged")

\* A variant of FormatImage: an image that exists is reused.
FormatImageOnce(b) ==
    /\ pc[b] = "staged"
    /\ Goto(b, "formatted")
    /\ Put("efiboot.img", IF file["efiboot.img"] = "Missing"
                          THEN "Empty" ELSE file["efiboot.img"])
    /\ UNCHANGED <<buf, jobJson, objFresh, iso, overlapped, composeOk>>

\* dd and mkfs.vfat: efiboot.img becomes an empty file system.
FormatImage(b) ==
    /\ pc[b] = "staged"
    /\ Goto(b, "formatted")
    /\ Put("efiboot.img", "Empty")
    /\ UNCHANGED <<buf, jobJson, objFresh, iso, overlapped, composeOk>>

\* The two mmd calls, which fail on a directory that exists already.
MakeDirs(b) ==
    /\ pc[b] = "formatted"
    /\ IF file["efiboot.img"] = "Empty"
       THEN Goto(b, "dirs") /\ Put("efiboot.img", "Dirs")
       ELSE Goto(b, "failed") /\ UNCHANGED file
    /\ UNCHANGED <<buf, jobJson, objFresh, iso, overlapped, composeOk>>

\* mcopy, which fails without the directory and on a file that exists.
FillImage(b) ==
    /\ pc[b] = "dirs"
    /\ IF file["efiboot.img"] = "Dirs"
       THEN Goto(b, "filled") /\ Put("efiboot.img", file["BOOTX64.EFI"])
       ELSE Goto(b, "failed") /\ UNCHANGED file
    /\ UNCHANGED <<buf, jobJson, objFresh, iso, overlapped, composeOk>>

\* cp efiboot.img iso_temp/efiboot.img
StageImage(b) ==
    CopyStep(b, "filled", "efiboot.img", "iso_temp/efiboot.img", "imaged")

\* xorriso writes the job's ISO with iso_temp/efiboot.img as its boot image.
WriteIso(b) ==
    /\ pc[b] = "imaged"
    /\ Goto(b, "built")
    /\ iso' = [iso EXCEPT ![JobOf[b]] = file["iso_temp/efiboot.img"]]
    /\ UNCHANGED <<buf, jobJson, file, objFresh, overlapped, composeOk>>

\* pipeline.sh exited 0: the handler answers 200 with the ISO's URL.
RespondOk(b) ==
    /\ pc[b] = "built"
    /\ Goto(b, "ok")
    /\ UNCHANGED <<buf, jobJson, file, objFresh, iso, overlapped, composeOk>>

-----------------------------------------------------------------------------
(* Faults *)

\* What the step at a label was writing when it was cut short.
Output(label) ==
    CASE label = "compiling" -> {"embedded.o"}
      [] label = "compiled" -> {"ipxe.efi"}
      [] label = "linked" -> {"BOOTX64.EFI"}
      [] label \in {"staged", "formatted", "dirs"} -> {"efiboot.img"}
      [] label = "filled" -> {"iso_temp/efiboot.img"}
      [] OTHER -> {}

\* The files after some of the given ones were left incomplete.  A damaged
\* embedded.o still has the time of its last write.
Damage(fs) ==
    \E hit \in SUBSET fs :
        /\ file' = [f \in File |-> IF f \in hit THEN "Broken" ELSE file[f]]
        /\ objFresh' = (objFresh \/ "embedded.o" \in hit)

\* The ISOs after xorriso was cut short for some of the given builds.
DamageIso(bs) ==
    \E hit \in SUBSET {JobOf[b] : b \in {c \in bs : pc[c] = "imaged"}} :
        iso' = [j \in Jobs |-> IF j \in hit THEN "Broken" ELSE iso[j]]

\* A command of pipeline.sh fails: set -e ends it and the handler answers 500.
StepFails(b) ==
    /\ "step" \in Faults
    /\ pc[b] \in Shell
    /\ Goto(b, "failed")
    /\ Damage(Output(pc[b]))
    /\ DamageIso({b})
    /\ buf' = [buf EXCEPT ![b] = "Missing"]
    /\ UNCHANGED <<jobJson, overlapped, composeOk>>

\* The container dies: every handler and its pipeline with it.  The files stay.
Crash ==
    LET dying == {b \in Builds : Active(b)} IN
    /\ "crash" \in Faults
    /\ dying # {}
    /\ pc' = [b \in Builds |-> IF b \in dying THEN "killed" ELSE pc[b]]
    /\ Damage(UNION {Output(pc[b]) : b \in dying})
    /\ DamageIso(dying)
    /\ buf' = [b \in Builds |-> "Missing"]
    /\ UNCHANGED <<jobJson, overlapped, composeOk>>

-----------------------------------------------------------------------------

Handler(b) ==
    \/ OpenJobJson(b) \/ DumpJobJson(b)
    \/ ComposeRead(b) \/ ComposeOpen(b) \/ ComposeWrite(b) \/ ComposeError(b)
    \/ MakeStart(b) \/ MakeObject(b) \/ MakeLink(b)
    \/ StageEfi(b) \/ FormatImage(b) \/ MakeDirs(b) \/ FillImage(b)
    \/ StageImage(b) \/ WriteIso(b) \/ RespondOk(b)
    \/ StepFails(b)

Next == Crash \/ \E b \in Builds : Handler(b)

Spec == Init /\ [][Next]_vars

-----------------------------------------------------------------------------
(* Properties *)

\* Every variable has its type: the labels are those of the pipeline, and a
\* file holds one request's parameters or is missing, empty or incomplete.
TypeOK ==
    /\ pc \in [Builds -> PC]
    /\ buf \in [Builds -> Content]
    /\ jobJson \in [Jobs -> Content]
    /\ file \in [File -> Content]
    /\ objFresh \in BOOLEAN
    /\ iso \in [Jobs -> Content]
    /\ overlapped \in [Builds -> BOOLEAN]
    /\ composeOk \in [Builds -> BOOLEAN]

\* A build that ran alone and whose boot.ipxe was written delivers an ISO with
\* the parameters of its own request, whatever the builds before it, failed,
\* killed or mixed up with each other, have left in the shared directory: the
\* pipeline rewrites every shared file before it reads it, and make's
\* time-stamp test never skips the new script.
LoneBuildIsTailored ==
    \A b \in Builds :
        pc[b] = "built" /\ ~overlapped[b] /\ composeOk[b]
            => iso[JobOf[b]] = b

\* A build that ran alone is not stopped by what earlier builds left behind:
\* mmd and mcopy find the image as this build made it, and its job.json parses.
LoneBuildFindsItsFiles ==
    \A b \in Builds :
        ~overlapped[b] =>
            /\ pc[b] = "saved" => jobJson[JobOf[b]] = b
            /\ pc[b] = "formatted" => file["efiboot.img"] = "Empty"
            /\ pc[b] = "dirs" => file["efiboot.img"] = "Dirs"

\* README.md promises a "UEFI-bootable ISO tailored to the target node's network
\* parameters".  The least that this means: when pipeline.sh exits 0, the job's
\* ISO does not hold the parameters of another request.
NeverAnothersIso ==
    \A b \in Builds : pc[b] = "built" => iso[JobOf[b]] \notin Builds \ {b}
=============================================================================
