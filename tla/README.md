# A TLA+ model of Astro

Astro provisions bare-metal servers with Ubuntu. A Python control plane
(`configServer/server.py`) builds a UEFI ISO per machine, drives the machine's
management controller with Ansible so that it boots that ISO, is called back by
a small initramfs on the machine, renders the autoinstall files, and follows the
installer through its telemetry webhook.

## Inventory of the system

| part | source | state | operations |
|---|---|---|---|
| ISO build | `ipxe-builder/pipeline.sh`, `compose.py`, the custom-iso handler of `server.py` | `boot.ipxe`, the iPXE object tree, `iso_temp`, `efiboot.img` (all shared), `job.json` and the ISO (per job) | one request = one run of the pipeline in the request's thread |
| lifecycle tracker | `server.py` | `PROGRESS_TRACKER`, `JOB_TRACKER` (memory only) | provision, custom-iso, phone-home, launcher download, progress hook, telemetry, status |
| job files | `server.py` | `jobs/<job>/{job.json,user-data,meta-data,vendor-data,installer-launch.sh,install.log}` | written by custom-iso, phone-home, telemetry; read by GET |
| disk selection | `server.py` 583-621 | none (a pure function of the reported disks) | filter, sort, pick one or two |
| ranged downloads | `server.py` 334-407 | a file that may be rewritten meanwhile | GET with `Range` |
| playbooks | `configServer/ansible` | the BMC's virtual media, boot override and power | eject, insert, one-time boot, reset, wait for SSH |
| boot script | `ipxe-builder/template2.ipxe` | interface index, open interfaces | probe up to ten interfaces, boot or shell |
| node agent | `customOS/myInitRD/init`, `installer-launch.sh.template` | none that survives a reboot | inventory, phone home, fetch launcher, kexec |
| autoinstall | `templates/ubuntu/user-data*.template` | the target disk | early-commands, late-commands, telemetry |
| netmask conversions | `server.py`, `init`, `generate.py` | none | dotted mask to prefix length |
| iPXE: TCP | `ipxe-builder/ipxe/src/net/tcp.c`, `net/retry.c` | a connection: what is sent, what is received, timers | open, transmit, receive, deliver, discard, close, shut down |
| iPXE: neighbour cache | `ipxe-builder/ipxe/src/net/neighbour.c`, `net/arp.c`, `net/retry.c` | reference-counted entries with queues of packets | transmit, update, expire, discard, flush |
| front end | `configServer/nginx-ssl.conf`, `docker-compose.yml` | none | proxying and redirects |

## What makes it hard

The server is a `ThreadingHTTPServer`: every request runs in a thread of its own
and nothing takes a lock. All builds share one directory. The trackers are plain
dictionaries read and written in separate steps. The machine and the installer
are driven by messages that may be refused, repeated or late, and the server may
restart and forget its trackers while the files stay. iPXE, which downloads
everything the machine boots, is single-threaded, but its calls re-enter it: a
delivery may close the connection it belongs to, and an allocation may discard
the entry its caller is working on. The hazards are listed one
by one, with the lines where they bite, in `PROJECT.json`.

## How the parts interact

The operator posts `/api/v1/provision`; the server spawns a playbook, which posts
`.../provision/custom-iso`, mounts the ISO it gets and resets the machine (an
operator may also ask for the ISO directly). The machine boots the ISO into the
initramfs: iPXE fetches kernel and initrd over its own TCP, each packet passing
through the neighbour cache. The initramfs' `init` phones home with its disks; the server chooses disks and
renders the seed files and the launcher. `init` fetches the launcher, which starts
the Ubuntu installer, and the installer posts telemetry until it ends. The status
request reads the trackers at any time.

## Modules

| module | models | extends |
|---|---|---|
| `IsoPipeline` | the custom-iso request, `pipeline.sh`, `compose.py` | |
| `IsoPipelineProofs` | its theorems | `IsoPipeline` |
| `MCIsoPipeline` | its instances for TLC | `IsoPipeline` |
| `Lifecycle` | the trackers, all handlers that touch them, and the clients | |
| `LifecycleProofs` | theorems for every instance | `Lifecycle` |
| `LifecycleReportProofs` | theorems on what reports do to the tracker, for every instance | `LifecycleProofs` |
| `MCLifecycle` | its instances for TLC | `Lifecycle` |
| `DiskSelection` | the way from block devices to the disks of the profile | |
| `DiskSelectionProofs` | its theorems | `DiskSelection`, `SequenceLemmas` |
| `MCDiskSelection` | its instance for TLC | `DiskSelection` |
| `Stream` | what a byte stream promises its reader (abstract) | |
| `Tcp` | one TCP connection of iPXE | (`INSTANCE Stream`) |
| `TcpProofs` | `Tcp` implements `Stream`; the receive queue; selective acknowledgement | `Tcp`, `SequenceLemmas` |
| `TcpSendProofs` | the sending side, timers, pending operations | `TcpProofs` |
| `MCTcp` | its instances for TLC | `Tcp` |
| `Neighbour` | the neighbour cache of iPXE | |
| `NeighbourProofs` | its theorems | `Neighbour` |
| `MCNeighbour` | its instance for TLC | `Neighbour` |
| `SequenceLemmas` | facts about sequences and folds that the proofs share | |

Operators called "a variant of ..." are not part of a specification. Each is a
plausible mistake in the operator it precedes; `PROJECT.json` ("mutants") says
which property it breaks.

### IsoPipeline

A *build* is one custom-iso request. `pc` is the line its handler or its pipeline
has reached, one action per command, with these simplifications: `dd` and `mkfs`
are one action, and so are the two calls of `mmd`, so no step of another build comes
between them; `mkdir -p` and the `sed` edits of the iPXE configuration, which change
nothing after the first build, are left out. `file` is the shared build directory,
`jobJson` and `iso` are per job. A content is the request whose parameters are in
the file, or `Missing`, `Empty`, `Dirs` (a boot image with its directories),
`Broken` (incomplete, or mixed from two writers). `objFresh` is make's time-stamp
comparison of `embedded.o` with `boot.ipxe`. Opening for writing and writing are
separate steps, because another process may come between. `make` is three steps:
the decision together with the read of the script, the object, the link; the
other objects do not depend on the job and are left out, and so is what two
concurrent `make` processes could do to them. `overlapped` and `composeOk` are
history variables that only the properties read.

Faults: `compose` (an exception in `compose_ipxe`), `step` (a command fails and
may leave its output incomplete), `crash` (the container dies, the same for every
running build).

### Lifecycle

`tracker` is the stage in `PROGRESS_TRACKER`, `runner` is `JOB_TRACKER`, `play`
the status of every playbook that was spawned, `thr` the handler threads with
their local variables. A handler is cut where it reads or writes a tracker:

| handler | actions |
|---|---|
| provision | `Provision` (STAGING), `Spawn` or `SpawnFails`, `Register` |
| custom-iso | `CustomIso` (BOOTING), `Build` |
| phone-home | `PhoneHome` (accepted or refused), `Advance` (PHONED_HOME), `Render` |
| launcher | `GetLauncher` (INSTALLING), `Serve` |
| progress hook | `ProgressHook` |
| telemetry | `PostProgress` or `PostFinal`, then `Match` or `Drop`, `ReadStage`, `StoreStage` |
| status | `StatusGet`, `StatusRunner`, `StatusCheck`, `StatusMark` |

The status request changes the object it has read, the other handlers put a new
object in the dictionary; `ref` holds the status threads whose object is still the
one in the dictionary. `node` is the machine of a job, `post` the thread that
serves its outstanding request, `told` says that its final event was answered.

Two history variables, which no action reads, say of which jobs the properties of
reports cannot speak. `mixed` holds the jobs that the progress hook has written,
whose machine was started again, or that were credited with another machine's
event because its text does not tell whose it is (`Unclear`: it contains the wrong
id, or not its own, or the server has forgotten its own). `hasty` holds the
machines that stopped waiting for the answer to a report. Both only grow.

Abstractions:

- A request that does not validate, and an unknown OS version, change nothing and
  are left out (the phone-home that is refused is in: the machine goes on).
- The scan of the telemetry handler sees the stages at one instant. The insertion
  of a key during the scan, which raises, is kept: `thr[t].keys`. The order of the
  keys is not, so `Interrupted` also lets a scan fail whose first key matches; the
  model has more failing scans than the code, none less.
- The progress hook writes any text as a stage: `HookStages` may be any stages,
  and "OTHER" stands for all texts that are none.
- The text of events is the relation `Occurs`: which job ids occur in the events
  of which machine. `Anonymous` is what the autoinstall profiles produce unless a
  description happens to contain the hostname; `Named` is the case the first loop
  of the handler is written for.
- A custom-iso request is not tied to a running playbook: an operator may send it.
- The webhook reporter of the installer does not repeat an event that was answered
  with an error (its code is not in the repository).
- The restart of the server is one step, and no request arrives while it is down.
- `torn` holds the jobs whose `job.json` is truncated or may have been when the
  server died; a phone-home then may fail.

Faults: `spawn`, `phone`, `launch`, `timeout`, `restart`, `reprovision` (the
operator starts a job again while its machine is in use), explained in the module.

### DiskSelection

One behaviour is one machine: any set of block devices with any sizes. `Inventory`
is a round of the loop in `init`; `Refuse`, `Choose`, `RenderFails` and `Render`
are the phone-home handler; `EarlyCommand` is the shell fragment of the RAID
profile. Sizes are in sectors, and `MB` is the
rounding of `init`. Names are constants with the substrings the filter looks
for; that the kernel's names of paths, mappers, arrays and optical drives contain
one of them is the assumption `KernelNames`. Filter and sort are folds over the
list, the sort a stable insertion as `sorted` is stable. The order in which `awk`
compares sizes, as text, is the constant `SortsAfter`. `rm` holds the disks that
`lsblk` calls removable: the early command skips them, the server does not.

### Tcp and Stream

`Tcp` is one connection from `tcp_open` to its deletion. `snd` and `rcv` are the
sending and the receiving half of `struct tcp_connection`, `tmr` its timers and
the transmission process, `listed` whether it is in `tcp_conns`. The code hands
data to the reader by a call, in which the reader may send, stop waiting or close
and memory pressure may discard queued segments; `at` is the place in `tcp_rx` at
which such a call is made, and everything else runs to completion.

| code | actions |
|---|---|
| `tcp_xmit` from the process, `tcp_expired`, `tcp_keepalive_expired`, `tcp_wait_expired` | `ProcessStep`, `TimerExpired`, `TimerOver`, `KeepaliveExpired`, `WaitExpired` |
| `tcp_rx` up to the queue, delivery, return, end | `Arrives`, `Deliver`, `Return`, `RxDone` |
| `tcp_discard` | `Discard` |
| `tcp_xfer_deliver`, the window the reader waits for, `tcp_xfer_close` | `AppSend`, `AppWait`, `AppClose` |
| `tcp_shutdown` and its timeout | `Shutdown`, `ShutdownForce` |

Sequence numbers count from the initial ones, since the code uses differences
only, and are compared modulo `M` as the code compares modulo 2^32. The network
is not a variable: at any time any segment the peer could have sent, old ones
included, may arrive, which covers loss, repetition, delay and reordering. A
transmission or an allocation may fail. The reader is handed byte numbers, so that
`out` shows a byte that is lost, repeated or out of place. `Stream` is the promise,
two variables and three actions, and `IsStream` in `Tcp` is the refinement mapping.

### Neighbour

`nb` are the entries with their reference count, discovery, timer and queue,
`cache` the list `neighbours`, `open` the open devices. `at` is the call in which
memory may be allocated, and so `neighbour_discard` run: the allocation of a new
entry (`TxNew`, then `Created` or `CreateFails`), the sending of a queue (`Update`,
`DrainOne`, `DrainDone`) and the sending of a request (`ExpiredRetry`,
`RequestDone`). The packets are numbered as they are handed over; `sent`, `failed`
and `refused` hold those that have left.

## Runs

Passing runs:

| run | instance | checks |
|---|---|---|
| `iso_build` | 3 builds (two a retry), 2 active, all faults | `TypeOK`, `LoneBuildIsTailored`, `LoneBuildFindsItsFiles` |
| `lifecycle_races` | 1 job, 2 threads, 2 provisions, the hook, all faults | `TypeOK`, `StatusNeverRegresses` |
| `lifecycle_lone` | 1 job, 2 threads, fair, faults spawn, phone, launch | `DeliveredIsRecorded`, `OutcomeReported` |
| `lifecycle_reports` | 2 jobs, one with named events, 2 threads, faults phone, launch, timeout, restart | `CompletedIsExact`, `ResultKept` |
| `disk_selection` | all machines of up to 6 devices, 5 sizes, any disks removable | `PicksDisks`, `PicksSmallest`, `PoweroffExplained` |
| `tcp` | 1 byte sent, 3 received, 2 queued segments | `TypeOK`, `Asserts`, `PendingExact`, `SackTruthful`, `QueueBehindGap`, `NeverStalls`, `NoLostWakeup`, `StreamSpec` (the refinement) |
| `tcp_live` | 2 bytes sent, 1 received, fair | `EventuallyAcked`, `EventuallyDeleted` |
| `neighbour` | 2 entries, 2 destinations behind 2 devices, 3 packets, fair | `TypeOK`, `RefsExact`, `OneEntryEach`, `NoOrphans`, `OnePlace`, `InOrder`, `EventuallyOut` |

The other runs end in a violation, and each of them is a disagreement between the
code and a sentence of the repository; `PROJECT.json` quotes the sentence.

| run | what happens |
|---|---|
| `iso_concurrent` | two builds at once: a request is answered with an ISO that holds the other's parameters |
| `lifecycle_two_installs` | two anonymous installations at once are never reported |
| `lifecycle_lost_report` | a new job during the scan of the keys: the final event is lost |
| `disk_default` | two disks of different sizes for RAID; `sdc` is dropped because its name contains "c" |

Other disagreements that the models reach, without a run of their own:

- `compose.py` exits 0 on an error (`compose.py:94`), and the pipeline goes on with
  the `boot.ipxe` of an earlier job (`NeverAnothersIso` with the fault `compose` and
  one build at a time).
- A report that is slow enough for its machine to stop waiting writes INSTALLING
  over COMPLETED (`server.py:886`). This is why `ResultKept` excepts `hasty`
  machines; without the exception TLC finds it violated.
- A retry of an ISO request truncates `job.json` (`server.py:506`) while `compose.py`
  of the first may be about to read it; the first is then answered 500.
- The status request judges a fresh attempt by the runner of the last one, because
  STAGING is set before the new runner is stored (`server.py:276`).
- The final event of a machine whose job was forgotten in a restart, or whose events
  do not name it, is credited to the only job that is INSTALLING (`server.py:860`),
  which then is COMPLETED too early. `CompletedIsExact` excepts such jobs (`mixed`).
- `README.md:15` says "selecting RAID configs automatically if multiple disks are
  present"; without the raid flag of the request one disk is chosen, however many
  there are (`Choice`, `server.py:603`; the last conjunct of `PicksSmallest`).
- The server does not look at the RM column: when it chooses a removable disk for
  RAID, the early command may find no pair and power the machine off although the
  two chosen disks are equal (`user-data-raid.template:138`).
- INSTALLING is set before the launcher is looked up (`server.py:307`), so its
  detail text, "successfully downloaded the installer-launch.sh script", is also
  there for a machine that was answered 404 (`Serve` to "shell").
- `README.md:236` lists BOOTING before STAGING; a job provisioned through the
  playbook is STAGING first.
- The "complete fallback if no real disks found" (`server.py:618`) leaves `d0_dev`
  unbound, so the phone-home ends with 500 (`RenderFails`).
- The storage section of the RAID profile says "Disks selected by early-commands"
  (`user-data-raid.template:37`); the early command picks the pair whose size is
  the last as text, the server the two smallest disks, and only the server's
  choice is in the section (`pair` and `pick` differ).

Observations about iPXE, where no line promises otherwise:

- `neighbour_tx` returns -ENOMEM without releasing the packet and `ipv4_tx` does
  not release it either; the model keeps such packets apart (`refused`).
- `neighbour_flush` clears the whole cache whichever device is closed.
- A closed window is never probed: when the update that opens it is lost, nothing
  is outstanding and no timer runs. `NeverStalls` asks for a timer only when there
  is something that may be sent.
- `template2.ipxe:39` and `:91` speak of the gateway; line 41 pings 1.1.1.1.

### Bounds

- *Builds.* Three builds with two active are enough for a build that follows two
  that were mixed up with each other, and for a retry. `LoneBuildIsTailored` is
  proved for any number.
- *Threads.* Two: each race in the code is between one handler's read and write
  and one other handler. A third request waits. The properties of
  `lifecycle_races` and `lifecycle_reports` are proved for any number.
- *Jobs.* One where the property is about a job and its own requests. Two where
  events may be credited to the wrong job; a machine in use is not started again
  there, which `lifecycle_races` and the proofs include. `lifecycle_lost_report` has three:
  the sender, a key the scan passes, the key that is inserted.
- *MaxAttempts.* Two, so that a runner of an earlier attempt is there to be read.
- *Devices.* A device `init` skips, an NVMe path, an optical drive and three disks,
  one with a "c" in its name. The sizes are less than a megabyte, just over the
  limit of the filter before rounding, two that are equal in MB only, and a large
  one whose place in the order of text is not its place in the order of numbers.

- *TCP.* Three bytes and a FIN in segments that may cover any part of them give
  gaps, overlaps and repetitions on either side of the receive point, and two
  queued segments a queue whose order matters. `Reach` bounds how far from the
  receive point a live segment may lie, and `M` is a little more than four times
  that: the smallest space in which the code's comparisons are sound, so sequence
  numbers are as close to wrapping as they can be. The liveness run is smaller.
- *Neighbours.* Two entries, one for each destination, so that one can be discarded
  while the other is at work; three packets, so that two can wait for one
  destination; timeouts that double once before the entry is given up.

The configurations of `IsoPipeline` turn deadlock checking off: a behaviour ends
when its finitely many requests are answered. All others check it.

### Fairness

`FairSpec` of `Lifecycle` assumes that a thread which has accepted a request is
scheduled until it has answered (weak fairness; handlers have no loops that wait
for others), that an installer ends (weak), and that the reporter gets to post its
final event (strong: the server starts a thread per connection, so that all
threads being busy again and again is an artefact of the bound). Nothing is
assumed of the operator, of playbooks, of machines that boot, or of faults.

`FairSpec` of `Tcp`: `tcp_rx` returns (weak), and the main loop of iPXE runs every
process and polls every timer, so that a step that is due again and again is taken
although segments keep coming (strong). An unanswered retransmission doubles its
timeout until it gives up (`TimerOver`), and the peer keeps sending what is not
acknowledged (`ArrivesWhole`) until both sides have closed. The wait timer is the
exception: `tcp_rx` starts it anew for every packet in TIME_WAIT
(`tcp.c:1547`), so nothing but weak fairness is assumed of `WaitExpired`, and
`EventuallyDeleted` has the premise `Silence`: packets stop coming. Without the
premise TLC finds a connection that is kept for ever.

`FairSpec` of `Neighbour`: calls return (weak), and `retry_poll` comes to every
timer whose time has passed (strong: a packet or an update may come first). Nothing
is assumed of the neighbours' answers, of memory or of further packets.

## Proofs

Every invariant and every action property that a passing run checks, except
`DeliveredIsRecorded`, is also proved with TLAPS, for every value of the constants
that satisfies the named assumptions (`IsoAssumption`, `LifecycleAssumption`, `DiskAssumption`, `KernelNames`,
`SpaceAssumption`, `NeighbourAssumption`). They give the types of the constants and
say that markers such as "none" are not jobs, threads or entries; only two say more.
`KernelNames` is described above. `SpaceAssumption` wants a sequence space of more
than four times the distance at which live segments can be: with 2^32 numbers and
windows far below 2^30 the code has it.

- `IsoPipelineProofs`: `TypeCorrect`, `LoneBuildTailored`, `LoneBuildFinds`. The
  inductive invariant `IInv` says that two active builds are both marked as
  overlapped (`Exclusive`), that `composeOk` is not set before the script is
  written (`NotYetComposed`), and for every active lone build what it has put
  where (`Progress`), label by label. The last is needed because the properties
  look at the end of a chain of seven files. The argument for `make` is the
  conjunct `~objFresh` after the script was written.
- `LifecycleProofs`: `TypeCorrect`, `StatusKeepsStage`. The invariant adds that
  threads at work know their job (`Bound`) and that as long as a status thread
  about to write shares its object with the tracker, the stage is STAGING or
  STAGING_FAILED (`MarkShared`). The action property follows from `MarkShared`.
- `LifecycleReportProofs`: `CompletedExact` (`CompletedIsExact`) and `FinalStageKept`
  (`ResultKept`), for every `Occurs`, every stage the hook may write and all faults.
  The invariant `XInv` follows a report. It comes from a machine that runs the
  installer and tells the truth (`Sender`), is credited to its sender (`Credited`),
  and what its thread has read and may write back is still true (`SeenExact`), all
  of this for jobs that are not `mixed`. The telemetry handler reads a stage and
  writes it back without a lock; what makes this safe is that a machine that is not
  `hasty` has one report at a time (`Waited`), so that a final stage that is there
  when the report is stored was there when it was read (`Fresh`). `Fetching` says
  which thread a machine waits for, and is needed so that a late answer does not
  move a machine that has gone on.
- `DiskSelectionProofs`: `OnlyDisksPicked`, `SmallestPicked`, `PoweroffNeedsReason`,
  for every machine and every list of devices. Filter and sort are folds; their
  lemmas follow the rounds of the fold and show by induction that the filter keeps
  exactly what it is asked for and that the sort keeps everything, in ascending
  order. The invariant `DInv` adds that an entry of the list stands for a device
  `init` has passed (`Reported`), that none is listed twice (`Once`), and what is
  known of the choice from the rendering on (`Chosen`). The last theorem compares
  two views of the disks: two equal disks the server has chosen, unless one is
  removable, are in the list of `lsblk` too, so that the early command finds a pair.
- `TcpProofs`: `TcpImplementsStream`, `QueueAlwaysBehindGap`, `SackAlwaysTruthful`.
  The invariant `RecvInv` says that the reader has been handed exactly the bytes up
  to the receive point (`Progress`), what is known after a close (`Closing`), that
  the queue holds stretches of the reply in ascending order (`Queue`) near enough to
  the receive point for comparisons modulo `M` to be comparisons of numbers, and
  where a call to the reader stands (`Calling`). Under it every step maps to a step
  of `Stream` or to a stutter. `SackAlwaysTruthful` is an induction over the rounds of
  the loop of `tcp_sack_block`: the block it grows never leaves what the queue covers.
- `TcpSendProofs`: `TcpTypes`, `AssertsHold`, `PendingAlwaysExact`, `SenderNeverStalls`,
  `WakeupNeverLost`. What is being sent goes through four phases (`Opening`,
  `Flowing`, `Ending`, `Finished`), and the invariant `SendInv` ties the counters and
  the timers to them.
- `NeighbourProofs`: `NeighbourTypes`, `RefsAlwaysExact`, `OneEntryForEach`,
  `NoPacketOrphaned`, `AlwaysInOrder`, `AlwaysOnePlace`. The first invariant (`Inv`)
  says of each entry which owners hold a reference and what they may assume
  (`AllSound`), that entries have destinations of their own (`Unique`) and that
  queues are in the order of handing over (`AllSorted`). The second (`Places`)
  follows the packets: each is new, in one queue, or in one of the three sets of
  those that have left, and a queue holds packets for its own destination only.
- `SequenceLemmas`: the least element of a set of numbers, induction in the form of
  sets, what a fold over a sequence computes round by round (`FoldExists`), and
  insertion into a sequence.

Inductions over data are stated with sets: the numbers up to which a statement holds
contain zero and the successor of each member (`SetInduction`, from the
well-foundedness of the natural numbers). The induction theorems of the library,
which take an operator as a parameter, are not needed.

Only model-checked: `DeliveredIsRecorded`, which holds for a lone job and fails for
three (`lifecycle_lost_report`), and the liveness properties `OutcomeReported`,
`EventuallyAcked`, `EventuallyDeleted` and `EventuallyOut`. Liveness under fairness rests on ENABLED,
which is out of the prover's reach.

## What is not modelled

- The rest of the iPXE source tree, by far the largest part of the repository:
  drivers, firmware interfaces, cryptography, DHCP, TLS, HTTP, IPv6, iSCSI and the
  shell. Third-party code that is compiled as it is; the two parts that every
  download passes through are modelled. The share of the repository's lines that
  the models cover is small for this reason.
- In `tcp.c`: the parsing of headers and options, the search for the connection
  of a packet, the reset that answers a packet without one, and `pending_data`, the
  count of packets in the transmit queue. In `neighbour.c`:
  `neighbour_define`, which only IPv6 uses, and the injection of delays. In
  `retry.c`: the estimate of the round-trip time.
- The binaries of the initramfs: third-party programs.
- GET with `Range` (`server.py:334`): in the deployed system nginx serves the ISOs,
  and the launcher is fetched without the header.
- The directory that all runs of Ansible share, and the timeout of the `uri` task:
  they are decided in Ansible, outside the repository.
- The order in which the four seed files appear. A launcher that is served while
  it is being rendered is in `Lifecycle`.
- The probe of the interfaces in `template2.ipxe`, and the conversions of netmasks:
  sequential code without shared state.
- `nginx-ssl.conf`, `docker-compose.yml`, `Dockerfile`: static configuration. nginx
  passes everything the models talk about to the server, except the ISO files.
- Field validators and the Ansible inventory dictionary: no state.
- `generate.py`, `build.sh`, `buildISO.py`, `exampleFunction.py`: run by hand.
- The late commands of the profiles: they configure the target disk. Their calls
  of the progress hook are commented out, so `HookStages` stands for an operator
  or a profile that uses the hook.
- The meaning of event texts: that a failing sub-step is reported with the result
  FAIL, or that "reboot" occurs in a description in the middle of an installation,
  would end a job early; `Lifecycle` lets only final events be classified as final.
