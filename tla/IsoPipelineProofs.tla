-------------------------- MODULE IsoPipelineProofs --------------------------
(* Proofs about IsoPipeline, for any number of builds, jobs and requests in  *)
(* flight and for every combination of faults.                               *)
EXTENDS IsoPipeline, TLAPS

\* Two builds that are active together have both been marked as overlapped.
Exclusive ==
    \A b, c \in Builds : Active(b) /\ Active(c) /\ b # c => overlapped[b]

\* The history variable is set by ComposeWrite only.
NotYetComposed ==
    \A b \in Builds :
        pc[b] \in {"idle", "jsonOpened", "saved", "read", "opened"}
            => ~composeOk[b]

\* What a lone build has put where, as far as it has got.
Progress(b) ==
    /\ pc[b] = "jsonOpened" => jobJson[JobOf[b]] = "Empty"
    /\ pc[b] = "saved" => jobJson[JobOf[b]] = b
    /\ pc[b] \in {"read", "opened"} => buf[b] = b
    /\ pc[b] = "opened" => file["boot.ipxe"] = "Empty"
    /\ pc[b] = "formatted" => file["efiboot.img"] = "Empty"
    /\ pc[b] = "dirs" => file["efiboot.img"] = "Dirs"
    /\ composeOk[b] =>
        /\ pc[b] = "composed" => file["boot.ipxe"] = b /\ ~objFresh
        /\ pc[b] = "compiling" => buf[b] = b
        /\ pc[b] = "compiled" => file["embedded.o"] = b
        /\ pc[b] = "linked" => file["ipxe.efi"] = b
        /\ pc[b] \in {"staged", "formatted", "dirs"} => file["BOOTX64.EFI"] = b
        /\ pc[b] = "filled" => file["efiboot.img"] = b
        /\ pc[b] = "imaged" => file["iso_temp/efiboot.img"] = b
        /\ pc[b] = "built" => iso[JobOf[b]] = b

\* The inductive invariant.
IInv ==
    /\ TypeOK
    /\ Exclusive
    /\ NotYetComposed
    /\ \A b \in Builds : Active(b) /\ ~overlapped[b] => Progress(b)

-----------------------------------------------------------------------------

\* The labels of a running build are labels, and the four final or initial
\* labels are not among them.
LEMMA Labels ==
    /\ Running \subseteq PC
    /\ Shell \subseteq Running
    /\ \A l \in {"idle", "ok", "failed", "killed"} : l \in PC /\ l \notin Running
BY DEF Running, Shell, PC

\* A crash or a failing command leaves every file with a content.
LEMMA DamageType ==
    ASSUME TypeOK, NEW fs, Damage(fs)
    PROVE  file' \in [File -> Content] /\ objFresh' \in BOOLEAN
BY DEF Damage, TypeOK, Content

LEMMA DamageIsoType ==
    ASSUME TypeOK, NEW bs, DamageIso(bs)
    PROVE  iso' \in [Jobs -> Content]
BY DEF DamageIso, TypeOK, Content

\* Every step keeps the types.
LEMMA TypeStep == TypeOK /\ [Next]_vars => TypeOK'
<1> SUFFICES ASSUME TypeOK, [Next]_vars
             PROVE  TypeOK'
  OBVIOUS
<1> USE IsoAssumption DEF TypeOK, Goto, Put, CopyStep, Content, File, PC, Running, Shell
<1>1. ASSUME Crash
      PROVE  TypeOK'
  <2>1. file' \in [File -> Content] /\ objFresh' \in BOOLEAN
    BY <1>1, DamageType DEF Crash
  <2>2. iso' \in [Jobs -> Content]
    BY <1>1, DamageIsoType DEF Crash
  <2>3. QED
    BY <1>1, <2>1, <2>2 DEF Crash
<1>2. ASSUME NEW b \in Builds, Handler(b)
      PROVE  TypeOK'
  <2>1. CASE OpenJobJson(b)
    BY <2>1 DEF OpenJobJson
  <2>2. CASE DumpJobJson(b)
    BY <2>2 DEF DumpJobJson, Written
  <2>3. CASE ComposeRead(b)
    BY <2>3 DEF ComposeRead
  <2>4. CASE ComposeOpen(b)
    BY <2>4 DEF ComposeOpen
  <2>5. CASE ComposeWrite(b)
    <3>1. PICK c \in Written(file["boot.ipxe"], buf[b]) : Put("boot.ipxe", c)
      BY <2>5 DEF ComposeWrite
    <3>2. c \in Content
      BY DEF Written
    <3>3. QED
      BY <2>5, <3>1, <3>2 DEF ComposeWrite
  <2>6. CASE ComposeError(b)
    BY <2>6 DEF ComposeError
  <2>7. CASE MakeStart(b)
    BY <2>7 DEF MakeStart
  <2>8. CASE MakeObject(b)
    BY <2>8 DEF MakeObject
  <2>9. CASE MakeLink(b) \/ StageEfi(b) \/ StageImage(b)
    BY <2>9 DEF MakeLink, StageEfi, StageImage
  <2>10. CASE FormatImage(b)
    BY <2>10 DEF FormatImage
  <2>11. CASE MakeDirs(b)
    BY <2>11 DEF MakeDirs
  <2>12. CASE FillImage(b)
    BY <2>12 DEF FillImage
  <2>13. CASE WriteIso(b)
    BY <2>13 DEF WriteIso
  <2>14. CASE RespondOk(b)
    BY <2>14 DEF RespondOk
  <2>15. CASE StepFails(b)
    <3>1. file' \in [File -> Content] /\ objFresh' \in BOOLEAN
      BY <2>15, DamageType DEF StepFails
    <3>2. iso' \in [Jobs -> Content]
      BY <2>15, DamageIsoType DEF StepFails
    <3>3. QED
      BY <2>15, <3>1, <3>2 DEF StepFails
  <2>16. QED
    BY <1>2, <2>1, <2>2, <2>3, <2>4, <2>5, <2>6, <2>7, <2>8, <2>9, <2>10,
       <2>11, <2>12, <2>13, <2>14, <2>15 DEF Handler
<1>3. CASE UNCHANGED vars
  BY <1>3 DEF vars
<1>4. QED
  BY <1>1, <1>2, <1>3 DEF Next

-----------------------------------------------------------------------------

\* While a build that is running takes a step that leaves the history of
\* overlaps alone, no other build can be running and unmarked.
LEMMA LoneStep ==
    ASSUME TypeOK, Exclusive, NEW b \in Builds, NEW l \in PC,
           Active(b), Goto(b, l), overlapped' = overlapped
    PROVE  /\ Exclusive'
           /\ \A c \in Builds : Active(c)' /\ ~overlapped'[c] => c = b
BY Labels DEF TypeOK, Exclusive, Active, Goto

\* Every step of every build, every failure and every crash preserves the
\* inductive invariant.
LEMMA InvStep == IInv /\ [Next]_vars => IInv'
<1> SUFFICES ASSUME IInv, [Next]_vars
             PROVE  IInv'
  OBVIOUS
<1>t. TypeOK' /\ TypeOK
  BY TypeStep DEF IInv
<1>1. CASE Crash
  <2>1. \A b \in Builds : pc'[b] \notin Running
    BY <1>1, <1>t, Labels DEF Crash, Active, TypeOK
  <2>2. NotYetComposed'
    BY <1>1, <1>t DEF Crash, Active, TypeOK, NotYetComposed, IInv
  <2>3. QED
    BY <1>t, <2>1, <2>2 DEF IInv, Exclusive, Active
<1>2. ASSUME NEW b \in Builds, Handler(b)
      PROVE  IInv'
  <2>1. CASE OpenJobJson(b)
    <3>1. NotYetComposed'
      BY <2>1, <1>t DEF OpenJobJson, Goto, TypeOK, NotYetComposed, IInv
    <3>2. Exclusive'
      BY <2>1, <1>t DEF OpenJobJson, Goto, TypeOK, Exclusive, IInv, Active
    <3>3. ASSUME NEW c \in Builds, Active(c)', ~overlapped'[c]
          PROVE  Progress(c)'
      <4>1. c = b
        BY <2>1, <3>3, <1>t DEF OpenJobJson, Goto, TypeOK, Active
      <4>2. pc'[b] = "jsonOpened" /\ jobJson'[JobOf[b]] = "Empty" /\ ~composeOk'[b]
        BY <2>1, <3>1, <1>t, IsoAssumption
        DEF OpenJobJson, Goto, TypeOK, NotYetComposed
      <4>3. QED
        BY <4>1, <4>2 DEF Progress
    <3>4. QED
      BY <1>t, <3>1, <3>2, <3>3 DEF IInv
  <2>2. CASE StepFails(b) \/ RespondOk(b)
    <3>1. PICK l \in {"ok", "failed"} : Goto(b, l)
      BY <2>2 DEF StepFails, RespondOk
    <3>2. Active(b) /\ overlapped' = overlapped /\ composeOk' = composeOk
      BY <2>2, Labels DEF StepFails, RespondOk, Active, Running
    <3>3. Exclusive' /\ \A c \in Builds : Active(c)' /\ ~overlapped'[c] => c = b
      BY <3>1, <3>2, <1>t, LoneStep, Labels DEF IInv
    <3>4. ~Active(b)'
      BY <3>1, <1>t, Labels DEF Goto, TypeOK, Active
    <3>5. NotYetComposed'
      BY <3>1, <3>2, <1>t DEF Goto, TypeOK, NotYetComposed, IInv
    <3>6. QED
      BY <1>t, <3>3, <3>4, <3>5 DEF IInv
  <2>3. ASSUME Active(b), overlapped' = overlapped,
               NEW l \in PC, Goto(b, l),
               NotYetComposed',
               ~overlapped[b] /\ Progress(b) => Progress(b)'
        PROVE  IInv'
    <3>1. Exclusive' /\ \A c \in Builds : Active(c)' /\ ~overlapped'[c] => c = b
      BY <2>3, <1>t, LoneStep DEF IInv
    <3>2. QED
      BY <1>t, <2>3, <3>1 DEF IInv
  <2>j. JobOf[b] \in Jobs /\ b \notin {"Missing", "Empty", "Dirs", "Broken"}
    BY IsoAssumption
  <2> USE DEF Goto, Put, Active, Progress, NotYetComposed, Running, Shell, PC, File
  <2>4. CASE DumpJobJson(b)
    <3>1. ~overlapped[b] => jobJson'[JobOf[b]] = b
      BY <2>4, <1>t, <2>j DEF DumpJobJson, Written, TypeOK, IInv
    <3>2. pc'[b] = "saved" /\ ~composeOk'[b] /\ NotYetComposed'
      BY <2>4, <1>t DEF DumpJobJson, TypeOK, IInv
    <3>3. QED
      BY <2>3, <2>4, <3>1, <3>2 DEF DumpJobJson
  <2>5. CASE ComposeRead(b)
    <3>1. ~overlapped[b] => pc'[b] = "read" /\ buf'[b] = b
      BY <2>5, <1>t, <2>j DEF ComposeRead, TypeOK, IInv
    <3>2. ~composeOk'[b] /\ NotYetComposed'
      BY <2>5, <1>t DEF ComposeRead, TypeOK, IInv
    <3>3. QED
      BY <2>3, <2>5, <3>1, <3>2 DEF ComposeRead
  <2>6. CASE ComposeOpen(b)
    <3>1. ~overlapped[b] => buf'[b] = b /\ file'["boot.ipxe"] = "Empty"
      BY <2>6, <1>t, <2>j DEF ComposeOpen, TypeOK, IInv
    <3>2. pc'[b] = "opened" /\ ~composeOk'[b] /\ NotYetComposed'
      BY <2>6, <1>t, <2>j DEF ComposeOpen, TypeOK, IInv
    <3>3. QED
      BY <2>3, <2>6, <3>1, <3>2 DEF ComposeOpen
  <2>7. CASE ComposeWrite(b)
    <3>1. ~overlapped[b] => file'["boot.ipxe"] = b /\ ~objFresh'
      BY <2>7, <1>t, <2>j DEF ComposeWrite, Written, TypeOK, IInv
    <3>2. pc'[b] = "composed" /\ NotYetComposed'
      BY <2>7, <1>t, <2>j DEF ComposeWrite, Written, TypeOK, IInv
    <3>3. QED
      BY <2>3, <2>7, <3>1, <3>2 DEF ComposeWrite, Written
  <2>8. CASE ComposeError(b)
    <3>1. pc'[b] = "composed" /\ ~composeOk'[b] /\ NotYetComposed'
      BY <2>8, <1>t DEF ComposeError, TypeOK, IInv
    <3>2. QED
      BY <2>3, <2>8, <3>1 DEF ComposeError
  <2>9. CASE MakeStart(b)
    <3>1. ~overlapped[b] /\ composeOk'[b] => pc'[b] = "compiling" /\ buf'[b] = b
      BY <2>9, <1>t, <2>j DEF MakeStart, TypeOK, IInv
    <3>2. pc'[b] \in {"failed", "compiling", "compiled"} /\ NotYetComposed'
      BY <2>9, <1>t, <2>j DEF MakeStart, TypeOK, IInv
    <3>3. QED
      BY <2>3, <2>9, <3>1, <3>2 DEF MakeStart
  <2>10. CASE MakeObject(b)
    <3>1. ~overlapped[b] /\ composeOk'[b] => file'["embedded.o"] = b
      BY <2>10, <1>t, <2>j DEF MakeObject, TypeOK, IInv
    <3>2. pc'[b] = "compiled" /\ NotYetComposed'
      BY <2>10, <1>t, <2>j DEF MakeObject, TypeOK, IInv
    <3>3. QED
      BY <2>3, <2>10, <3>1, <3>2 DEF MakeObject
  <2>11. CASE MakeLink(b)
    <3>1. ~overlapped[b] /\ composeOk'[b] => file'["ipxe.efi"] = b
      BY <2>11, <1>t, <2>j DEF MakeLink, CopyStep, TypeOK, IInv
    <3>2. pc'[b] = "linked" /\ NotYetComposed'
      BY <2>11, <1>t, <2>j DEF MakeLink, CopyStep, TypeOK, IInv
    <3>3. QED
      BY <2>3, <2>11, <3>1, <3>2 DEF MakeLink, CopyStep
  <2>12. CASE StageEfi(b)
    <3>1. ~overlapped[b] /\ composeOk'[b] => file'["BOOTX64.EFI"] = b
      BY <2>12, <1>t, <2>j DEF StageEfi, CopyStep, TypeOK, IInv
    <3>2. pc'[b] = "staged" /\ NotYetComposed'
      BY <2>12, <1>t, <2>j DEF StageEfi, CopyStep, TypeOK, IInv
    <3>3. QED
      BY <2>3, <2>12, <3>1, <3>2 DEF StageEfi, CopyStep
  <2>13. CASE FormatImage(b)
    <3>1. ~overlapped[b] /\ composeOk'[b] => file'["BOOTX64.EFI"] = b
      BY <2>13, <1>t, <2>j DEF FormatImage, TypeOK, IInv
    <3>2. pc'[b] = "formatted" /\ file'["efiboot.img"] = "Empty" /\ NotYetComposed'
      BY <2>13, <1>t, <2>j DEF FormatImage, TypeOK, IInv
    <3>3. QED
      BY <2>3, <2>13, <3>1, <3>2 DEF FormatImage
  <2>14. CASE MakeDirs(b)
    <3>1. ~overlapped[b] /\ composeOk'[b] => file'["BOOTX64.EFI"] = b
      BY <2>14, <1>t, <2>j DEF MakeDirs, TypeOK, IInv
    <3>2. ~overlapped[b] => pc'[b] = "dirs" /\ file'["efiboot.img"] = "Dirs"
      BY <2>14, <1>t, <2>j DEF MakeDirs, TypeOK, IInv
    <3>3. NotYetComposed'
      BY <2>14, <1>t, <2>j DEF MakeDirs, TypeOK, IInv
    <3>4. QED
      BY <2>3, <2>14, <3>1, <3>2, <3>3 DEF MakeDirs
  <2>15. CASE FillImage(b)
    <3>1. ~overlapped[b] /\ composeOk'[b] => file'["efiboot.img"] = b
      BY <2>15, <1>t, <2>j DEF FillImage, TypeOK, IInv
    <3>2. ~overlapped[b] => pc'[b] = "filled"
      BY <2>15, <1>t, <2>j DEF FillImage, TypeOK, IInv
    <3>3. NotYetComposed'
      BY <2>15, <1>t, <2>j DEF FillImage, TypeOK, IInv
    <3>4. QED
      BY <2>3, <2>15, <3>1, <3>2, <3>3 DEF FillImage
  <2>16. CASE StageImage(b)
    <3>1. ~overlapped[b] /\ composeOk'[b] => file'["iso_temp/efiboot.img"] = b
      BY <2>16, <1>t, <2>j DEF StageImage, CopyStep, TypeOK, IInv
    <3>2. pc'[b] = "imaged" /\ NotYetComposed'
      BY <2>16, <1>t, <2>j DEF StageImage, CopyStep, TypeOK, IInv
    <3>3. QED
      BY <2>3, <2>16, <3>1, <3>2 DEF StageImage, CopyStep
  <2>17. CASE WriteIso(b)
    <3>1. ~overlapped[b] /\ composeOk'[b] => iso'[JobOf[b]] = b
      BY <2>17, <1>t, <2>j DEF WriteIso, TypeOK, IInv
    <3>2. pc'[b] = "built" /\ NotYetComposed'
      BY <2>17, <1>t DEF WriteIso, TypeOK, IInv
    <3>3. QED
      BY <2>3, <2>17, <3>1, <3>2 DEF WriteIso
  <2>18. QED
    BY <1>2, <2>1, <2>2, <2>4, <2>5, <2>6, <2>7, <2>8, <2>9, <2>10, <2>11,
       <2>12, <2>13, <2>14, <2>15, <2>16, <2>17 DEF Handler
<1>3. CASE UNCHANGED vars
  BY <1>3 DEF vars, IInv, TypeOK, Exclusive, NotYetComposed, Progress, Active
<1>4. QED
  BY <1>1, <1>2, <1>3 DEF Next

\* The invariant holds of the first state: no build is active in it.
LEMMA InvInit == Init => IInv
<1> SUFFICES ASSUME Init
             PROVE  IInv
  OBVIOUS
<1>1. \A b \in Builds : ~Active(b) /\ ~composeOk[b]
  BY Labels DEF Init, Active
<1>2. TypeOK
  BY Labels DEF Init, TypeOK, Content
<1>3. QED
  BY <1>1, <1>2 DEF IInv, Exclusive, NotYetComposed

LEMMA InvAlways == Spec => []IInv
BY InvInit, InvStep, PTL DEF Spec

\* Type correctness of the build, for every value of the constants.
THEOREM TypeCorrect == Spec => []TypeOK
<1>1. IInv => TypeOK
  BY DEF IInv
<1>2. QED
  BY <1>1, InvAlways, PTL

\* A build that ran alone and whose boot.ipxe was written delivers an ISO with
\* the parameters of its own request (pipeline.sh on a directory that earlier
\* builds left in any state).
THEOREM LoneBuildTailored == Spec => []LoneBuildIsTailored
<1>1. IInv => LoneBuildIsTailored
  BY DEF IInv, LoneBuildIsTailored, Progress, Active, Running
<1>2. QED
  BY <1>1, InvAlways, PTL

\* A build that ran alone finds job.json and efiboot.img as it left them, so
\* neither compose.py nor mmd nor mcopy fails on the leavings of earlier builds.
THEOREM LoneBuildFinds == Spec => []LoneBuildFindsItsFiles
<1>1. IInv => LoneBuildFindsItsFiles
  BY DEF IInv, LoneBuildFindsItsFiles, Progress, Active, Running, Shell
<1>2. QED
  BY <1>1, InvAlways, PTL
=============================================================================
