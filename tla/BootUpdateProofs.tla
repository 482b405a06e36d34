-------------------------- MODULE BootUpdateProofs --------------------------
(***************************************************************************)
(* Proofs about BootUpdate for every set of releases, every page size and  *)
(* storage size, and any number of power losses, torn erases and storage   *)
(* failures.                                                               *)
(***************************************************************************)
EXTENDS BootUpdate, TLAPS

Aligned(i) == \E k \in Nat : i = k * PageWords

\* What an install has done so far: before offset are the words of the update,
\* from there to the end of the page erased words; and as long as nothing was
\* touched, a whole executable in the flash is older than the update.
InstallInv ==
  pc = "install" =>
    /\ update.kind = "encrypted"
    /\ Aligned(next_erase)
    /\ offset <= next_erase /\ offset <= InstallLength
    /\ \A i \in 0 .. offset - 1 : flash[i] = update.version
    /\ \A i \in offset .. next_erase - 1 : flash[i] = Erased
    /\ offset = 0 /\ next_erase = 0 =>
         \A v \in Versions : Complete(flash, v) => Newer(update.version, v)

IInv ==
  /\ TypeOK
  /\ NothingGarbled
  /\ InstallInv
  /\ RunsNewestWhole
-----------------------------------------------------------------------------
(* Lemmas about the operators.                                             *)

\* Products of naturals are naturals.
LEMMA TimesNat == \A a, b \in Nat : a * b \in Nat
  OBVIOUS

\* A page that starts before the end of the storage ends there or before.
LEMMA PageFits ==
  ASSUME NEW i \in Nat, Aligned(i), i < FlashWords
  PROVE  i + PageWords <= FlashWords /\ Aligned(i + PageWords)
<1>1. PICK k \in Nat : i = k * PageWords
    BY DEF Aligned
<1>2. PageWords \in Nat /\ Pages \in Nat
    BY ConstantsAssumption
<1>3. (k + 1) * PageWords = i + PageWords
    BY <1>1, <1>2
<1>4. Aligned(i + PageWords)
    BY <1>3 DEF Aligned
<1>5. k + 1 <= Pages
  <2> SUFFICES ASSUME k >= Pages PROVE FALSE
      BY <1>2
  <2>1. k - Pages \in Nat /\ k = Pages + (k - Pages)
      BY <1>2
  <2>2. k * PageWords = Pages * PageWords + (k - Pages) * PageWords
      BY <1>2, <2>1
  <2>3. (k - Pages) * PageWords \in Nat /\ Pages * PageWords \in Nat
      BY <1>2, <2>1, TimesNat
  <2> QED  BY <1>1, <2>2, <2>3 DEF FlashWords
<1>6. Pages - (k + 1) \in Nat
    BY <1>2, <1>5
<1>7. Pages * PageWords = (k + 1) * PageWords + (Pages - (k + 1)) * PageWords
    BY <1>2, <1>6
<1>8. (Pages - (k + 1)) * PageWords \in Nat /\ (k + 1) * PageWords \in Nat
    BY <1>2, <1>6, TimesNat
<1> QED  BY <1>3, <1>4, <1>7, <1>8 DEF FlashWords

\* Where the storage ends, and how long a release is.
LEMMA Sizes ==
  /\ FlashWords \in Nat /\ PageWords \in Nat /\ PageWords > 0
  /\ \A v \in Versions : Length[v] \in Nat /\ Length[v] >= 7 /\ Length[v] <= FlashWords
<1>1. PageWords \in Nat /\ PageWords > 0 /\ Pages \in Nat
    BY ConstantsAssumption
<1>2. FlashWords \in Nat
    BY <1>1, TimesNat DEF FlashWords
<1> QED  BY <1>1, <1>2, ConstantsAssumption DEF HashAt

\* The comparison that fd_boot_get_action makes is the order of versions.
LEMMA Order ==
  \A a, b \in Versions :
    /\ Newer(a, b) <=> version_is_lt(b, a)
    /\ version_is_eq(a, b) => ~Newer(a, b)
<1> SUFFICES ASSUME NEW a \in Versions, NEW b \in Versions
             PROVE  /\ Newer(a, b) <=> version_is_lt(b, a)
                    /\ version_is_eq(a, b) => ~Newer(a, b)
    OBVIOUS
<1>1. /\ a[1] \in Nat /\ a[2] \in Nat /\ a[3] \in Nat
      /\ b[1] \in Nat /\ b[2] \in Nat /\ b[3] \in Nat
    BY ConstantsAssumption
<1>2. Newer(a, b) <=> \/ a[1] > b[1]
                      \/ a[2] > b[2] /\ a[1] = b[1]
                      \/ a[3] > b[3] /\ a[1] = b[1] /\ a[2] = b[2]
    BY <1>1 DEF Newer
<1> QED  BY <1>1, <1>2 DEF version_is_lt, version_is_eq

\* The checks of the code accept exactly the flash that holds a whole release.
LEMMA ValidIsComplete ==
  /\ get_executable_metadata(flash) = "valid" =>
       \E v \in Versions : Complete(flash, v)
  /\ \A v \in Versions : Complete(flash, v) =>
       get_executable_metadata(flash) = "valid" /\ flash[VersionAt] = v
<1>1. ASSUME get_executable_metadata(flash) = "valid"
      PROVE  \E v \in Versions : Complete(flash, v)
  <2> DEFINE v == flash[LengthAt]
  <2>1. v \in Versions /\ check_hash(flash, Length[v])
      BY <1>1 DEF get_executable_metadata, IsWord
  <2>2. Length[v] \in Nat /\ Length[v] >= 7
      BY <2>1, Sizes
  <2>3. flash[LengthAt] = flash[HashAt]
      BY <2>1, <2>2 DEF check_hash, LengthAt
  <2> QED  BY <2>1, <2>3 DEF check_hash, Complete
<1>2. ASSUME NEW v \in Versions, Complete(flash, v)
      PROVE  get_executable_metadata(flash) = "valid" /\ flash[VersionAt] = v
  <2>1. Length[v] \in Nat /\ Length[v] >= 7
      BY Sizes
  <2>2. \A i \in 0 .. Length[v] - 1 : flash[i] = v
      BY <1>2 DEF Complete
  <2>3. /\ flash[1] = v /\ flash[2] = v /\ flash[3] = v /\ flash[4] = v
        /\ flash[5] = v /\ flash[Length[v] - 1] = v
      BY <2>1, <2>2
  <2>4. check_hash(flash, Length[v])
      BY <2>2, <2>3 DEF check_hash, HashAt
  <2> QED
      BY <2>3, <2>4 DEF get_executable_metadata, IsWord, MagicAt, HeaderVersionAt,
                        VersionAt, LengthAt
<1> QED  BY <1>1, <1>2

\* Only an update encrypted for this device is ever valid.
LEMMA ValidIsEncrypted ==
  \A u \in Updates : get_update_metadata(u) = "valid" <=> u.kind = "encrypted"
  BY DEF get_update_metadata, plain_is_valid, encrypted_is_valid, Updates, Kinds,
         PlainHeaderLength, PlainMetadataLength
-----------------------------------------------------------------------------
(* The invariant.                                                          *)

\* The program starts with storage and pc of the kinds above.
LEMMA InitIInv ==
  ASSUME Init
  PROVE  IInv
<1> USE DEF Init
<1>1. \A v \in Versions : /\ Image(v) \in [Words -> Versions \cup {Erased, Garbled}]
                          /\ \A i \in Words : Image(v)[i] # Garbled
    BY ConstantsAssumption DEF Image
<1>2. /\ EmptyFlash \in [Words -> Versions \cup {Erased, Garbled}]
      /\ \A i \in Words : EmptyFlash[i] # Garbled
    BY ConstantsAssumption DEF EmptyFlash
<1>3. TypeOK
    BY <1>1, <1>2, Sizes, ConstantsAssumption DEF TypeOK, PC
<1>4. NothingGarbled
    BY <1>1, <1>2 DEF NothingGarbled
<1> QED  BY <1>3, <1>4 DEF IInv, InstallInv, RunsNewestWhole

\* fd_boot_update installs an update only if it is good and newer than a whole
\* executable, and runs an executable only if it is whole and not older.
LEMMA TryUpdateIInv ==
  ASSUME IInv, TryUpdate
  PROVE  IInv'
<1> DEFINE e == get_executable_metadata(flash)
           u == get_update_metadata(update)
<1>1. TypeOK /\ update \in Updates /\ update.version \in Versions
    BY DEF IInv, TypeOK, Updates
<1>2. /\ pc' \in {"failed", "run", "install"}
      /\ pc' = "run" => get_action(e, u) = "run"
      /\ pc' = "install" => get_action(e, u) = "install"
      /\ offset' = 0 /\ next_erase' = 0
      /\ UNCHANGED << flash, update, faults >>
    BY DEF TryUpdate
<1>3. u = "valid" <=> update.kind = "encrypted"
    BY <1>1, ValidIsEncrypted
<1>4. TypeOK'
    BY <1>1, <1>2, Sizes DEF TypeOK, PC
<1>5. NothingGarbled'
    BY <1>2 DEF IInv, NothingGarbled
<1> HIDE DEF e, u
<1>6. InstallInv'
  <2> SUFFICES ASSUME pc' = "install" PROVE InstallInv'
      BY DEF InstallInv
  <2>1. get_action(e, u) = "install" /\ u = "valid"
      BY <1>2 DEF get_action
  <2>2. ASSUME NEW v \in Versions, Complete(flash, v)
        PROVE  Newer(update.version, v)
    <3>1. e = "valid" /\ flash[VersionAt] = v
        BY <2>2, ValidIsComplete DEF e
    <3>2. version_is_lt(v, update.version)
        BY <2>1, <3>1 DEF get_action, can_downgrade
    <3> QED  BY <1>1, <3>2, Order
  <2>3. Aligned(0)
      BY Sizes DEF Aligned
  <2>4. InstallLength \in Nat
      BY <1>1, Sizes DEF InstallLength
  <2> QED
      BY <1>2, <1>3, <2>1, <2>2, <2>3, <2>4 DEF InstallInv, InstallLength, Complete
<1>7. RunsNewestWhole'
  <2> SUFFICES ASSUME pc' = "run" PROVE RunsNewestWhole'
      BY DEF RunsNewestWhole
  <2>1. get_action(e, u) = "run" /\ e = "valid"
      BY <1>2 DEF get_action
  <2>2. PICK v \in Versions : Complete(flash, v) /\ flash[VersionAt] = v
      BY <2>1, ValidIsComplete DEF e
  <2>3. ASSUME update.kind = "encrypted" PROVE ~Newer(update.version, v)
    <3>1. version_is_eq(update.version, v) \/ ~version_is_lt(v, update.version)
        BY <1>3, <2>1, <2>2, <2>3 DEF get_action, can_upgrade
    <3> QED  BY <1>1, <3>1, Order
  <2> QED  BY <1>2, <2>2, <2>3 DEF RunsNewestWhole, Complete
<1> QED  BY <1>4, <1>5, <1>6, <1>7 DEF IInv

\* An erase stays within the storage and leaves the words before it alone.
LEMMA EraseIInv ==
  ASSUME IInv, Erase
  PROVE  IInv'
<1>1. /\ pc = "install" /\ offset < InstallLength /\ next_erase = offset
      /\ flash' = [i \in Words |-> IF i \in PageAt(offset) THEN Erased ELSE flash[i]]
      /\ next_erase' = offset + PageWords
      /\ UNCHANGED << update, pc, offset, faults >>
    BY Sizes DEF Erase, ErasePages
<1>2. /\ flash \in [Words -> Versions \cup {Erased, Garbled}]
      /\ update \in Updates /\ update.version \in Versions /\ pc \in PC
      /\ offset \in Nat /\ faults \in 0 .. MaxFaults
    BY Sizes DEF IInv, TypeOK, Updates
<1>3. FlashWords \in Nat /\ offset < FlashWords /\ offset <= FlashWords
    BY <1>1, <1>2, Sizes DEF InstallLength
<1>4. offset + PageWords <= FlashWords /\ Aligned(offset + PageWords)
    BY <1>1, <1>2, <1>3, PageFits DEF IInv, InstallInv
<1>5. TypeOK'
    BY <1>1, <1>2, <1>3, <1>4, Sizes DEF TypeOK
<1>6. NothingGarbled'
    BY <1>1, ConstantsAssumption DEF IInv, NothingGarbled
<1>7. InstallInv'
  <2>1. \A i \in 0 .. offset - 1 : flash'[i] = update.version
      BY <1>1, <1>2, <1>3 DEF IInv, InstallInv, PageAt, Words
  <2>2. \A i \in offset .. offset + PageWords - 1 : flash'[i] = Erased
      BY <1>1, <1>2, <1>3, <1>4, Sizes DEF PageAt, Words
  <2>3. update.kind = "encrypted" /\ offset <= InstallLength
      BY <1>1 DEF IInv, InstallInv
  <2> QED
      BY <1>1, <1>2, <1>4, <2>1, <2>2, <2>3, Sizes DEF InstallInv, InstallLength
<1> QED  BY <1>1, <1>5, <1>6, <1>7 DEF IInv, RunsNewestWhole

\* A write always finds an erased word and turns it into one of the update.
LEMMA WriteIInv ==
  ASSUME IInv, Write
  PROVE  IInv'
<1>1. /\ pc = "install" /\ offset < InstallLength /\ next_erase # offset
      /\ Program(offset, update.version) /\ offset' = offset + 1
      /\ UNCHANGED << update, pc, next_erase, faults >>
    BY DEF Write
<1>2. /\ flash \in [Words -> Versions \cup {Erased, Garbled}]
      /\ update \in Updates /\ update.version \in Versions /\ pc \in PC
      /\ offset \in Nat /\ next_erase \in Nat /\ next_erase <= FlashWords
      /\ faults \in 0 .. MaxFaults
    BY Sizes DEF IInv, TypeOK, Updates
<1>3. /\ update.kind = "encrypted" /\ Aligned(next_erase)
      /\ offset <= next_erase
      /\ \A i \in 0 .. offset - 1 : flash[i] = update.version
      /\ \A i \in offset .. next_erase - 1 : flash[i] = Erased
    BY <1>1 DEF IInv, InstallInv
<1>4. InstallLength \in Nat /\ FlashWords \in Nat /\ InstallLength <= FlashWords
    BY <1>2, Sizes DEF InstallLength
<1>5. offset < next_erase /\ offset \in Words
    BY <1>1, <1>2, <1>3, <1>4 DEF Words
<1>6. flash' = [flash EXCEPT ![offset] = update.version]
  <2>1. flash[offset] = Erased
      BY <1>2, <1>3, <1>5
  <2> QED  BY <1>1, <2>1 DEF Program
<1>7. TypeOK'
    BY <1>1, <1>2, <1>4, <1>5, <1>6 DEF TypeOK
<1>8. NothingGarbled'
    BY <1>2, <1>5, <1>6, ConstantsAssumption DEF IInv, NothingGarbled
<1>9. InstallInv'
  <2>1. \A i \in 0 .. offset : flash'[i] = update.version
      BY <1>2, <1>3, <1>5, <1>6 DEF Words
  <2>2. \A i \in offset + 1 .. next_erase - 1 : flash'[i] = Erased
      BY <1>2, <1>3, <1>5, <1>6 DEF Words
  <2> QED
      BY <1>1, <1>2, <1>3, <1>4, <1>5, <2>1, <2>2 DEF InstallInv, InstallLength
<1> QED  BY <1>1, <1>7, <1>8, <1>9 DEF IInv, RunsNewestWhole

\* An install that got to its end wrote the whole of the update.
LEMMA InstallDoneIInv ==
  ASSUME IInv, InstallDone
  PROVE  IInv'
<1>1. /\ pc = "install" /\ offset = InstallLength /\ pc' \in {"run", "failed"}
      /\ UNCHANGED << flash, update, offset, next_erase, faults >>
    BY DEF InstallDone
<1>2. update.version \in Versions
    BY DEF IInv, TypeOK, Updates
<1>3. Complete(flash, update.version)
    BY <1>1 DEF IInv, InstallInv, InstallLength, Complete
<1>4. ~Newer(update.version, update.version)
    BY <1>2, Order DEF version_is_eq
<1>5. RunsNewestWhole'
    BY <1>1, <1>2, <1>3, <1>4 DEF RunsNewestWhole, Complete
<1>6. TypeOK' /\ NothingGarbled' /\ InstallInv'
    BY <1>1 DEF IInv, TypeOK, PC, NothingGarbled, InstallInv
<1> QED  BY <1>5, <1>6 DEF IInv

\* A torn erase and a power loss leave nothing that the next boot trusts.
LEMMA EraseTornIInv ==
  ASSUME IInv, EraseTorn
  PROVE  IInv'
<1>1. PICK torn \in SUBSET PageAt(offset) :
        flash' = [i \in Words |-> IF i \in torn THEN Erased ELSE flash[i]]
    BY DEF EraseTorn
<1>2. /\ pc' = "boot" /\ offset' = 0 /\ next_erase' = 0
      /\ faults < MaxFaults /\ faults' = faults + 1 /\ UNCHANGED update
    BY DEF EraseTorn, Fault, Reset
<1>3. TypeOK'
  <2>1. flash' \in [Words -> Versions \cup {Erased, Garbled}]
      BY <1>1 DEF IInv, TypeOK
  <2>2. faults' \in 0 .. MaxFaults
      BY <1>2, ConstantsAssumption DEF IInv, TypeOK
  <2> QED  BY <1>2, <2>1, <2>2, Sizes DEF IInv, TypeOK, PC
<1>4. NothingGarbled'
    BY <1>1, ConstantsAssumption DEF IInv, NothingGarbled
<1> QED  BY <1>2, <1>3, <1>4 DEF IInv, InstallInv, RunsNewestWhole

\* A step that leaves the flash alone and neither installs nor runs.
Quiet ==
  /\ flash' = flash /\ update' \in Updates
  /\ pc' \in PC \ {"install", "run"}
  /\ offset' = 0 \/ offset' = offset
  /\ next_erase' = 0 \/ next_erase' = next_erase
  /\ faults' = faults \/ (faults < MaxFaults /\ faults' = faults + 1)

\* A step that leaves the storage of the executable as it is.
LEMMA QuietIInv ==
  ASSUME IInv, Quiet
  PROVE  IInv'
<1>1. faults' \in 0 .. MaxFaults
    BY ConstantsAssumption DEF IInv, TypeOK, Quiet
<1>2. TypeOK'
    BY <1>1, Sizes DEF IInv, TypeOK, Quiet
<1>3. NothingGarbled'
    BY DEF IInv, NothingGarbled, Quiet
<1> QED  BY <1>2, <1>3 DEF IInv, InstallInv, RunsNewestWhole, Quiet

\* Every step keeps the invariant, one action after the other.
LEMMA NextIInv ==
  ASSUME IInv, [Next]_vars
  PROVE  IInv'
<1>1. update \in Updates /\ \A k \in Kinds : [update EXCEPT !.kind = k] \in Updates
    BY DEF IInv, TypeOK, Updates
<1>2. CASE OpenFails \/ MountFails \/ ButtonHeld \/ TryExecute \/ CheckFails
  <2>1. Quiet
      BY <1>1, <1>2 DEF Quiet, OpenFails, MountFails, ButtonHeld, TryExecute,
         CheckFails, try_execute, Fault, PC
  <2> QED  BY <2>1, QuietIInv
<1>3. CASE TryUpdate
    BY <1>3, TryUpdateIInv
<1>4. CASE Erase
    BY <1>4, EraseIInv
<1>5. CASE Write
    BY <1>5, WriteIInv
<1>6. CASE InstallDone
    BY <1>6, InstallDoneIInv
<1>7. CASE EraseTorn
    BY <1>7, EraseTornIInv
<1>8. CASE InstallFails \/ Restart \/ PowerFails
  <2>1. Quiet
      BY <1>1, <1>8 DEF Quiet, InstallFails, Restart, PowerFails, Reset, Fault, PC
  <2> QED  BY <2>1, QuietIInv
<1>9. CASE Format \/ FormatFails \/ FormatTorn
  <2>1. Quiet
      BY <1>1, <1>9 DEF Quiet, Format, FormatFails, FormatTorn, Reset, Fault, PC, Kinds
  <2> QED  BY <2>1, QuietIInv
<1>10. CASE UsbCopy
  <2>1. Quiet
      BY <1>10 DEF Quiet, UsbCopy, PC
  <2> QED  BY <2>1, QuietIInv
<1>11. CASE UNCHANGED vars
    BY <1>11 DEF vars, IInv, TypeOK, NothingGarbled, InstallInv, InstallLength,
       RunsNewestWhole, Complete
<1> QED
    BY <1>2, <1>3, <1>4, <1>5, <1>6, <1>7, <1>8, <1>9, <1>10, <1>11
    DEF Next, Boot, Install, Recover, Environment

\* The invariant holds in every behaviour.
LEMMA Invariance == Spec => []IInv
  BY InitIInv, NextIInv, PTL DEF Spec
-----------------------------------------------------------------------------
(* The theorems.                                                           *)

\* The type invariant: an install never writes or erases past the end of the
\* executable's storage.
THEOREM TypeCorrect == Spec => []TypeOK
<1>1. IInv => TypeOK
    BY DEF IInv
<1> QED  BY <1>1, Invariance, PTL

\* fd_boot_install erases every word before it programs it.
THEOREM FlashSound == Spec => []NothingGarbled
<1>1. IInv => NothingGarbled
    BY DEF IInv
<1> QED  BY <1>1, Invariance, PTL

\* What fd_boot_update reports as valid is one whole release, no older than a
\* good update in storage, whatever was interrupted before.
THEOREM RunSound == Spec => []RunsNewestWhole
<1>1. IInv => RunsNewestWhole
    BY DEF IInv
<1> QED  BY <1>1, Invariance, PTL

\* The step form of KeepsWholeExecutable.
Keeps ==
  \A v \in Versions :
    Complete(flash, v) /\ ~Complete(flash', v) =>
      /\ update.kind = "encrypted"
      /\ \/ Newer(update.version, v)
         \/ update.version = v /\ offset > 0

\* No step but a good install, or a repair, harms a whole executable.
LEMMA StepKeeps ==
  ASSUME IInv, [Next]_vars
  PROVE  Keeps
<1> SUFFICES ASSUME NEW v \in Versions, Complete(flash, v), ~Complete(flash', v)
             PROVE  /\ update.kind = "encrypted"
                    /\ \/ Newer(update.version, v)
                       \/ update.version = v /\ offset > 0
    BY DEF Keeps
<1>1. flash' # flash
    OBVIOUS
<1>2. /\ pc = "install" /\ offset < InstallLength
      /\ next_erase = offset \/ Write
    BY <1>1 DEF Next, Boot, Install, Recover, Environment, vars, OpenFails, MountFails,
       ButtonHeld, TryExecute, TryUpdate, CheckFails, Erase, ErasePages, Write,
       InstallFails, InstallDone, Format, FormatFails, UsbCopy, Restart, PowerFails,
       EraseTorn, FormatTorn
<1>3. /\ update.kind = "encrypted" /\ offset <= next_erase
      /\ \A i \in 0 .. offset - 1 : flash[i] = update.version
      /\ \A i \in offset .. next_erase - 1 : flash[i] = Erased
      /\ offset = 0 /\ next_erase = 0 => Newer(update.version, v)
    BY <1>2 DEF IInv, InstallInv
<1>4. offset \in Nat /\ next_erase \in Nat
    BY Sizes DEF IInv, TypeOK
<1>5. flash[0] = v /\ v # Erased
    BY Sizes, ConstantsAssumption DEF Complete
<1>6. CASE offset > 0
    BY <1>3, <1>4, <1>5, <1>6
<1>7. CASE offset = 0 /\ next_erase = 0
    BY <1>3, <1>7
<1>8. ~(offset = 0 /\ next_erase # 0)
    BY <1>3, <1>4, <1>5
<1> QED  BY <1>4, <1>6, <1>7, <1>8

\* A whole executable is only destroyed by an install of a good update that is
\* newer, or by one that is already under way and repairs the same release.
THEOREM NothingLost == Spec => KeepsWholeExecutable
<1>1. IInv /\ [Next]_vars => [Keeps]_vars
    BY StepKeeps
<1>2. Spec => [][Keeps]_vars
    BY <1>1, Invariance, PTL DEF Spec
<1> QED  BY <1>2 DEF KeepsWholeExecutable, Keeps
=============================================================================
