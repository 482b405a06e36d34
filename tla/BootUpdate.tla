----------------------------- MODULE BootUpdate -----------------------------
(***************************************************************************)
(* The boot loader: the update engine of subsys/boot (fd_boot.c) on the    *)
(* nRF53 flash (fd_boot_nrf53.c), driven by main() of                      *)
(* applications/boot/usb with the update in a file of a FAT file system.   *)
(*                                                                         *)
(* The executable flash is a sequence of words, the unit that the flash    *)
(* programs in one go.  A word holds Erased, or the version of the release *)
(* it belongs to: every image has its metadata at the same offset, so the  *)
(* word at MagicAt is the magic exactly when it belongs to a release.  The *)
(* checks of the code only read, so one action is a whole check; an        *)
(* install changes the flash one page or one word at a time, and the power *)
(* may fail between any two of them, or within the erase of a page.        *)
(***************************************************************************)
EXTENDS Integers

CONSTANTS
  Versions,   \* the releases in use: a set of << major, minor, patch >>
  Length,     \* [Versions -> Nat] the words of a release's executable
  PageWords,  \* page_size of the flash
  Pages,      \* the pages of the executable's storage
  Erased,     \* a word that reads 0xffffffff
  Garbled,    \* a word programmed twice without an erase
  Faults,     \* which faults may happen: the power fails between two
              \* writes or within an erase, the update storage fails
  MaxFaults   \* how often they may

\* The words of an image: vectors, then metadata; a trailer is its last word.
MagicAt == 1
HeaderVersionAt == 2
VersionAt == 3
LengthAt == 4
HashAt == 5

FlashWords == Pages * PageWords

ASSUME ConstantsAssumption ==
  /\ Versions \subseteq Nat \X Nat \X Nat
  /\ PageWords \in Nat \ {0} /\ Pages \in Nat
  /\ Length \in [Versions -> HashAt + 2 .. FlashWords]
  /\ Erased \notin Versions \cup {Garbled} /\ Garbled \notin Versions
  /\ Faults \subseteq {"power", "erase", "storage"}
  /\ MaxFaults \in Nat

VARIABLES
  flash,     \* the words of the executable's storage
  update,    \* the update file: what it is and of which release
  pc,        \* where main() is
  offset,    \* flash_location - info_executable.location, in words
  next_erase,\* next_erase_location, likewise
  faults     \* how many faults there have been

vars == << flash, update, pc, offset, next_erase, faults >>

Words == 0 .. FlashWords - 1
Kinds == {"unformatted", "missing", "short", "damaged", "plain", "foreign",
          "encrypted"}
Updates == [kind : Kinds, version : Versions]
PC == {"boot", "install", "run", "try_run", "failed", "format", "usb", "halted"}

\* The one type invariant.
TypeOK ==
  /\ flash \in [Words -> Versions \cup {Erased, Garbled}]
  /\ update \in Updates
  /\ pc \in PC
  /\ offset \in 0 .. FlashWords
  /\ next_erase \in 0 .. FlashWords
  /\ faults \in 0 .. MaxFaults

-----------------------------------------------------------------------------
(* What the boot loader finds in the executable storage and in the update. *)

\* A word of a release.
IsWord(f, i) == f[i] \in Versions

\* Mutant: the words before the metadata are left out of the hash.
HashStartsLate(f, n) == \A i \in MagicAt .. n - 1 : f[i] = f[HashAt]

\* The words 0 .. n - 1 are those that the hash at HashAt was made of.
check_hash(f, n) == \A i \in 0 .. n - 1 : f[i] = f[HashAt]

\* The outcome of fd_boot_get_executable_metadata: it returns false on a
\* length that is no multiple of the hash block ("error"), which the length
\* of an erased word is not, and otherwise true with is_valid set or not.
get_executable_metadata(f) ==
  IF ~IsWord(f, MagicAt) \/ ~IsWord(f, HeaderVersionAt) THEN "invalid"
  ELSE IF ~IsWord(f, LengthAt) THEN "error"
  ELSE LET n == Length[f[LengthAt]]
           trailer == f[n - 1]
       IN IF /\ trailer \in Versions
             /\ Length[trailer] = n
             /\ check_hash(f, n)
          THEN "valid" ELSE "invalid"

\* The bytes before the executable in an unencrypted update: where the
\* packager leaves off, and what the boot loader skips, two packed structs.
PlainMetadataLength == 128
PlainHeaderLength == 8 + 76

\* The hash of an unencrypted executable is taken over the bytes after the
\* two structs, which are not those that the packager made it of.
plain_is_valid == PlainHeaderLength = PlainMetadataLength

\* The metadata, and then the executable, decrypt to what the update says
\* they are: it was encrypted with the key of this device.
encrypted_is_valid(u) == u.kind # "foreign"

\* The outcome of fd_boot_get_update_metadata.  A file shorter than its
\* metadata is an error; a file with a wrong magic, length, trailer or hash is
\* "damaged" and has an issue.
get_update_metadata(u) ==
  IF u.kind = "short" THEN "error"
  ELSE IF \/ u.kind = "plain" /\ plain_is_valid
          \/ u.kind \in {"encrypted", "foreign"} /\ encrypted_is_valid(u)
  THEN "valid" ELSE "invalid"

version_is_eq(a, b) == \A i \in 1 .. 3 : a[i] = b[i]

version_is_lt(a, b) ==
  \/ a[1] < b[1]
  \/ a[1] = b[1] /\ a[2] < b[2]
  \/ a[1] = b[1] /\ a[2] = b[2] /\ a[3] < b[3]

can_upgrade(e, u) == TRUE
can_downgrade(e, u) == FALSE
can_install(u) == TRUE

\* Mutants of get_action: patch levels alone are compared; an executable that
\* is not valid is left alone.
ComparesPatch(e, u) ==
  IF e = "valid"
  THEN IF u = "valid" /\ flash[VersionAt][3] < update.version[3]
       THEN "install" ELSE "run"
  ELSE IF u = "valid" THEN "install" ELSE "none"
NeverRepairs(e, u) ==
  IF e = "valid"
  THEN IF u = "valid" /\ version_is_lt(flash[VersionAt], update.version)
       THEN "install" ELSE "run"
  ELSE "none"

get_action(e, u) ==
  IF e = "valid" /\ u = "valid"
  THEN LET old == flash[VersionAt]
           new == update.version
       IN IF version_is_eq(new, old) THEN "run"
          ELSE IF \/ version_is_lt(old, new) /\ can_upgrade(old, new)
                  \/ ~version_is_lt(old, new) /\ can_downgrade(old, new)
          THEN "install" ELSE "run"
  ELSE IF e = "valid" THEN "run"
  ELSE IF u = "valid" /\ can_install(update.version) THEN "install" ELSE "none"

-----------------------------------------------------------------------------
(* main(), fd_boot_try_update and fd_boot_try_execute.                     *)

Fault(kind) == kind \in Faults /\ faults < MaxFaults /\ faults' = faults + 1

\* fd_boot_try_execute: it looks at the outcome and not at is_valid.
try_execute(otherwise) ==
  pc' = IF get_executable_metadata(flash) = "error" THEN otherwise ELSE "try_run"

\* The flash area of the file system cannot be opened: main() tries to
\* execute, and returns.
OpenFails ==
  /\ pc = "boot" /\ Fault("storage")
  /\ try_execute("halted")
  /\ UNCHANGED << flash, update, offset, next_erase >>

\* The file system does not mount, or BUTTON_1 is held: no update is tried.
MountFails ==
  /\ pc = "boot" /\ update.kind = "unformatted"
  /\ pc' = "format"
  /\ UNCHANGED << flash, update, offset, next_erase, faults >>

ButtonHeld ==
  /\ pc = "boot" /\ update.kind # "unformatted"
  /\ pc' = "format"
  /\ UNCHANGED << flash, update, offset, next_erase, faults >>

\* fd_boot_zephyr_update_storage_open finds no update.bin.
TryExecute ==
  /\ pc = "boot" /\ update.kind = "missing"
  /\ try_execute("format")
  /\ UNCHANGED << flash, update, offset, next_erase, faults >>

\* fd_boot_update, up to the install or to its return: false, or true with
\* the issue that there is no firmware, or true with is_valid set.
TryUpdate ==
  /\ pc = "boot" /\ update.kind \notin {"unformatted", "missing"}
  /\ LET e == get_executable_metadata(flash)
         u == get_update_metadata(update)
         action == get_action(e, u)
     IN \/ /\ "error" \in {e, u} \/ action = "none"
           /\ pc' = "failed"
        \/ /\ "error" \notin {e, u} /\ action \in {"run", "install"}
           /\ pc' = action
  /\ offset' = 0 /\ next_erase' = 0
  /\ UNCHANGED << flash, update, faults >>

\* A read of the update file fails within a check: the update fails.
CheckFails ==
  /\ pc = "boot" /\ update.kind \notin {"unformatted", "missing"}
  /\ Fault("storage")
  /\ pc' = "failed"
  /\ UNCHANGED << flash, update, offset, next_erase >>

-----------------------------------------------------------------------------
(* fd_boot_install and the flasher.                                        *)

InstallLength == Length[update.version]

PageAt(i) == i .. i + PageWords - 1

\* The flasher erases one page and says where the next erase is due.
ErasePages(n) ==
  /\ pc = "install" /\ offset < InstallLength /\ next_erase = offset
  /\ flash' = [i \in Words |-> IF i \in PageAt(offset) THEN Erased ELSE flash[i]]
  /\ next_erase' = offset + n * PageWords
  /\ UNCHANGED << update, pc, offset, faults >>

\* Mutant: the flasher reports a page too many as erased.
EraseSkipsPage == ErasePages(2)

Erase == ErasePages(1)

\* The flash can only clear bits: a word that is not erased is garbled.
Program(i, w) ==
  flash' = [flash EXCEPT ![i] = IF @ = Erased THEN w ELSE Garbled]

Write ==
  /\ pc = "install" /\ offset < InstallLength /\ next_erase # offset
  /\ Program(offset, update.version)
  /\ offset' = offset + 1
  /\ UNCHANGED << update, pc, next_erase, faults >>

\* The update file cannot be read, or the flash refuses: the install returns
\* with the flash half written.
InstallFails ==
  /\ pc = "install" /\ offset < InstallLength
  /\ Fault("storage")
  /\ pc' = "failed"
  /\ UNCHANGED << flash, update, offset, next_erase >>

\* The executable is checked again before it is run.
InstallDone ==
  /\ pc = "install" /\ offset = InstallLength
  /\ pc' = IF get_executable_metadata(flash) = "valid" THEN "run" ELSE "failed"
  /\ UNCHANGED << flash, update, offset, next_erase, faults >>

-----------------------------------------------------------------------------
(* After main() gave up: the file system is formatted and mounted as a     *)
(* USB disk, where a new update can be placed.                             *)

Format ==
  /\ pc \in {"failed", "format"}
  /\ update' = [update EXCEPT !.kind = "missing"]
  /\ pc' = "usb"
  /\ UNCHANGED << flash, offset, next_erase, faults >>

\* The format or the mount after it fails and main() returns.
FormatFails ==
  /\ pc \in {"failed", "format"}
  /\ Fault("storage")
  /\ update' = [update EXCEPT !.kind = "unformatted"]
  /\ pc' = "halted"
  /\ UNCHANGED << flash, offset, next_erase >>

\* A host copies a file to the USB disk.
UsbCopy ==
  /\ pc = "usb"
  /\ \E u \in Updates : u.kind # "unformatted" /\ update' = u
  /\ UNCHANGED << flash, pc, offset, next_erase, faults >>

Reset == pc' = "boot" /\ offset' = 0 /\ next_erase' = 0

\* The device is restarted while no flash is being written.
Restart ==
  /\ pc \in {"run", "try_run", "usb", "halted"}
  /\ Reset
  /\ UNCHANGED << flash, update, faults >>

\* The power fails between two writes of an install.
PowerFails ==
  /\ pc = "install" /\ Fault("power")
  /\ Reset
  /\ UNCHANGED << flash, update >>

\* The power fails while a page is erased: any of its words may be.
EraseTorn ==
  /\ pc = "install" /\ offset < InstallLength /\ next_erase = offset
  /\ Fault("erase")
  /\ \E torn \in SUBSET PageAt(offset) :
       flash' = [i \in Words |-> IF i \in torn THEN Erased ELSE flash[i]]
  /\ Reset
  /\ UNCHANGED update

\* The power fails while the file system is formatted.
FormatTorn ==
  /\ pc \in {"failed", "format"} /\ Fault("power")
  /\ update' = [update EXCEPT !.kind = "unformatted"]
  /\ Reset
  /\ UNCHANGED flash

-----------------------------------------------------------------------------

Image(v) == [i \in Words |-> IF i < Length[v] THEN v ELSE Erased]
EmptyFlash == [i \in Words |-> Erased]

\* A device fresh from the factory, or one with a release installed.
Init ==
  /\ flash \in {Image(v) : v \in Versions} \cup {EmptyFlash}
  /\ update \in Updates
  /\ pc = "boot" /\ offset = 0 /\ next_erase = 0 /\ faults = 0

Boot == OpenFails \/ MountFails \/ ButtonHeld \/ TryExecute \/ TryUpdate \/ CheckFails
Install == Erase \/ Write \/ InstallFails \/ InstallDone
Recover == Format \/ FormatFails
Environment == UsbCopy \/ Restart \/ PowerFails \/ EraseTorn \/ FormatTorn

Next == Boot \/ Install \/ Recover \/ Environment

Spec == Init /\ [][Next]_vars

\* The processor executes the boot loader until it waits or hands over.
FairSpec == Spec /\ WF_vars(Boot \/ Install \/ Recover)

-----------------------------------------------------------------------------
(* Properties.                                                             *)

\* The flash holds the whole of release v, whatever follows it.
Complete(f, v) == \A i \in 0 .. Length[v] - 1 : f[i] = v

\* Version a is newer than b: larger in the first place where they differ.
Newer(a, b) == \E i \in 1 .. 3 : a[i] > b[i] /\ \A j \in 1 .. i - 1 : a[j] = b[j]

\* An executable that fd_boot_update reports as valid is one whole release,
\* and no older than a good update in storage: no power loss, torn erase or
\* failed install leaves a mixture of releases that fd_boot_update runs.
RunsNewestWhole ==
  pc = "run" =>
    \E v \in Versions :
      /\ Complete(flash, v)
      /\ update.kind = "encrypted" => ~Newer(update.version, v)

\* The install erases every word before it programs it, whatever an earlier
\* install left behind and however long its image was.
NothingGarbled == \A i \in Words : flash[i] # Garbled

\* A whole executable is only destroyed when the update in storage is good
\* and newer: a failed check, an older or a damaged update costs no firmware.
\* An install that repairs a release may pass through a whole executable,
\* when the page still to be rewritten was intact.
KeepsWholeExecutable ==
  [][\A v \in Versions :
       Complete(flash, v) /\ ~Complete(flash', v) =>
         /\ update.kind = "encrypted"
         /\ \/ Newer(update.version, v)
            \/ update.version = v /\ offset > 0]_vars

\* The header of an image is there and the length after it is not.
HeaderWithoutLength ==
  /\ IsWord(flash, MagicAt) /\ IsWord(flash, HeaderVersionAt)
  /\ ~IsWord(flash, LengthAt)

\* With no further fault a restart with a good update in storage ends with a
\* whole executable running, however often and wherever earlier installs were
\* cut short, unless BUTTON_1 is held or the flash has a header without length.
InstallCompletes ==
  (pc = "boot" /\ update.kind = "encrypted" /\ faults = MaxFaults
     /\ ~HeaderWithoutLength)
    ~> (pc = "run" /\ \E v \in Versions : Complete(flash, v)) \/ pc = "format"

\* The boot loader gives up only if there is no good update: "Restart the boot
\* loader to install and run that update" (applications/boot/usb/README.md).
GoodUpdateInstalls == pc = "failed" => update.kind # "encrypted"
=============================================================================
