--------------------------- MODULE FirmwareFlash ---------------------------
(***************************************************************************)
(* Flashing ESP32 chips from a page.  A firmware has static parts, the     *)
(* bootloader and the partitions, and an application.  The page remembers  *)
(* by MAC address which chip got which static parts, and then writes the   *)
(* application only; a chip that is wrongly remembered does not boot.      *)
(***************************************************************************)
EXTENDS Integers

CONSTANTS
  Chips,
  Statics,     \* static parts of a firmware, by their fingerprint
  Apps,        \* applications
  Damaged,     \* what an erased or half-written region holds
  MaxFlashed   \* bound: flashes that are started

ASSUME FlashConstants ==
  /\ Chips # {} /\ Statics # {} /\ Apps # {}
  /\ Damaged \notin Statics \cup Apps
  /\ MaxFlashed \in Nat

VARIABLES
  flashed,    \* flashedDevices: the fingerprint by chip, or Damaged
  flasher,    \* idle, connect, erase, statics, app, record, reset or done
  task,       \* the chip at the port, what it is to hold, and eraseAll; any
              \* before the first flash
  device,     \* deviceId: could the MAC address be read?
  bootable,   \* the static parts a chip holds
  program,    \* the application it holds
  outdated,   \* chips remembered for parts they lost to a flash that
              \* could not read their address; the code has no such variable
  flashes     \* flashes so far

flasherVars == <<flashed, flasher, task, device, bootable, program, outdated, flashes>>

FlashTasks == [chip : Chips, statics : Statics, app : Apps, eraseAll : BOOLEAN]

\* What the chips hold is not known, and the page remembers none.
FlasherInit ==
  /\ flashed = [c \in Chips |-> Damaged]
  /\ flasher = "idle"
  /\ task = CHOOSE t \in FlashTasks : TRUE
  /\ device = FALSE
  /\ bootable = [c \in Chips |-> Damaged] /\ program = [c \in Chips |-> Damaged]
  /\ outdated = {}
  /\ flashes = 0

\* flash(): the user connects a chip and picks its port.
FlashStarts(t) ==
  /\ flasher \in {"idle", "done"} /\ flashes < MaxFlashed
  /\ task' = t
  /\ flasher' = "connect"
  /\ flashes' = flashes + 1
  /\ UNCHANGED <<flashed, device, bootable, program, outdated>>

\* alreadyFlashed
Skips(known) == ~task.eraseAll /\ known /\ flashed[task.chip] = task.statics

\* The chip answers; its MAC address may not be read.  What is to be written
\* is decided here.
Connected ==
  /\ flasher = "connect"
  /\ device' \in BOOLEAN
  /\ flasher' = IF task.eraseAll THEN "erase" ELSE IF Skips(device') THEN "app" ELSE "statics"
  /\ UNCHANGED <<flashed, task, bootable, program, outdated, flashes>>

\* writeFlash: erase everything, then each part in turn.
Erased ==
  /\ flasher = "erase"
  /\ bootable' = [bootable EXCEPT ![task.chip] = Damaged]
  /\ program' = [program EXCEPT ![task.chip] = Damaged]
  /\ flasher' = "statics"
  /\ UNCHANGED <<flashed, task, device, outdated, flashes>>

StaticsWritten ==
  /\ flasher = "statics"
  /\ outdated' = IF device \/ flashed[task.chip] \in {Damaged, task.statics}
                 THEN outdated \ {task.chip} ELSE outdated \cup {task.chip}
  /\ bootable' = [bootable EXCEPT ![task.chip] = task.statics]
  /\ flasher' = "app"
  /\ UNCHANGED <<flashed, task, device, program, flashes>>

AppWritten ==
  /\ flasher = "app"
  /\ program' = [program EXCEPT ![task.chip] = task.app]
  /\ flasher' = "record"
  /\ UNCHANGED <<flashed, task, device, bootable, outdated, flashes>>

Recorded ==
  /\ flasher = "record"
  /\ flashed' = IF device THEN [flashed EXCEPT ![task.chip] = task.statics] ELSE flashed
  /\ flasher' = "reset"
  /\ UNCHANGED <<task, device, bootable, program, outdated, flashes>>

\* The chip runs, and the user is told that the flash is complete.
ResetToRun ==
  /\ flasher = "reset"
  /\ flasher' = "done"
  /\ UNCHANGED <<flashed, task, device, bootable, program, outdated, flashes>>

\* forgetFlashedDevices, when anything has failed.
Remembered_All == flashed
Remembered == [c \in Chips |-> Damaged]

\* A cable is pulled, an artifact cannot be fetched, a write is not confirmed:
\* the region that was being written may hold anything.
FlashFails ==
  /\ flasher \in {"connect", "erase", "statics", "app", "record", "reset"}
  /\ flasher' = "idle"
  /\ flashed' = Remembered /\ outdated' = {}
  /\ bootable' = IF flasher \in {"erase", "statics"}
                 THEN [bootable EXCEPT ![task.chip] = Damaged] ELSE bootable
  /\ program' = IF flasher \in {"erase", "app"}
                THEN [program EXCEPT ![task.chip] = Damaged] ELSE program
  /\ UNCHANGED <<task, device, flashes>>

\* The page is loaded again and knows no chip.  When it was writing, the
\* flash fails first.
PageReloaded ==
  /\ flasher \in {"idle", "done"}
  /\ flashed' = [c \in Chips |-> Damaged]
  /\ flasher' = "idle" /\ outdated' = {}
  /\ UNCHANGED <<task, device, bootable, program, flashes>>

FlasherNext ==
  \/ \E t \in FlashTasks : FlashStarts(t)
  \/ Connected \/ Erased \/ StaticsWritten \/ AppWritten \/ Recorded \/ ResetToRun
  \/ FlashFails \/ PageReloaded

FlasherSpec == FlasherInit /\ [][FlasherNext]_flasherVars

(***************************************************************************)
(* Properties.                                                             *)
(***************************************************************************)
Regions == Statics \cup Apps \cup {Damaged}

FlasherTypeOK ==
  /\ flashed \in [Chips -> Statics \cup {Damaged}]
  /\ flasher \in {"idle", "connect", "erase", "statics", "app", "record", "reset", "done"}
  /\ task \in FlashTasks /\ device \in BOOLEAN
  /\ bootable \in [Chips -> Statics \cup {Damaged}]
  /\ program \in [Chips -> Apps \cup {Damaged}]
  /\ outdated \subseteq Chips
  /\ flashes \in 0 .. MaxFlashed

\* A chip whose flash is reported complete holds all of the firmware, though
\* its static parts may have been skipped, and whatever earlier flashes of it
\* and of others were broken off by.  A chip that got other static parts from a
\* flash that could not read its address is excepted: the page does not forget
\* what it remembered of it, and skips the parts when they are wanted again.
CompleteBoots ==
  flasher = "done" =>
    /\ program[task.chip] = task.app
    /\ bootable[task.chip] = task.statics \/ (task.chip \in outdated /\ device)
=============================================================================
