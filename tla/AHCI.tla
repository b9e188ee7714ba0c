-------------------------------- MODULE AHCI --------------------------------
(***************************************************************************)
(* The AHCI driver (drivers/ahci.cpp) and the controller it talks to.  The *)
(* driver probes the ports, then for each drive: stops the port's engines, *)
(* gives them new memory, starts them, and reads the first sectors.  The   *)
(* controller answers at its own pace: an engine follows its enable bit    *)
(* late, a drive is busy, completes a command or reports an error.         *)
(*                                                                         *)
(* A port's registers are the bits the driver looks at.  Of the 32 command *)
(* slots that Configure prepares Read uses the first, so the others are    *)
(* left out, and so is what the sectors hold.                              *)
(*                                                                         *)
(* Nothing says that the registers are volatile, so that a build need not  *)
(* read one again in a loop, nor keep a loop that does nothing else: build *)
(* is what it does of that.                                                *)
(***************************************************************************)
EXTENDS Integers, FiniteSets, Functions

CONSTANTS
    MaxPort,     \* 31, the last port
    PortLimit,   \* 32, the length of AHCIDriver::ports
    PortsMapped, \* 30: the ports on the one page mapped for the registers
    MaxSpin,     \* 1000000
    AnyCount     \* what portCount, which nothing initialises, may start with

ASSUME AHCIAssumption ==
    /\ MaxPort \in Nat /\ PortsMapped \in Nat
    /\ PortLimit \in Nat /\ MaxPort < PortLimit /\ PortLimit < 256
    /\ MaxSpin \in Nat \ {0} /\ AnyCount \subseteq 0..255

VARIABLES
    \* the controller
    implemented,  \* ports whose bit is set in portsImplemented
    drives,       \* ports with an ATA or ATAPI drive that is awake
    ST, FRE,      \* ports with the enable bits of cmdSts set
    CR, FR,       \* ports whose engines run
    busy,         \* ports with BUSY or DRQ in taskFileData
    CI,           \* ports with a command issued
    TFES,         \* ports with the error bit of interruptStatus set
    based,        \* ports that use the driver's memory, not the firmware's
    delivered,    \* ports whose drive has filled the buffer
    \* the driver
    pc,
    i,            \* loop counter
    ports,        \* what was stored in AHCIDriver::ports
    portCount,
    spin,
    answer,       \* what Read returned, by port
    build         \* "rereads" registers, "looksOnce", or "leavesOut" empty loops, too

controller == <<implemented, drives, ST, FRE, CR, FR, busy, CI, TFES, based, delivered>>
driver     == <<pc, i, ports, portCount, spin, answer, build>>
vars       == <<controller, driver>>

PortSet == 0..MaxPort

\* Table f with x stored at a.
With(f, a, x) == [b \in DOMAIN f \union {a} |-> IF b = a THEN x ELSE f[b]]

\* The firmware may have left each engine enabled or not, running or not, drives
\* busy, errors, and commands where ST is set.  Of drives only those count whose
\* registers can be reached.
Init == /\ implemented \in SUBSET PortSet
        /\ drives \in SUBSET {p \in implemented : p < PortsMapped}
        /\ ST \in SUBSET drives /\ FRE \in SUBSET drives
        /\ CR \in SUBSET drives /\ FR \in SUBSET drives
        /\ busy \in SUBSET drives /\ TFES \in SUBSET drives /\ CI \in SUBSET ST
        /\ based = {} /\ delivered = {}
        /\ pc = "probe" /\ i = 0 /\ ports = <<>> /\ portCount \in AnyCount
        /\ spin = 0 /\ answer = <<>>
        /\ build \in {"rereads", "looksOnce", "leavesOut"}
-----------------------------------------------------------------------------
(* The driver *)

\* Mutant of AddPort: the counter stays.
AddPortOver ==
    IF portCount >= PortLimit
    THEN pc' = "wild" /\ UNCHANGED <<ports, portCount>>
    ELSE /\ ports' = With(ports, portCount, i)
         /\ UNCHANGED <<portCount, pc>>

\* A drive found goes to the end of the array, or behind it.
AddPort ==
    IF portCount >= PortLimit
    THEN pc' = "wild" /\ UNCHANGED <<ports, portCount>>
    ELSE /\ ports' = With(ports, portCount, i) /\ portCount' = (portCount + 1) % 256
         /\ UNCHANGED pc

\* One round of the loop: the registers of the last ports are not mapped.
ProbePorts ==
    /\ pc = "probe" /\ i <= MaxPort /\ i' = i + 1
    /\ IF i \notin implemented THEN UNCHANGED <<pc, ports, portCount>>
       ELSE IF i >= PortsMapped THEN pc' = "fault" /\ UNCHANGED <<ports, portCount>>
       ELSE IF i \in drives THEN AddPort
       ELSE UNCHANGED <<pc, ports, portCount>>
    /\ UNCHANGED <<controller, spin, answer, build>>

Probed == /\ pc = "probe" /\ i > MaxPort
          /\ pc' = "next" /\ i' = 0
          /\ UNCHANGED <<controller, ports, portCount, spin, answer, build>>

port == ports[i]

More == i < portCount

\* The driver goes on and changes nothing else.
Goto(place) == /\ pc' = place
               /\ UNCHANGED <<controller, i, ports, portCount, spin, answer, build>>

\* An entry of the array that was never stored is followed all the same.
FollowGap == pc = "next" /\ More /\ i \notin DOMAIN ports /\ Goto("wild")

AtDrive == pc = "next" /\ More /\ i \in DOMAIN ports

\* Clearing ST takes back what was issued.
ClearEnableBits ==
    /\ ST' = ST \ {port} /\ FRE' = FRE \ {port} /\ CI' = CI \ {port}
    /\ UNCHANGED <<implemented, drives, CR, FR, busy, TFES, based, delivered,
                   i, ports, portCount, spin, answer, build>>

\* Configure begins with stopCmd, which clears both enable bits and waits for
\* the engines, if the build has not left that out.
stopCmd == /\ AtDrive /\ build # "looksOnce" /\ ClearEnableBits
           /\ pc' = IF build = "rereads" THEN "stopping" ELSE "stopped"

\* In a build that looks once, the value that was read to clear the bits says
\* for ever after whether the engines run: the loop ends at once or never.
LookBefore == /\ AtDrive /\ build = "looksOnce"
              /\ Goto(IF port \in CR \union FR THEN "hung" ELSE "clearing")

stopCmdOnce == pc = "clearing" /\ ClearEnableBits /\ pc' = "stopped"

\* Mutant of LookAtFR: the receive engine is not waited for.
LookAtFRNot == pc = "stopping" /\ Goto("listing")

\* The loop of stopCmd reads the register once for each engine: first for the
\* receive engine, until it has stopped,
LookAtFR == pc = "stopping" /\ port \notin FR /\ Goto("listing")

\* then for the command engine; if that runs, the loop begins again.
LookAtCR == pc = "listing" /\ Goto(IF port \in CR THEN "stopping" ELSE "stopped")

\* The port gets new memory, for commands and for what is received.
Configure == /\ pc = "stopped"
             /\ based' = based \union {port} /\ pc' = "starting"
             /\ UNCHANGED <<implemented, drives, ST, FRE, CR, FR, busy, CI, TFES, delivered,
                            i, ports, portCount, spin, answer, build>>

\* Waiting for the command engine, before it is started.
MayStart == port \notin CR \/ build = "leavesOut"

\* Mutant of startCmd: the receive engine is not enabled.
startCmdHalf == /\ pc = "starting" /\ MayStart
                /\ ST' = ST \union {port} /\ UNCHANGED FRE
                /\ pc' = "reading" /\ spin' = 0
                /\ UNCHANGED <<implemented, drives, CR, FR, busy, CI, TFES, based, delivered,
                               i, ports, portCount, answer, build>>

startCmd == /\ pc = "starting" /\ MayStart
            /\ ST' = ST \union {port} /\ FRE' = FRE \union {port}
            /\ pc' = "reading" /\ spin' = 0
            /\ UNCHANGED <<implemented, drives, CR, FR, busy, CI, TFES, based, delivered,
                           i, ports, portCount, answer, build>>

startCmdHangs == /\ pc = "starting" /\ port \in CR /\ build = "looksOnce"
                 /\ Goto("hung")

Patient == spin < MaxSpin

Spin == /\ pc = "reading" /\ port \in busy /\ Patient /\ build = "rereads"
        /\ spin' = spin + 1
        /\ UNCHANGED <<controller, pc, i, ports, portCount, answer, build>>

\* Read, without waiting any longer: errors of the past are cleared, the
\* command is built and issued.
Issue == /\ pc = "reading" /\ port \notin busy /\ Patient
         /\ TFES' = TFES \ {port} /\ CI' = CI \union {port} /\ pc' = "waiting"
         /\ UNCHANGED <<implemented, drives, ST, FRE, CR, FR, busy, based, delivered,
                        i, ports, portCount, spin, answer, build>>

\* Read returns, and the constructor goes on whatever the answer.
Return(result) == /\ answer' = With(answer, port, result)
                  /\ pc' = "next" /\ i' = i + 1
                  /\ UNCHANGED <<controller, ports, portCount, spin, build>>

\* After the last look, which may be the first.
GiveUp == /\ pc = "reading"
          /\ ~Patient \/ (port \in busy /\ build # "rereads")
          /\ Return(FALSE)

\* Mutant of Completed: no error means success.
CompletedOrNoError == port \notin CI \/ port \notin TFES

Completed == port \notin CI

\* Mutant of Failed: errors are not looked at.
FailedNever == FALSE

Failed == port \in CI /\ port \in TFES

Read == /\ pc = "waiting" /\ build = "rereads"
        /\ (Completed /\ Return(TRUE)) \/ (Failed /\ Return(FALSE))

\* A build that does not read again knows that it has just issued the command,
\* and whether there is an error from one look.
ReadOnce == /\ pc = "waiting" /\ build # "rereads"
            /\ IF port \in TFES THEN Return(FALSE) ELSE Goto("hung")

Done == pc = "next" /\ ~More /\ Goto("done")

\* Every action of the constructor.
Driver == \/ ProbePorts \/ Probed
          \/ FollowGap \/ stopCmd \/ LookAtFR \/ LookAtCR \/ LookBefore \/ stopCmdOnce
          \/ Configure \/ startCmd \/ startCmdHangs
          \/ Spin \/ Issue \/ GiveUp \/ Read \/ ReadOnce \/ Done
-----------------------------------------------------------------------------
(* The controller and the drives *)

\* The command engine follows its enable bit.
Engine(p) == /\ (p \in ST) # (p \in CR)
             /\ CR' = IF p \in ST THEN CR \union {p} ELSE CR \ {p}
             /\ UNCHANGED <<implemented, drives, ST, FRE, FR, busy, CI, TFES, based,
                            delivered, driver>>

\* So does the receive engine.
Receiver(p) == /\ (p \in FRE) # (p \in FR)
               /\ FR' = IF p \in FRE THEN FR \union {p} ELSE FR \ {p}
               /\ UNCHANGED <<implemented, drives, ST, FRE, CR, busy, CI, TFES, based,
                              delivered, driver>>

Ready(p) == /\ p \in busy /\ busy' = busy \ {p}
            /\ UNCHANGED <<implemented, drives, ST, FRE, CR, FR, CI, TFES, based,
                           delivered, driver>>

\* The data of a command of the firmware's goes to the firmware's memory.
Complete(p) == /\ p \in CI \ TFES /\ p \in CR \intersect FR
               /\ CI' = CI \ {p} /\ delivered' = delivered \union ({p} \intersect based)
               /\ UNCHANGED <<implemented, drives, ST, FRE, CR, FR, busy, TFES, based, driver>>

Error(p) == /\ p \in CI \ TFES /\ p \in CR \intersect FR
            /\ TFES' = TFES \union {p}
            /\ UNCHANGED <<implemented, drives, ST, FRE, CR, FR, busy, CI, based,
                           delivered, driver>>

Controller(p) == Engine(p) \/ Receiver(p) \/ Ready(p) \/ Complete(p) \/ Error(p)

Stops == pc \in {"done", "wild", "fault", "hung"} /\ UNCHANGED vars

Next == Driver \/ (\E p \in PortSet : Controller(p)) \/ Stops

\* The kernel waits for nothing else while it boots; engines follow their
\* enable bits, and a drive answers a command, with data or with an error.  A
\* drive may stay busy for ever.
Fairness == /\ WF_vars(Driver)
            /\ \A p \in PortSet : /\ WF_vars(Engine(p)) /\ WF_vars(Receiver(p))
                                  /\ WF_vars(Complete(p) \/ Error(p))

Spec == Init /\ [][Next]_vars /\ Fairness
-----------------------------------------------------------------------------
(* Properties *)

\* Every variable has its type: engines run, commands are issued and errors are
\* raised only at ports with a drive, and the table of ports is filled within its
\* 32 places.
TypeOK == /\ drives \subseteq implemented /\ implemented \subseteq PortSet
          /\ ST \union FRE \union CR \union FR \union busy \union TFES \subseteq drives
          /\ CI \subseteq drives /\ based \subseteq drives /\ delivered \subseteq drives
          /\ pc \in {"probe", "next", "clearing", "stopping", "listing", "stopped",
                     "starting", "reading", "waiting", "done", "wild", "fault", "hung"}
          /\ i \in Nat /\ portCount \in 0..255 /\ spin \in 0..MaxSpin
          /\ DOMAIN ports \subseteq 0..(PortLimit - 1) /\ Range(ports) \subseteq drives
          /\ Range(answer) \subseteq BOOLEAN
          /\ build \in {"rereads", "looksOnce", "leavesOut"}

\* Whatever the firmware has left, the memory of a port is never exchanged under
\* a running engine, although the driver has looked at one engine after the
\* other, some time before: if the build reads the register each time, as the
\* loops are written.
MemoryMovesIdle ==
    [][build = "rereads" => \A p \in based' \ based : p \notin CR /\ p \notin FR]_vars

\* The driver issues a command only to a port that has its new memory and both
\* engines enabled, so that the drive can answer; and none of the firmware's is
\* left when a port gets new memory.
IssuedToEnabled == /\ CI \intersect based \subseteq ST \intersect FRE
                   /\ pc = "waiting" => port \in based

\* Read says true exactly when the drive has filled the buffer.
TruthfulAnswer == \A p \in DOMAIN answer : answer[p] = (p \in delivered)

\* When portCount happens to start with 0, every drive is configured and read
\* once, whatever other ports are implemented.
EveryDriveRead ==
    pc = "done" => /\ Range(ports) = drives /\ DOMAIN answer = drives
                   /\ portCount = Cardinality(drives)

\* A pointer that was never stored is followed only because portCount was not 0
\* at first, a register that is not mapped read only on ports behind the page,
\* and a loop ends never only if its register is not read again.
StopExplained == /\ pc = "wild" => portCount > Cardinality(Range(ports))
                 /\ pc = "fault" => \E p \in implemented : p >= PortsMapped
                 /\ pc = "hung" => build # "rereads"

\* What the driver asks of a port and follows in memory has reason and place.
DriverInv == TypeOK /\ IssuedToEnabled /\ StopExplained

\* Booting goes on: if the build reads registers each time, a failed command, a
\* drive that stays busy and a slow engine hold it up for a while only.
\* (portCount has to start with 0, and no port may lie behind the page.)
BootGoesOn ==
    /\ build = "rereads"
    /\ portCount = 0 /\ \A p \in implemented : p < PortsMapped
    => <>(pc = "done")
=============================================================================
