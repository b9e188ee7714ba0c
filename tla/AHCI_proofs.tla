----------------------------- MODULE AHCI_proofs -----------------------------
(***************************************************************************)
(* Proofs about AHCI, for any number of ports and drives, any patience and *)
(* whatever portCount starts with.                                         *)
(***************************************************************************)
EXTENDS AHCI, FiniteSetTheorems, TLAPS

\* The places in which the driver is at work on one port.
AtPort == {"clearing", "stopping", "listing", "stopped", "starting", "reading", "waiting",
           "hung"}

\* What has been done with the port by the time the driver is at a place.
PortReady ==
    /\ pc \in AtPort => i \in DOMAIN ports
    /\ pc = "clearing" => build # "rereads"
    /\ pc \in {"stopping", "listing", "stopped", "starting"} =>
           port \notin ST \union FRE \union CI
    /\ pc \in {"listing", "stopped", "starting"} /\ build = "rereads" => port \notin FR
    /\ pc \in {"stopped", "starting"} /\ build = "rereads" => port \notin CR
    /\ pc \in {"starting", "reading", "waiting"} => port \in based
    /\ pc \in {"reading", "waiting"} => port \in ST \intersect FRE

\* The table of ports is filled from some place on without a gap, with each drive
\* found so far once.
TableFilled ==
    /\ \E c \in 0..255 : c <= portCount /\ DOMAIN ports = c..(portCount - 1)
    /\ \A k, l \in DOMAIN ports : ports[k] = ports[l] => k = l
    /\ pc = "probe" => Range(ports) = {p \in drives : p < i}
    /\ pc \notin {"probe", "wild", "fault"} => Range(ports) = drives

\* The constructor goes through the table from its beginning.
TableRead ==
    /\ pc \in AtPort \union {"next", "done"} => 0..(i - 1) \subseteq DOMAIN ports
    /\ pc = "done" => i = portCount

\* The ports in front of i are those that Read has answered for.
Answered == IF pc = "probe" THEN {} ELSE {ports[k] : k \in {l \in DOMAIN ports : l < i}}
AnsweredInOrder == pc \notin {"wild", "fault"} => DOMAIN answer = Answered

\* A command of the driver's is under way at the port at hand only, or has failed
\* before; a drive has delivered to a port that was answered for, or is at hand.
\* Ports without new memory may have commands of the firmware's.
CommandsKnown ==
    /\ \A p \in CI : \/ p \notin based
                     \/ pc \in {"waiting", "hung"} /\ p = port
                     \/ p \in DOMAIN answer /\ p \in TFES
    /\ \A p \in delivered : \/ pc \in {"waiting", "hung"} /\ p = port
                            \/ p \in DOMAIN answer
    /\ DOMAIN answer \subseteq based
    /\ pc = "waiting" => port \in CI \union delivered
    /\ pc = "waiting" /\ port \in delivered => port \notin TFES
    /\ CI \intersect delivered = {}

Commands == CommandsKnown /\ IssuedToEnabled /\ TruthfulAnswer
Table    == TableFilled /\ TableRead /\ AnsweredInOrder /\ StopExplained
IInv     == TypeOK /\ PortReady /\ Table /\ Commands
-----------------------------------------------------------------------------
LEMMA InitIInv == Init => IInv
<1> SUFFICES ASSUME Init PROVE IInv
  OBVIOUS
<1> USE AHCIAssumption
<1>1. TypeOK
  BY DEF Init, TypeOK, PortSet, Range
<1>2. PortReady /\ Commands
  BY DEF Init, PortReady, AtPort, Commands, CommandsKnown, IssuedToEnabled, TruthfulAnswer
<1>3. TableFilled
  <2>1. portCount \in 0..255 /\ DOMAIN ports = portCount..(portCount - 1) /\ Range(ports) = {}
    <3>1. portCount \in 0..255 /\ DOMAIN ports = {}
      BY DEF Init
    <3>2. portCount..(portCount - 1) = {}
      BY <3>1
    <3>3. Range(ports) = {}
      BY <3>1, Zenon DEF Range
    <3> QED
      BY <3>1, <3>2, <3>3
  <2>2. pc = "probe" /\ i = 0 /\ drives \subseteq PortSet
    BY DEF Init
  <2>3. \E c \in 0..255 : c <= portCount /\ DOMAIN ports = c..(portCount - 1)
    <3> portCount \in 0..255
      BY <2>1
    <3> WITNESS portCount \in 0..255
    <3> QED
      BY <2>1
  <2>4. \A k \in DOMAIN ports : FALSE
    BY <2>1
  <2>5. Range(ports) = {p \in drives : p < i}
    <3>1. \A p \in drives : ~(p < i)
      BY <2>2 DEF PortSet
    <3> QED
      BY <2>1, <3>1
  <2> QED
    BY <2>2, <2>3, <2>4, <2>5 DEF TableFilled
<1>4. TableRead /\ AnsweredInOrder /\ StopExplained
  BY DEF Init, TableRead, AtPort, AnsweredInOrder, Answered, StopExplained
<1> QED
  BY <1>1, <1>2, <1>3, <1>4 DEF IInv, Table

\* One entry stored in a table.
LEMMA WithRange ==
    ASSUME NEW f, NEW a, NEW x, a \notin DOMAIN f
    PROVE  /\ DOMAIN With(f, a, x) = DOMAIN f \union {a}
           /\ With(f, a, x)[a] = x
           /\ \A b \in DOMAIN f : With(f, a, x)[b] = f[b]
           /\ Range(With(f, a, x)) = Range(f) \union {x}
<1>1. /\ DOMAIN With(f, a, x) = DOMAIN f \union {a}
      /\ With(f, a, x)[a] = x
      /\ \A b \in DOMAIN f : With(f, a, x)[b] = f[b]
  BY DEF With
<1> QED
  BY <1>1 DEF Range

\* A table has as many drives as places, if none is in it twice.
LEMMA TableSize ==
    ASSUME TypeOK, TableFilled, NEW c \in 0..255, c <= portCount,
           DOMAIN ports = c..(portCount - 1)
    PROVE  /\ IsFiniteSet(Range(ports))
           /\ Cardinality(Range(ports)) = portCount - c
<1> DEFINE f == [k \in DOMAIN ports |-> ports[k]]
<1>1. f \in Surjection(DOMAIN ports, Range(ports)) /\ f \in Injection(DOMAIN ports, Range(ports))
  BY DEF Surjection, Injection, IsInjective, Range, TableFilled
<1>2. IsFiniteSet(DOMAIN ports) /\ Cardinality(DOMAIN ports) = portCount - c
  <2>1. portCount \in 0..255
    BY DEF TypeOK
  <2>2. /\ IsFiniteSet(c..(portCount - 1))
        /\ Cardinality(c..(portCount - 1)) =
               IF c > portCount - 1 THEN 0 ELSE (portCount - 1) - c + 1
    BY <2>1, FS_Interval
  <2> QED
    BY <2>1, <2>2
<1> HIDE DEF f
<1> QED
  BY <1>1, <1>2, FS_Surjection
-----------------------------------------------------------------------------
(* The driver *)

LEMMA ProbeKeeps == ASSUME IInv, ProbePorts PROVE IInv'
<1> USE AHCIAssumption DEF PortSet
<1>1. /\ pc = "probe" /\ i \in 0..MaxPort /\ i' = i + 1
      /\ UNCHANGED <<controller, spin, answer, build>>
  BY DEF ProbePorts, IInv, TypeOK
<1>2. PICK c \in 0..255 : c <= portCount /\ DOMAIN ports = c..(portCount - 1)
  BY DEF IInv, Table, TableFilled
<1>3. /\ portCount \in 0..255 /\ Range(ports) = {p \in drives : p < i}
      /\ drives \subseteq implemented /\ implemented \subseteq 0..MaxPort
  BY <1>1 DEF IInv, TypeOK, Table, TableFilled
<1>4. Commands' /\ PortReady'
  <2>1. pc' \in {"probe", "wild", "fault"}
    BY <1>1 DEF ProbePorts, AddPort
  <2> QED
    BY <1>1, <2>1 DEF IInv, Commands, CommandsKnown, IssuedToEnabled, TruthfulAnswer, Table,
                      AnsweredInOrder, Answered, PortReady, AtPort, controller
<1>5. CASE pc' = "wild"
  <2>1. portCount >= PortLimit /\ UNCHANGED <<ports, portCount>> /\ i \in implemented
    BY <1>1, <1>5 DEF ProbePorts, AddPort
  <2>2. Cardinality(Range(ports)) <= i
    <3>1. Range(ports) \subseteq 0..(i - 1)
      <4> SUFFICES ASSUME NEW p, p \in Range(ports) PROVE p \in 0..(i - 1)
        OBVIOUS
      <4>1. p \in drives /\ p < i
        BY <1>3
      <4> QED
        BY <1>1, <1>3, <4>1
    <3>2. IsFiniteSet(0..(i - 1)) /\ Cardinality(0..(i - 1)) <= i
      <4>1. 0 \in Int /\ i - 1 \in Int /\ (IF 0 > i - 1 THEN 0 ELSE i - 1 - 0 + 1) = i
        BY <1>1
      <4>2. IsFiniteSet(0..(i - 1)) /\ Cardinality(0..(i - 1)) = IF 0 > i - 1 THEN 0 ELSE i - 1 - 0 + 1
        BY <4>1, FS_Interval
      <4> QED
        BY <1>1, <4>1, <4>2
    <3>3. Cardinality(Range(ports)) <= Cardinality(0..(i - 1))
      BY <3>1, <3>2, FS_Subset
    <3>4. Cardinality(Range(ports)) \in Nat /\ Cardinality(0..(i - 1)) \in Nat
      BY <3>1, <3>2, FS_Subset, FS_CardinalityType
    <3> QED
      BY <1>1, <3>2, <3>3, <3>4
  <2>3. TypeOK'
    BY <1>1, <1>5, <2>1 DEF IInv, TypeOK, controller
  <2>4. StopExplained'
    <3>1. Cardinality(Range(ports)) = portCount - c
      BY <1>2, TableSize DEF IInv, Table
    <3>2. portCount > Cardinality(Range(ports))
      BY <1>1, <1>2, <1>3, <2>1, <2>2, <3>1
    <3> QED
      BY <1>5, <2>1, <3>2 DEF StopExplained
  <2>5. TableFilled' /\ TableRead' /\ AnsweredInOrder'
    BY <1>2, <1>5, <2>1 DEF IInv, Table, TableFilled, TableRead, AtPort, AnsweredInOrder
  <2> QED
    BY <1>4, <2>3, <2>4, <2>5 DEF IInv, Table
<1>6. CASE pc' = "fault"
  <2>1. UNCHANGED <<ports, portCount>> /\ i \in implemented /\ i >= PortsMapped
    BY <1>1, <1>6 DEF ProbePorts, AddPort
  <2>2. TypeOK'
    BY <1>1, <1>6, <2>1 DEF IInv, TypeOK, controller
  <2>3. Table'
    BY <1>1, <1>2, <1>6, <2>1 DEF IInv, Table, TableFilled, TableRead, AtPort,
                                  AnsweredInOrder, StopExplained, controller
  <2> QED
    BY <1>4, <2>2, <2>3 DEF IInv
<1>7. CASE pc' = "probe" /\ UNCHANGED <<ports, portCount>> /\ i \notin drives
  <2>1. TypeOK'
    BY <1>1, <1>7 DEF IInv, TypeOK, controller
  <2>2. {p \in drives : p < i} = {p \in drives : p < i + 1}
    <3>1. \A p \in drives : p < i <=> p < i + 1
      BY <1>1, <1>3, <1>7
    <3> QED
      BY <3>1, Zenon
  <2>3. TableFilled'
    <3>1. Range(ports) = {p \in drives : p < i + 1}
      BY <1>3, <2>2
    <3>2. \A k, l \in DOMAIN ports : ports[k] = ports[l] => k = l
      BY DEF IInv, Table, TableFilled
    <3> QED
      BY <1>1, <1>2, <1>7, <3>1, <3>2 DEF TableFilled, controller
  <2>4. TableRead' /\ AnsweredInOrder' /\ StopExplained'
    BY <1>1, <1>7 DEF IInv, Table, TableRead, AtPort, AnsweredInOrder, Answered, StopExplained
  <2> QED
    BY <1>4, <2>1, <2>3, <2>4 DEF IInv, Table
<1>8. CASE pc' = "probe" /\ i \in drives
  <2>1. portCount < PortLimit /\ ports' = With(ports, portCount, i) /\ portCount' = portCount + 1
    <3>1. /\ portCount < PortLimit /\ ports' = With(ports, portCount, i)
          /\ portCount' = (portCount + 1) % 256
      BY <1>1, <1>3, <1>8 DEF ProbePorts, AddPort
    <3>2. PICK m \in 0..255 : m = portCount + 1
      BY <1>3, <3>1
    <3>3. m % 256 = m
      OBVIOUS
    <3> QED
      BY <3>1, <3>2, <3>3
  <2>2. portCount \notin DOMAIN ports
    BY <1>2, <1>3
  <2>3. /\ DOMAIN ports' = DOMAIN ports \union {portCount}
        /\ ports'[portCount] = i /\ \A k \in DOMAIN ports : ports'[k] = ports[k]
        /\ Range(ports') = Range(ports) \union {i}
    BY <2>1, <2>2, WithRange
  <2>4. TypeOK'
    <3>1. /\ drives \subseteq implemented /\ implemented \subseteq PortSet
          /\ ST \union FRE \union CR \union FR \union busy \union TFES \subseteq drives
          /\ CI \subseteq drives /\ based \subseteq drives /\ delivered \subseteq drives
          /\ Range(answer) \subseteq BOOLEAN
          /\ build \in {"rereads", "looksOnce", "leavesOut"}
      BY DEF IInv, TypeOK
    <3>2. i' \in Nat /\ portCount' \in 0..255 /\ spin' \in 0..MaxSpin
      <4>1. spin \in 0..MaxSpin /\ PortLimit \in Nat
        BY AHCIAssumption DEF IInv, TypeOK
      <4> QED
        BY <1>1, <1>3, <2>1, <4>1
    <3>3. DOMAIN ports' \subseteq 0..(PortLimit - 1) /\ Range(ports') \subseteq drives
      <4>1. DOMAIN ports \subseteq 0..(PortLimit - 1) /\ Range(ports) \subseteq drives
        BY DEF IInv, TypeOK
      <4> QED
        BY <1>3, <1>8, <2>1, <2>3, <4>1, AHCIAssumption
    <3> QED
      BY <1>1, <1>8, <3>1, <3>2, <3>3 DEF TypeOK, controller
  <2>5. TableFilled'
    <3>1. c <= portCount' /\ DOMAIN ports' = c..(portCount' - 1)
      BY <1>2, <1>3, <2>1, <2>3
    <3>2. \A k \in DOMAIN ports : ports[k] < i
      BY <1>3 DEF Range
    <3>3. \A k, l \in DOMAIN ports' : ports'[k] = ports'[l] => k = l
      BY <1>1, <2>3, <3>2 DEF IInv, Table, TableFilled
    <3>4. Range(ports') = {p \in drives : p < i + 1}
      <4>1. \A p \in drives : p < i + 1 <=> p < i \/ p = i
        BY <1>1, <1>3
      <4>2. Range(ports') = {p \in drives : p < i} \union {i}
        BY <1>3, <2>3
      <4> QED
        BY <1>8, <4>1, <4>2, Zenon
    <3> QED
      BY <1>1, <1>8, <3>1, <3>3, <3>4 DEF TableFilled, controller
  <2>6. TableRead' /\ AnsweredInOrder' /\ StopExplained'
    BY <1>1, <1>8 DEF IInv, Table, TableRead, AtPort, AnsweredInOrder, Answered, StopExplained
  <2> QED
    BY <1>4, <2>4, <2>5, <2>6 DEF IInv, Table
<1> QED
  BY <1>1, <1>5, <1>6, <1>7, <1>8 DEF ProbePorts, AddPort, IInv, TypeOK

LEMMA ProbedKeeps == ASSUME IInv, Probed PROVE IInv'
<1> USE AHCIAssumption DEF PortSet
<1>1. /\ pc = "probe" /\ i > MaxPort /\ pc' = "next" /\ i' = 0
      /\ UNCHANGED <<controller, ports, portCount, spin, answer, build>>
  BY DEF Probed
<1>2. TypeOK'
  BY <1>1 DEF IInv, TypeOK, controller
<1>3. PortReady' /\ Commands'
  BY <1>1 DEF IInv, Table, AnsweredInOrder, Answered, PortReady, AtPort, Commands,
              CommandsKnown, IssuedToEnabled, TruthfulAnswer, controller
<1>4. TableFilled'
  <2>1. \A p \in drives : p < i
    BY <1>1 DEF IInv, TypeOK
  <2>2. Range(ports) = drives
    <3>1. Range(ports) = {p \in drives : p < i}
      BY <1>1 DEF IInv, Table, TableFilled
    <3> QED
      BY <2>1, <3>1
  <2> QED
    BY <1>1, <2>2 DEF IInv, Table, TableFilled, controller
<1>5. TableRead' /\ AnsweredInOrder' /\ StopExplained'
  <2>1. \A k \in DOMAIN ports : ~(k < 0)
    BY DEF IInv, TypeOK
  <2>2. {ports[k] : k \in {l \in DOMAIN ports : l < 0}} = {}
    BY <2>1
  <2>3. DOMAIN answer = {}
    BY <1>1 DEF IInv, Table, AnsweredInOrder, Answered
  <2>4. AnsweredInOrder'
    BY <1>1, <2>2, <2>3 DEF AnsweredInOrder, Answered
  <2>5. 0..(i' - 1) = {}
    BY <1>1
  <2> QED
    BY <1>1, <2>4, <2>5 DEF TableRead, StopExplained
<1> QED
  BY <1>2, <1>3, <1>4, <1>5 DEF IInv, Table

\* Steps that go on with a port, or that the controller takes, leave the table.
LEMMA TableStays ==
    ASSUME Table, UNCHANGED <<implemented, drives, i, ports, portCount, answer, build>>,
           pc' = pc \/ (pc \in AtPort \union {"next"} /\ pc' \in AtPort),
           pc' = "hung" /\ pc # "hung" => build # "rereads"
    PROVE  Table'
<1>1. TableFilled'
  BY DEF Table, TableFilled, AtPort
<1>2. TableRead'
  BY DEF Table, TableRead, AtPort
<1>3. AnsweredInOrder'
  BY DEF Table, AnsweredInOrder, Answered, AtPort
<1>4. StopExplained'
  BY DEF Table, StopExplained, AtPort
<1> QED
  BY <1>1, <1>2, <1>3, <1>4 DEF Table

\* The port at hand has not been answered for.
LEMMA PortIsNew ==
    ASSUME IInv, pc \in AtPort \union {"next"}, i \in DOMAIN ports
    PROVE  port \in drives /\ port \notin DOMAIN answer
<1>1. port \in drives
  BY DEF IInv, TypeOK, Range, port
<1>2. DOMAIN answer = {ports[k] : k \in {l \in DOMAIN ports : l < i}}
  BY DEF IInv, Table, AnsweredInOrder, Answered, AtPort
<1>3. \A k \in DOMAIN ports : k < i => ports[k] # ports[i]
  <2> SUFFICES ASSUME NEW k \in DOMAIN ports, k < i, ports[k] = ports[i] PROVE FALSE
    OBVIOUS
  <2>1. k = i
    BY DEF IInv, Table, TableFilled
  <2> QED
    BY <2>1 DEF IInv, TypeOK
<1> QED
  BY <1>1, <1>2, <1>3 DEF port

LEMMA FollowGapKeeps == ASSUME IInv, FollowGap PROVE IInv'
<1> USE AHCIAssumption DEF PortSet
<1>1. /\ pc = "next" /\ i < portCount /\ i \in Nat /\ portCount \in 0..255
      /\ i \notin DOMAIN ports /\ pc' = "wild"
      /\ UNCHANGED <<controller, i, ports, portCount, spin, answer, build>>
  BY DEF FollowGap, Goto, More, IInv, TypeOK
<1>2. TypeOK' /\ PortReady' /\ Commands'
  BY <1>1 DEF IInv, TypeOK, PortReady, AtPort, Commands, CommandsKnown,
              IssuedToEnabled, TruthfulAnswer, controller
<1>3. PICK c \in 0..255 : c <= portCount /\ DOMAIN ports = c..(portCount - 1)
  BY DEF IInv, Table, TableFilled
<1>4. Cardinality(Range(ports)) = portCount - c
  BY <1>3, TableSize DEF IInv, Table
<1>5. portCount > Cardinality(Range(ports))
  BY <1>1, <1>3, <1>4
<1>6. StopExplained'
  BY <1>1, <1>5 DEF StopExplained
<1>7. TableFilled' /\ TableRead' /\ AnsweredInOrder'
  BY <1>1 DEF IInv, Table, TableFilled, TableRead, AtPort, AnsweredInOrder, controller
<1> QED
  BY <1>2, <1>6, <1>7 DEF IInv, Table

\* The bits are cleared at a drive that was not answered for.
LEMMA ClearKeeps ==
    ASSUME IInv, ClearEnableBits, i \in DOMAIN ports,
           \/ pc = "next" /\ pc' = "stopping" /\ build = "rereads"
           \/ pc \in {"next", "clearing"} /\ pc' = "stopped" /\ build # "rereads"
    PROVE  IInv'
<1>1. /\ ST' = ST \ {port} /\ FRE' = FRE \ {port} /\ CI' = CI \ {port}
      /\ UNCHANGED <<implemented, drives, CR, FR, busy, TFES, based, delivered,
                     i, ports, portCount, spin, answer, build>>
  BY DEF ClearEnableBits
<1>2. port \in drives /\ port \notin DOMAIN answer /\ port' = port
  BY <1>1, PortIsNew DEF port, AtPort
<1>3. TypeOK'
  BY <1>1 DEF IInv, TypeOK
<1>4. PortReady'
  BY <1>1, <1>2 DEF PortReady, AtPort
<1>5. Commands'
  <2>1. \A p \in CI : p \notin based \/ (p \in DOMAIN answer /\ p \in TFES)
    BY DEF IInv, Commands, CommandsKnown
  <2>2. \A p \in delivered : p \in DOMAIN answer
    BY DEF IInv, Commands, CommandsKnown
  <2>3. CommandsKnown'
    BY <1>1, <2>1, <2>2 DEF IInv, Commands, CommandsKnown
  <2>4. IssuedToEnabled' /\ TruthfulAnswer'
    BY <1>1 DEF IInv, Commands, IssuedToEnabled, TruthfulAnswer
  <2> QED
    BY <2>3, <2>4 DEF Commands
<1> QED
  BY <1>1, <1>3, <1>4, <1>5, TableStays DEF IInv, AtPort

LEMMA stopCmdKeeps == ASSUME IInv, stopCmd \/ stopCmdOnce PROVE IInv'
<1>1. CASE stopCmd
  BY <1>1, ClearKeeps DEF stopCmd, AtDrive, IInv, TypeOK
<1>2. CASE stopCmdOnce
  <2>1. build # "rereads" /\ i \in DOMAIN ports
    BY <1>2 DEF stopCmdOnce, IInv, PortReady, AtPort
  <2> QED
    BY <1>2, <2>1, ClearKeeps DEF stopCmdOnce
<1> QED
  BY <1>1, <1>2

\* Looking on, and hanging.
LEMMA WaitKeeps ==
    ASSUME IInv, LookBefore \/ LookAtFR \/ LookAtCR \/ startCmdHangs \/ Spin PROVE IInv'
<1>1. /\ UNCHANGED <<controller, i, ports, portCount, answer, build>>
      /\ pc \in {"next", "stopping", "listing", "starting", "reading"} /\ pc' \in AtPort
      /\ pc' # "waiting"
  <2>1. CASE LookBefore
    BY <2>1 DEF LookBefore, AtDrive, Goto, AtPort
  <2>2. CASE LookAtFR \/ startCmdHangs \/ Spin
    BY <2>2 DEF LookAtFR, startCmdHangs, Spin, Goto, AtPort
  <2>3. CASE LookAtCR
    BY <2>3 DEF LookAtCR, Goto, AtPort
  <2> QED
    BY <2>1, <2>2, <2>3
<1>2. TypeOK'
  BY AHCIAssumption DEF IInv, TypeOK, LookBefore, LookAtFR, LookAtCR, startCmdHangs, Spin,
                        Goto, Patient, controller
<1>3. PortReady'
  BY DEF IInv, PortReady, AtPort, AtDrive, LookBefore, LookAtFR, LookAtCR, startCmdHangs,
         Spin, Goto, port, controller
<1>4. Commands'
  BY <1>1 DEF IInv, Commands, CommandsKnown, IssuedToEnabled, TruthfulAnswer, port, controller
<1>5. pc' = "hung" => build # "rereads"
  BY DEF LookBefore, LookAtFR, LookAtCR, startCmdHangs, Spin, Goto
<1> QED
  BY <1>1, <1>2, <1>3, <1>4, <1>5, TableStays DEF IInv, AtPort, controller

LEMMA StartKeeps == ASSUME IInv, Configure \/ startCmd PROVE IInv'
<1>1. /\ UNCHANGED <<implemented, drives, CR, FR, busy, CI, TFES, delivered, i, ports,
                     portCount, answer, build>>
      /\ pc \in {"stopped", "starting"} /\ pc' \in {"starting", "reading"}
  BY DEF Configure, startCmd
<1>2. port \in drives /\ port' = port
  BY <1>1, PortIsNew DEF IInv, PortReady, AtPort, port
<1>3. TypeOK'
  BY <1>2, AHCIAssumption DEF IInv, TypeOK, Configure, startCmd
<1>4. PortReady'
  BY <1>2 DEF IInv, PortReady, AtPort, Configure, startCmd
<1>5. Commands'
  <2>1. port \notin CI
    BY <1>1 DEF IInv, PortReady
  <2> QED
    BY <1>1, <1>2, <2>1 DEF IInv, Commands, CommandsKnown, IssuedToEnabled, TruthfulAnswer,
              Configure, startCmd
<1> QED
  BY <1>1, <1>3, <1>4, <1>5, TableStays DEF IInv, AtPort

LEMMA IssueKeeps == ASSUME IInv, Issue PROVE IInv'
<1>1. /\ pc = "reading" /\ pc' = "waiting"
      /\ TFES' = TFES \ {port} /\ CI' = CI \union {port}
      /\ UNCHANGED <<implemented, drives, ST, FRE, CR, FR, busy, based, delivered,
                     i, ports, portCount, spin, answer, build>>
  BY DEF Issue
<1>2. port \in drives /\ port \notin DOMAIN answer /\ port' = port /\ port \in based
  BY <1>1, PortIsNew DEF IInv, PortReady, AtPort, port
<1>3. TypeOK'
  BY <1>1, <1>2 DEF IInv, TypeOK
<1>4. PortReady'
  BY <1>1, <1>2 DEF IInv, PortReady, AtPort
<1>5. CommandsKnown'
  BY <1>1, <1>2 DEF IInv, Commands, CommandsKnown
<1>6. IssuedToEnabled' /\ TruthfulAnswer'
  BY <1>1, <1>2 DEF IInv, PortReady, Commands, IssuedToEnabled, TruthfulAnswer
<1> QED
  BY <1>1, <1>3, <1>4, <1>5, <1>6, TableStays DEF IInv, AtPort, Commands

\* What is left to show when Read answers for the port at hand.
LEMMA ReturnKeeps ==
    ASSUME IInv, NEW result \in BOOLEAN, Return(result), pc \in {"reading", "waiting"},
           result = (port \in delivered),
           \A p \in CI : p \notin based \/ (p \in TFES /\ (p = port \/ p \in DOMAIN answer))
    PROVE  IInv'
<1>1. /\ answer' = With(answer, port, result) /\ pc' = "next" /\ i' = i + 1
      /\ UNCHANGED <<controller, ports, portCount, spin, build>>
  BY DEF Return
<1>2. port \in drives /\ port \notin DOMAIN answer /\ i \in DOMAIN ports /\ port \in based
  BY PortIsNew DEF IInv, PortReady, AtPort
<1>3. /\ DOMAIN answer' = DOMAIN answer \union {port} /\ answer'[port] = result
      /\ \A p \in DOMAIN answer : answer'[p] = answer[p]
      /\ Range(answer') = Range(answer) \union {result}
  <2>1. DOMAIN answer' = DOMAIN answer \union {port}
    BY <1>1 DEF With
  <2>2. answer'[port] = result
    BY <1>1, <2>1, Zenon DEF With
  <2>3. \A p \in DOMAIN answer : answer'[p] = answer[p]
    BY <1>1, <1>2, <2>1, Zenon DEF With
  <2>4. Range(answer') = Range(answer) \union {result}
    BY <1>2, <2>1, <2>2, <2>3 DEF Range
  <2> QED
    BY <2>1, <2>2, <2>3, <2>4
<1>4. TypeOK'
  <2>1. Range(answer') \subseteq BOOLEAN
    BY <1>3, Zenon DEF IInv, TypeOK
  <2> QED
    BY <1>1, <2>1 DEF IInv, TypeOK, controller
<1>5. PortReady'
  BY <1>1 DEF PortReady, AtPort
<1>6. Commands'
  <2>1. \A p \in delivered : p = port \/ p \in DOMAIN answer
    BY DEF IInv, Commands, CommandsKnown
  <2>2. CommandsKnown'
    BY <1>1, <1>2, <1>3, <2>1 DEF IInv, Commands, CommandsKnown, controller
  <2>3. TruthfulAnswer'
    BY <1>1, <1>2, <1>3 DEF IInv, Commands, TruthfulAnswer, controller
  <2> QED
    BY <1>1, <2>2, <2>3 DEF IInv, Commands, IssuedToEnabled, controller
<1>7. TableFilled' /\ StopExplained'
  BY <1>1 DEF IInv, Table, TableFilled, StopExplained, controller
<1>8. TableRead'
  <2>1. 0..(i - 1) \subseteq DOMAIN ports /\ i \in Nat
    BY DEF IInv, TypeOK, Table, TableRead, AtPort
  <2>2. \A k \in 0..(i + 1 - 1) : k = i \/ k \in 0..(i - 1)
    BY <2>1
  <2> QED
    BY <1>1, <1>2, <2>1, <2>2 DEF TableRead
<1>9. AnsweredInOrder'
  <2>1. DOMAIN answer = {ports[k] : k \in {l \in DOMAIN ports : l < i}}
    BY DEF IInv, Table, AnsweredInOrder, Answered
  <2>2. \A l \in DOMAIN ports : l < i + 1 <=> l < i \/ l = i
    BY DEF IInv, TypeOK
  <2>3. {l \in DOMAIN ports : l < i + 1} = {l \in DOMAIN ports : l < i} \union {i}
    BY <1>2, <2>2, Zenon
  <2>4. DOMAIN answer' = {ports[k] : k \in {l \in DOMAIN ports : l < i + 1}}
    BY <1>3, <2>1, <2>3 DEF port
  <2> QED
    BY <1>1, <2>4 DEF AnsweredInOrder, Answered
<1> QED
  BY <1>4, <1>5, <1>6, <1>7, <1>8, <1>9 DEF IInv, Table

LEMMA ReadKeeps == ASSUME IInv, GiveUp \/ Read \/ ReadOnce PROVE IInv'
<1>1. CASE GiveUp
  <2>1. pc = "reading" /\ Return(FALSE)
    BY <1>1 DEF GiveUp
  <2>2. port \notin DOMAIN answer
    BY <2>1, PortIsNew DEF IInv, PortReady, AtPort
  <2>3. port \notin delivered /\ \A p \in CI : p \notin based \/ (p \in TFES /\ p \in DOMAIN answer)
    BY <2>1, <2>2 DEF IInv, Commands, CommandsKnown
  <2>4. FALSE = (port \in delivered)
    BY <2>3
  <2> QED
    BY <2>1, <2>3, <2>4, ReturnKeeps, Zenon
<1>2. CASE pc = "waiting" /\ Completed /\ Return(TRUE)
  <2>1. port \in delivered /\ \A p \in CI : p \notin based \/ (p \in TFES /\ p \in DOMAIN answer)
    BY <1>2 DEF Completed, IInv, Commands, CommandsKnown
  <2>2. TRUE = (port \in delivered)
    BY <2>1
  <2> QED
    BY <1>2, <2>1, <2>2, ReturnKeeps, Zenon
<1>3. CASE pc = "waiting" /\ port \in TFES /\ port \in CI /\ Return(FALSE)
  <2>1. port \notin delivered
    BY <1>3 DEF IInv, Commands, CommandsKnown
  <2>2. \A p \in CI : p \notin based \/ (p \in TFES /\ (p = port \/ p \in DOMAIN answer))
    BY <1>3 DEF IInv, Commands, CommandsKnown
  <2>3. FALSE = (port \in delivered)
    BY <2>1
  <2> QED
    BY <1>3, <2>2, <2>3, ReturnKeeps, Zenon
<1>4. CASE pc = "waiting" /\ build # "rereads" /\ Goto("hung")
  <2>1. /\ pc' = "hung" /\ pc = "waiting" /\ build # "rereads"
        /\ UNCHANGED <<controller, i, ports, portCount, spin, answer, build>>
    BY <1>4 DEF Goto
  <2>2. TypeOK' /\ PortReady' /\ Commands'
    BY <2>1 DEF IInv, TypeOK, PortReady, AtPort, Commands, CommandsKnown, IssuedToEnabled,
                TruthfulAnswer, port, controller
  <2> QED
    BY <2>1, <2>2, TableStays DEF IInv, AtPort, controller
<1>5. CASE ReadOnce /\ pc = "waiting" /\ port \in TFES /\ Return(FALSE)
  <2>1. port \in CI
    BY <1>5 DEF IInv, Commands, CommandsKnown
  <2> QED
    BY <1>3, <1>5, <2>1
<1> QED
  BY <1>2, <1>1, <1>3, <1>4, <1>5 DEF Read, ReadOnce, Failed

LEMMA DoneKeeps == ASSUME IInv, Done PROVE IInv'
<1>1. /\ pc = "next" /\ ~(i < portCount) /\ pc' = "done"
      /\ UNCHANGED <<controller, i, ports, portCount, spin, answer, build>>
  BY DEF Done, Goto, More
<1>2. TypeOK' /\ PortReady' /\ Commands'
  BY <1>1 DEF IInv, TypeOK, PortReady, AtPort, Commands, CommandsKnown, IssuedToEnabled,
              TruthfulAnswer, controller
<1>3. TableFilled' /\ AnsweredInOrder' /\ StopExplained'
  <2>1. TableFilled'
    BY <1>1 DEF IInv, Table, TableFilled, controller
  <2>2. AnsweredInOrder'
    BY <1>1 DEF IInv, Table, AnsweredInOrder, Answered
  <2> QED
    BY <1>1, <2>1, <2>2 DEF StopExplained
<1>4. TableRead'
  <2>1. i \in Nat /\ portCount \in 0..255 /\ 0..(i - 1) \subseteq DOMAIN ports
    BY <1>1 DEF IInv, TypeOK, Table, TableRead
  <2>2. PICK c \in 0..255 : c <= portCount /\ DOMAIN ports = c..(portCount - 1)
    BY DEF IInv, Table, TableFilled
  <2>3. i > 0 => i - 1 \in 0..(i - 1)
    BY <2>1
  <2>4. i > 0 => i - 1 <= portCount - 1
    BY <2>1, <2>2, <2>3
  <2>5. i = portCount
    BY <1>1, <2>1, <2>4
  <2> QED
    BY <1>1, <2>1, <2>5 DEF TableRead
<1> QED
  BY <1>2, <1>3, <1>4 DEF IInv, Table
-----------------------------------------------------------------------------
(* The controller *)

LEMMA EngineKeeps == ASSUME IInv, NEW p, Engine(p) \/ Receiver(p) \/ Ready(p) PROVE IInv'
<1>1. /\ UNCHANGED <<implemented, drives, ST, FRE, CI, TFES, based, delivered, driver>>
      /\ CR' \subseteq CR \union ST /\ FR' \subseteq FR \union FRE /\ busy' \subseteq busy
  BY DEF Engine, Receiver, Ready
<1>2. TypeOK'
  BY <1>1 DEF IInv, TypeOK, driver
<1>3. PortReady'
  BY <1>1 DEF IInv, PortReady, AtPort, port, driver
<1>4. Commands'
  BY <1>1 DEF IInv, Commands, CommandsKnown, IssuedToEnabled, TruthfulAnswer, port, driver
<1> QED
  BY <1>1, <1>2, <1>3, <1>4, TableStays DEF IInv, driver

\* A command of the firmware's is answered, or the one at hand.
LEMMA AnswerKeeps == ASSUME IInv, NEW p, Complete(p) \/ Error(p) PROVE IInv'
<1>1. /\ UNCHANGED <<implemented, drives, ST, FRE, CR, FR, busy, based, driver>>
      /\ p \in CI \ TFES
      /\ \/ /\ CI' = CI \ {p} /\ delivered' = delivered \union ({p} \intersect based)
            /\ TFES' = TFES
         \/ TFES' = TFES \union {p} /\ CI' = CI /\ delivered' = delivered
  BY DEF Complete, Error
<1>2. p \in drives /\ (p \notin based \/ (pc \in {"waiting", "hung"} /\ p = port))
  BY <1>1 DEF IInv, TypeOK, Commands, CommandsKnown
<1>3. p \notin DOMAIN answer
  <2>1. CASE p \notin based
    BY <2>1 DEF IInv, Commands, CommandsKnown
  <2>2. CASE pc \in {"waiting", "hung"} /\ p = port
    BY <2>2, PortIsNew DEF IInv, PortReady, AtPort
  <2> QED
    BY <1>2, <2>1, <2>2
<1>4. TypeOK'
  BY <1>1, <1>2 DEF IInv, TypeOK, driver
<1>5. PortReady'
  BY <1>1 DEF IInv, PortReady, AtPort, port, driver
<1>6. Commands'
  <2>1. CommandsKnown'
    BY <1>1, <1>2 DEF IInv, PortReady, Commands, CommandsKnown, port, driver
  <2>2. IssuedToEnabled'
    <3>1. CI' \subseteq CI /\ UNCHANGED <<ST, FRE, based, pc, ports, i>>
      BY <1>1 DEF driver
    <3> QED
      BY <3>1 DEF IInv, Commands, IssuedToEnabled, port
  <2>3. TruthfulAnswer'
    <3>1. answer' = answer /\ \A q \in DOMAIN answer : q \in delivered' <=> q \in delivered
      BY <1>1, <1>3 DEF driver
    <3>2. \A q \in DOMAIN answer : (q \in delivered') = (q \in delivered)
      BY <3>1
    <3> QED
      BY <3>1, <3>2, Zenon DEF IInv, Commands, TruthfulAnswer
  <2> QED
    BY <2>1, <2>2, <2>3 DEF Commands
<1> QED
  BY <1>1, <1>4, <1>5, <1>6, TableStays DEF IInv, driver

LEMMA NextIInv == ASSUME IInv, [Next]_vars PROVE IInv'
<1>1. CASE Driver
  BY <1>1, ProbeKeeps, ProbedKeeps, FollowGapKeeps, stopCmdKeeps, WaitKeeps, StartKeeps,
     IssueKeeps, ReadKeeps, DoneKeeps DEF Driver
<1>2. ASSUME NEW p \in PortSet, Controller(p) PROVE IInv'
  BY <1>2, EngineKeeps, AnswerKeeps DEF Controller
<1>3. CASE UNCHANGED vars
  <2>1. TypeOK'
    BY <1>3 DEF IInv, TypeOK, vars, controller, driver
  <2>2. PortReady'
    BY <1>3 DEF IInv, PortReady, AtPort, port, vars, controller, driver
  <2>3. Table'
    BY <1>3, TableStays DEF IInv, vars, controller, driver
  <2>4. Commands'
    BY <1>3 DEF IInv, Commands, CommandsKnown, IssuedToEnabled, TruthfulAnswer, port, vars,
                controller, driver
  <2> QED
    BY <2>1, <2>2, <2>3, <2>4 DEF IInv
<1> QED
  BY <1>1, <1>2, <1>3 DEF Next, Stops

LEMMA Inductive == Spec => []IInv
<1>1. Init => IInv
  BY InitIInv
<1>2. IInv /\ [Next]_vars => IInv'
  BY NextIInv
<1> QED
  BY <1>1, <1>2, PTL DEF Spec
-----------------------------------------------------------------------------
\* Every port the driver asks and every pointer it follows has reason and place.
THEOREM DriverInPlace == Spec => []DriverInv
<1>1. IInv => DriverInv
  BY DEF IInv, Table, Commands, DriverInv
<1> QED
  BY <1>1, Inductive, PTL

\* Read never says true of a buffer that the drive has not filled, nor false of
\* one it has filled.
THEOREM AnswerIsTrue == Spec => []TruthfulAnswer
<1>1. IInv => TruthfulAnswer
  BY DEF IInv, Commands
<1> QED
  BY <1>1, Inductive, PTL

\* When the constructor has gone to its end, every drive was read once.
THEOREM DrivesAllRead == Spec => []EveryDriveRead
<1>1. ASSUME IInv, pc = "done" PROVE Range(ports) = drives /\ DOMAIN answer = drives
                                   /\ portCount = Cardinality(drives)
  <2>1. /\ Range(ports) = drives /\ i = portCount /\ 0..(i - 1) \subseteq DOMAIN ports
        /\ i \in Nat /\ DOMAIN ports \subseteq Nat
    BY <1>1, AHCIAssumption DEF IInv, TypeOK, Table, TableFilled, TableRead
  <2>2. PICK c \in 0..255 : c <= portCount /\ DOMAIN ports = c..(portCount - 1)
    BY <1>1 DEF IInv, Table, TableFilled
  <2>3. DOMAIN answer = drives
    <3>1. \A l \in DOMAIN ports : l < i
      BY <2>1, <2>2
    <3>2. DOMAIN answer = {ports[k] : k \in {l \in DOMAIN ports : l < i}}
      BY <1>1 DEF IInv, Table, AnsweredInOrder, Answered
    <3>3. DOMAIN answer = {ports[k] : k \in DOMAIN ports}
      BY <3>1, <3>2
    <3> QED
      BY <2>1, <3>3 DEF Range
  <2>4. portCount = Cardinality(drives)
    <3>1. Cardinality(drives) = portCount - c
      BY <1>1, <2>1, <2>2, TableSize DEF IInv, Table
    <3>2. portCount = 0 \/ c = 0
      <4>1. portCount > 0 => 0 \in 0..(i - 1)
        BY <2>1
      <4> QED
        BY <2>1, <2>2, <4>1
    <3> QED
      BY <2>1, <2>2, <3>1, <3>2
  <2> QED
    BY <2>1, <2>3, <2>4
<1>2. IInv => EveryDriveRead
  BY <1>1 DEF EveryDriveRead
<1> QED
  BY <1>2, Inductive, PTL

\* The memory of a port is exchanged only while both its engines stand still,
\* whatever the firmware has left and however late they follow their enable bits,
\* if stopCmd reads the register as often as it is written.
THEOREM ExchangedIdle == Spec => MemoryMovesIdle
<1>1. ASSUME IInv, [Next]_vars
      PROVE  [build = "rereads" => \A p \in based' \ based : p \notin CR /\ p \notin FR]_vars
  <2> SUFFICES ASSUME build = "rereads", NEW p \in based' \ based PROVE p \notin CR /\ p \notin FR
    OBVIOUS
  <2>1. Configure
    BY <1>1 DEF Next, Driver, Controller, Stops, vars, controller, ProbePorts, Probed, Goto,
       FollowGap, ClearEnableBits, stopCmd, stopCmdOnce, LookBefore, LookAtFR, LookAtCR,
       startCmd, startCmdHangs, Spin, Issue, GiveUp, Read, ReadOnce, Return, Done, Engine,
       Receiver, Ready, Complete, Error
  <2>2. p = port /\ pc = "stopped"
    BY <2>1 DEF Configure
  <2> QED
    BY <1>1, <2>2 DEF IInv, PortReady
<1> QED
  BY <1>1, Inductive, PTL DEF Spec, MemoryMovesIdle
=============================================================================
