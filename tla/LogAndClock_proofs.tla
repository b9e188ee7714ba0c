--------------------------- MODULE LogAndClock_proofs ---------------------------
(***************************************************************************)
(* Proofs about two devices behind ports: DebugLog and the Serial it       *)
(* prints through, for buffers and messages of any size; and Clock, for    *)
(* any stretch of time, any values a register may hold while it changes    *)
(* and any length of the sleep.                                            *)
(***************************************************************************)
EXTENDS DebugLog, Clock, SequenceTheorems, WellFoundedInduction, TLAPS


Places  == 0..(BUFSIZE - 1)
Buffers == [Places -> Chars \union {NUL}]

\* What each stage of serialPutchar knows.
Stage ==
    /\ pc = "idle" => at = 0
    /\ IF pc = "full" THEN held \in Chars /\ idx = BUFSIZE ELSE held = NUL
    /\ idx = BUFSIZE => overran
    /\ neighbour # "other" => beyond = NUL

\* The buffer holds idx characters, at of which are sent, and ends with the first LF.
InBuffer ==
    /\ at <= idx
    /\ \A i \in Places : IF i < idx THEN buffer[i] \in Chars ELSE buffer[i] = NUL
    /\ \A i \in Places : buffer[i] = LF => pc = "line" /\ i = idx - 1

\* sent \o Pending = printed, character by character.
OnTheWire ==
    /\ Len(printed) = Len(sent) + (idx - at) + (IF held = NUL THEN 0 ELSE 1)
    /\ \A k \in 1..Len(sent) : printed[k] = sent[k]
    /\ \A k \in 1..(idx - at) : printed[Len(sent) + k] = buffer[at + k - 1]
    /\ held # NUL => printed[Len(printed)] = held

IInv == /\ TypeOK /\ Stage /\ OverrunNeedsLongLine
        /\ Harmless => InBuffer /\ OnTheWire
-----------------------------------------------------------------------------
LEMMA Sizes ==
    /\ BUFSIZE \in Nat \ {0} /\ Byte \in Nat \ {0}
    /\ Chars \subseteq 1..127 /\ LF \in Chars /\ NUL \notin Chars /\ JUNK \notin Chars /\ JUNK # NUL
BY SerialAssumption DEF NUL, JUNK

LEMMA RemainderBelow ==
    ASSUME NEW n \in Nat, NEW d \in Nat \ {0}
    PROVE  n % d \in 0..n /\ n % d \in 0..(d - 1)
<1>1. n % d \in 0..(d - 1)
  OBVIOUS
<1>2. CASE n < d
  <2>1. n % d = n
    BY <1>2
  <2> QED
    BY <1>1, <2>1
<1>3. CASE n >= d
  BY <1>1, <1>3
<1> QED
  BY <1>2, <1>3

\* What serialPutchar's stores leave behind.
LEMMA StoreStep ==
    ASSUME TypeOK, neighbour # "other" => beyond = NUL,
           NEW b \in Buffers, NEW n \in Places, NEW c \in Chars, Store(b, n, c)
    PROVE  /\ buffer' \in Buffers /\ idx' \in 0..BUFSIZE /\ beyond' \in {NUL, JUNK}
           /\ pc' = (IF c = LF THEN "line" ELSE "idle") /\ at' = 0 /\ held' = NUL
           /\ sent' = sent /\ neighbour' = neighbour /\ overran' = (overran \/ n + 1 = BUFSIZE)
           /\ idx' = BUFSIZE => overran'
           /\ neighbour' # "other" => beyond' = NUL
           /\ Harmless' => /\ idx' = n + 1
                           /\ \A i \in Places : buffer'[i] = IF i = n THEN c
                                                ELSE IF i = n + 1 THEN NUL ELSE b[i]
<1>1. BUFSIZE \in Nat \ {0} /\ Byte \in Nat \ {0} /\ n \in Nat /\ n + 1 <= BUFSIZE
  BY Sizes DEF Places
<1>2. /\ buffer' = IF n + 1 < BUFSIZE THEN [b EXCEPT ![n] = c, ![n + 1] = NUL]
                                      ELSE [b EXCEPT ![n] = c]
      /\ overran' = (overran \/ n + 1 = BUFSIZE)
      /\ beyond' = IF n + 1 = BUFSIZE THEN NUL ELSE beyond
      /\ idx' \in IF n + 1 = BUFSIZE /\ neighbour = "idx"
                  THEN {n + 1, n - (n % Byte) + 1} ELSE {n + 1}
      /\ pc' = (IF c = LF THEN "line" ELSE "idle") /\ at' = 0 /\ held' = NUL
      /\ sent' = sent /\ neighbour' = neighbour
  BY DEF Store
<1>3. n % Byte \in 0..n
  BY <1>1, RemainderBelow
<1>4. idx' \in 0..BUFSIZE /\ (idx' = BUFSIZE => n + 1 = BUFSIZE)
  BY <1>1, <1>2, <1>3
<1>5. buffer' \in Buffers
  BY <1>2 DEF Buffers
<1>6. \A i \in Places : buffer'[i] = IF i = n THEN c ELSE IF i = n + 1 THEN NUL ELSE b[i]
  <2> SUFFICES ASSUME NEW i \in Places
               PROVE  buffer'[i] = IF i = n THEN c ELSE IF i = n + 1 THEN NUL ELSE b[i]
    OBVIOUS
  <2>1. CASE n + 1 < BUFSIZE
    <3>1. buffer' = [b EXCEPT ![n] = c, ![n + 1] = NUL]
      BY <1>2, <2>1
    <3> QED
      BY <1>1, <3>1 DEF Buffers
  <2>2. CASE ~(n + 1 < BUFSIZE)
    <3>1. buffer' = [b EXCEPT ![n] = c] /\ i # n + 1
      BY <1>1, <1>2, <2>2 DEF Places
    <3> QED
      BY <3>1 DEF Buffers
  <2> QED
    BY <2>1, <2>2
<1>7. Harmless' => idx' = n + 1
  BY <1>2 DEF Harmless
<1>8. beyond' \in {NUL, JUNK} /\ (neighbour' # "other" => beyond' = NUL)
  BY <1>2 DEF TypeOK
<1> QED
  BY <1>2, <1>4, <1>5, <1>6, <1>7, <1>8
-----------------------------------------------------------------------------
(* The steps *)

LEMMA InitIInv == DebugInit => IInv
<1> SUFFICES ASSUME Init PROVE IInv
  BY DEF DebugInit
<1>1. /\ buffer = Empty /\ idx = 0 /\ beyond = NUL /\ pc = "idle" /\ at = 0 /\ held = NUL
      /\ printed = <<>> /\ sent = <<>> /\ overran = FALSE
  BY DEF Init
<1>2. Empty \in Buffers /\ \A i \in Places : Empty[i] = NUL
  BY DEF Empty, Buffers, Places
<1>3. TypeOK
  BY <1>1, <1>2, Sizes DEF TypeOK, Buffers, Places
<1>4. Stage /\ OverrunNeedsLongLine
  BY <1>1, Sizes DEF Stage, OverrunNeedsLongLine
<1>5. InBuffer
  BY <1>1, <1>2, Sizes DEF InBuffer, LF, NUL, Places
<1>6. OnTheWire
  BY <1>1 DEF OnTheWire
<1> QED
  BY <1>3, <1>4, <1>5, <1>6 DEF IInv

\* A line that was too long stays one whatever is printed behind it.
LEMMA LongLineStays ==
    ASSUME OverrunNeedsLongLine, overran, TypeOK, NEW c, printed' = Append(printed, c)
    PROVE  \E n \in 0..(Len(printed') - BUFSIZE) :
               LF \notin {printed'[k] : k \in (n + 1)..(n + BUFSIZE - 1)}
<1>1. printed \in Seq(Chars) /\ Len(printed) \in Nat /\ BUFSIZE \in Nat \ {0}
  BY Sizes DEF TypeOK
<1>2. PICK n \in 0..(Len(printed) - BUFSIZE) :
          LF \notin {printed[k] : k \in (n + 1)..(n + BUFSIZE - 1)}
  BY DEF OverrunNeedsLongLine
<1>3. Len(printed') = Len(printed) + 1 /\ \A k \in 1..Len(printed) : printed'[k] = printed[k]
  BY <1>1
<1>4. \A k \in (n + 1)..(n + BUFSIZE - 1) : k \in 1..Len(printed)
  BY <1>1
<1>5. LF \notin {printed'[k] : k \in (n + 1)..(n + BUFSIZE - 1)}
  BY <1>2, <1>3, <1>4
<1>6. n \in 0..(Len(printed') - BUFSIZE)
  BY <1>1, <1>3
<1> QED
  BY <1>5, <1>6

LEMMA PutcharStep ==
    ASSUME IInv, NEW c \in Chars, serialPutchar(c)
    PROVE  IInv'
<1>1. /\ TypeOK /\ Stage /\ OverrunNeedsLongLine /\ (Harmless => InBuffer /\ OnTheWire)
      /\ buffer \in Buffers /\ idx \in 0..BUFSIZE /\ at = 0 /\ held = NUL /\ pc = "idle"
      /\ printed \in Seq(Chars) /\ printed' = Append(printed, c)
      /\ Len(printed) \in Nat /\ Len(sent) \in Nat
  BY DEF IInv, TypeOK, Stage, Buffers, Places, serialPutchar
<1>2. /\ printed' \in Seq(Chars) /\ Len(printed') = Len(printed) + 1
      /\ printed'[Len(printed) + 1] = c
      /\ \A k \in 1..Len(printed) : printed'[k] = printed[k]
  BY <1>1
<1>3. CASE Room /\ Store(buffer, idx, c)
  <2>1. idx \in Places
    BY <1>1, <1>3, Sizes DEF Room, Places
  <2>2. /\ buffer' \in Buffers /\ idx' \in 0..BUFSIZE /\ beyond' \in {NUL, JUNK}
        /\ pc' = (IF c = LF THEN "line" ELSE "idle") /\ at' = 0 /\ held' = NUL
        /\ sent' = sent /\ neighbour' = neighbour /\ overran' = (overran \/ idx + 1 = BUFSIZE)
        /\ idx' = BUFSIZE => overran'
        /\ neighbour' # "other" => beyond' = NUL
        /\ Harmless' => /\ idx' = idx + 1
                        /\ \A i \in Places : buffer'[i] = IF i = idx THEN c
                                             ELSE IF i = idx + 1 THEN NUL ELSE buffer[i]
    BY <1>1, <1>3, <2>1, StoreStep DEF Stage
  <2>3. TypeOK'
    BY <1>1, <1>2, <2>2, Sizes DEF TypeOK, Buffers, Places
  <2>4. Stage'
    BY <2>2 DEF Stage
  <2>5. OverrunNeedsLongLine'
    <3>1. CASE overran
      BY <1>1, <3>1, LongLineStays DEF OverrunNeedsLongLine
    <3>2. CASE ~overran /\ idx + 1 = BUFSIZE
      <4>1. InBuffer /\ OnTheWire
        BY <1>1, <3>2 DEF Harmless
      <4>2. Len(printed) = Len(sent) + idx
        BY <1>1, <4>1 DEF OnTheWire
      <4>3. ASSUME NEW k \in (Len(sent) + 1)..(Len(sent) + BUFSIZE - 1) PROVE printed'[k] # LF
        <5>1. k - Len(sent) \in 1..idx /\ k \in 1..Len(printed) /\ k - Len(sent) - 1 \in Places
          BY <1>1, <3>2, <4>2 DEF Places
        <5>2. printed[k] = buffer[k - Len(sent) - 1]
          <6>1. \A j \in 1..idx : printed[Len(sent) + j] = buffer[j - 1]
            BY <1>1, <4>1 DEF OnTheWire
          <6>2. Len(sent) + (k - Len(sent)) = k
            BY <1>1
          <6> QED
            BY <5>1, <6>1, <6>2
        <5>3. buffer[k - Len(sent) - 1] # LF
          <6>1. \A i \in Places : buffer[i] # LF
            BY <1>1, <4>1 DEF InBuffer
          <6> QED
            BY <5>1, <6>1
        <5> QED
          BY <1>2, <5>1, <5>2, <5>3
      <4>4. Len(sent) \in 0..(Len(printed') - BUFSIZE)
        BY <1>1, <1>2, <3>2, <4>2, Sizes
      <4> QED
        BY <4>3, <4>4 DEF OverrunNeedsLongLine
    <3>3. CASE ~overran /\ idx + 1 # BUFSIZE
      BY <2>2, <3>3 DEF OverrunNeedsLongLine
    <3> QED
      BY <3>1, <3>2, <3>3
  <2>6. ASSUME Harmless' PROVE InBuffer' /\ OnTheWire'
    <3>1. Harmless
      BY <2>2, <2>6 DEF Harmless
    <3>2. InBuffer /\ OnTheWire
      BY <1>1, <3>1
    <3>3. /\ idx' = idx + 1
          /\ \A i \in Places : buffer'[i] = IF i = idx THEN c
                               ELSE IF i = idx + 1 THEN NUL ELSE buffer[i]
      BY <2>2, <2>6
    <3>4. idx \in Nat /\ \A i \in Places : i \in Nat
      BY <1>1, Sizes DEF Places
    <3>5. at' <= idx'
      BY <2>2, <3>3, <3>4
    <3>6. \A i \in Places : IF i < idx' THEN buffer'[i] \in Chars ELSE buffer'[i] = NUL
      BY <3>2, <3>3, <3>4 DEF InBuffer
    <3>7. \A i \in Places : buffer'[i] = LF => pc' = "line" /\ i = idx' - 1
      BY <1>1, <2>2, <3>2, <3>3, <3>4 DEF InBuffer, LF, NUL
    <3>8. Len(printed) = Len(sent) + idx
      BY <1>1, <3>2, <3>4 DEF OnTheWire
    <3>9. Len(printed') = Len(sent') + (idx' - at') + (IF held' = NUL THEN 0 ELSE 1)
      BY <1>1, <1>2, <2>2, <3>3, <3>4, <3>8
    <3>10. \A k \in 1..Len(sent') : printed'[k] = sent'[k]
      <4>1. \A k \in 1..Len(sent) : k \in 1..Len(printed) /\ printed[k] = sent[k]
        BY <1>1, <3>2, <3>4, <3>8 DEF OnTheWire
      <4> QED
        BY <1>2, <2>2, <4>1
    <3>11. ASSUME NEW k \in 1..(idx' - at') PROVE printed'[Len(sent') + k] = buffer'[at' + k - 1]
      <4>1. k \in 1..(idx + 1) /\ k - 1 \in Places /\ at' + k - 1 = k - 1
        <5>1. k \in 1..(idx + 1)
          BY <2>2, <3>3, <3>4
        <5> QED
          BY <2>1, <2>2, <3>4, <5>1, Sizes DEF Places
      <4>2. CASE k = idx + 1
        <5>1. Len(sent') + k = Len(printed) + 1 /\ at' + k - 1 = idx /\ idx \in Places
          BY <1>1, <2>1, <2>2, <3>4, <3>8, <4>2
        <5> QED
          BY <1>2, <3>3, <5>1
      <4>3. CASE k # idx + 1
        <5>1. k \in 1..(idx - at) /\ at + k - 1 = k - 1 /\ Len(sent) + k \in 1..Len(printed)
          BY <1>1, <3>4, <3>8, <4>1, <4>3
        <5>2. printed[Len(sent) + k] = buffer[k - 1]
          BY <3>2, <5>1 DEF OnTheWire
        <5>3. buffer'[k - 1] = buffer[k - 1]
          BY <3>3, <3>4, <4>1, <4>3, <5>1
        <5> QED
          BY <1>2, <2>2, <4>1, <5>1, <5>2, <5>3
      <4> QED
        BY <4>2, <4>3
    <3> QED
      BY <2>2, <3>5, <3>6, <3>7, <3>9, <3>10, <3>11 DEF InBuffer, OnTheWire
  <2> QED
    BY <2>3, <2>4, <2>5, <2>6 DEF IInv
<1>4. CASE /\ ~Room /\ pc' = "full" /\ at' = 0 /\ held' = c
           /\ UNCHANGED <<buffer, idx, neighbour, beyond, sent, overran>>
  <2>1. idx = BUFSIZE /\ overran /\ c # NUL
    BY <1>1, <1>4, Sizes DEF Room, Stage
  <2>2. TypeOK'
    BY <1>1, <1>2, <1>4, Sizes DEF TypeOK
  <2>3. Stage'
    BY <1>1, <1>4, <2>1 DEF Stage
  <2>4. OverrunNeedsLongLine'
    BY <1>1, <2>1, LongLineStays DEF OverrunNeedsLongLine
  <2>5. ASSUME Harmless' PROVE InBuffer' /\ OnTheWire'
    <3>1. InBuffer /\ OnTheWire
      BY <1>1, <1>4, <2>5 DEF Harmless
    <3>2. InBuffer'
      BY <1>1, <1>4, <3>1 DEF InBuffer
    <3>3. Len(printed) = Len(sent) + idx /\ idx \in Nat
      BY <1>1, <3>1 DEF OnTheWire
    <3>4. \A k \in 1..Len(sent) : k \in 1..Len(printed)
      BY <1>1, <3>3
    <3>5. \A k \in 1..(idx - at) : Len(sent) + k \in 1..Len(printed)
      BY <1>1, <3>3
    <3>6. Len(printed') = Len(sent') + (idx' - at') + (IF held' = NUL THEN 0 ELSE 1)
      BY <1>1, <1>2, <1>4, <2>1, <3>3
    <3>7. /\ \A k \in 1..Len(sent') : printed'[k] = sent'[k]
          /\ \A k \in 1..(idx' - at') : printed'[Len(sent') + k] = buffer'[at' + k - 1]
      BY <1>1, <1>2, <1>4, <3>1, <3>4, <3>5 DEF OnTheWire
    <3>8. printed'[Len(printed')] = held'
      BY <1>2, <1>4
    <3> QED
      BY <3>2, <3>6, <3>7, <3>8 DEF OnTheWire
  <2> QED
    BY <2>2, <2>3, <2>4, <2>5 DEF IInv
<1> QED
  BY <1>3, <1>4 DEF serialPutchar

\* While the byte behind the buffer does no harm, what is sent is the buffer up
\* to idx: serialPrint stops there and nowhere before.
LEMMA SentUpToIdx ==
    ASSUME IInv, Harmless
    PROVE  /\ at < idx => Read(at) = buffer[at] /\ Read(at) \in Chars
           /\ at = idx => Read(at) = NUL
           /\ at <= idx
<1>1. InBuffer /\ at \in Nat /\ idx \in 0..BUFSIZE /\ BUFSIZE \in Nat \ {0}
  BY Sizes DEF IInv, TypeOK
<1>2. ASSUME at < idx PROVE Read(at) = buffer[at] /\ Read(at) \in Chars
  <2>1. at \in Places /\ at < BUFSIZE
    BY <1>1, <1>2 DEF Places
  <2> QED
    BY <1>1, <1>2, <2>1 DEF InBuffer, Read
<1>3. ASSUME at = idx PROVE Read(at) = NUL
  <2>1. CASE idx < BUFSIZE
    <3>1. at \in Places /\ ~(at < idx)
      BY <1>1, <1>3, <2>1 DEF Places
    <3> QED
      BY <1>1, <1>3, <2>1, <3>1 DEF InBuffer, Read
  <2>2. CASE idx = BUFSIZE
    <3>1. neighbour = "padding" /\ beyond = NUL
      BY <2>2 DEF IInv, Stage, Harmless
    <3> QED
      BY <1>1, <1>3, <2>2, <3>1 DEF Read
  <2> QED
    BY <1>1, <2>1, <2>2
<1> QED
  BY <1>1, <1>2, <1>3 DEF InBuffer

LEMMA SendStep ==
    ASSUME IInv, Send
    PROVE  IInv'
<1>1. /\ TypeOK /\ Stage /\ OverrunNeedsLongLine /\ (Harmless => InBuffer /\ OnTheWire)
      /\ buffer \in Buffers /\ idx \in 0..BUFSIZE /\ at \in 0..(BUFSIZE + 1)
      /\ sent \in Seq(Chars \union {JUNK} \union 1..Byte)
      /\ Len(printed) \in Nat /\ Len(sent) \in Nat
  BY DEF IInv, TypeOK, Buffers, Places
<1>2. /\ pc # "idle" /\ Read(at) # NUL /\ at <= BUFSIZE
      /\ sent' = Append(sent, Read(at)) /\ at' = at + 1
      /\ UNCHANGED <<buffer, idx, neighbour, beyond, pc, held, printed, overran>>
  BY DEF Send
<1>3. Read(at) \in Chars \union {JUNK} \union 1..Byte
  <2>1. CASE at < BUFSIZE
    <3>1. at \in Places
      BY <1>1, <2>1, Sizes DEF Places
    <3> QED
      BY <1>1, <1>2, <2>1, <3>1 DEF Read, Buffers
  <2>2. CASE at = BUFSIZE
    <3>1. Read(at) = IF neighbour = "idx" THEN idx % Byte ELSE beyond
      BY <1>1, <2>2, Sizes DEF Read
    <3>2. idx % Byte \in 0..(Byte - 1)
      BY <1>1, Sizes
    <3>3. beyond \in {NUL, JUNK}
      BY <1>1 DEF TypeOK
    <3> QED
      BY <1>2, <3>1, <3>2, <3>3, Sizes DEF NUL
  <2> QED
    BY <1>1, <1>2, <2>1, <2>2, Sizes
<1>4. /\ sent' \in Seq(Chars \union {JUNK} \union 1..Byte) /\ Len(sent') = Len(sent) + 1
      /\ sent'[Len(sent) + 1] = Read(at) /\ \A k \in 1..Len(sent) : sent'[k] = sent[k]
  BY <1>1, <1>2, <1>3
<1>5. TypeOK'
  BY <1>1, <1>2, <1>4, Sizes DEF TypeOK
<1>6. Stage' /\ OverrunNeedsLongLine'
  BY <1>1, <1>2 DEF Stage, OverrunNeedsLongLine
<1>7. ASSUME Harmless' PROVE InBuffer' /\ OnTheWire'
  <2>1. Harmless /\ InBuffer /\ OnTheWire
    BY <1>1, <1>2, <1>7 DEF Harmless
  <2>2. at < idx /\ Read(at) = buffer[at] /\ at \in Nat /\ idx \in Nat
    BY <1>1, <1>2, <2>1, SentUpToIdx
  <2>3. InBuffer'
    BY <1>2, <2>1, <2>2 DEF InBuffer
  <2>4. Len(printed') = Len(sent') + (idx' - at') + (IF held' = NUL THEN 0 ELSE 1)
    BY <1>1, <1>2, <1>4, <2>1, <2>2 DEF OnTheWire
  <2>5. printed[Len(sent) + 1] = buffer[at]
    <3>1. 1 \in 1..(idx - at) /\ at + 1 - 1 = at
      BY <2>2
    <3> QED
      BY <2>1, <3>1 DEF OnTheWire
  <2>6. ASSUME NEW k \in 1..Len(sent') PROVE printed'[k] = sent'[k]
    <3>1. k \in 1..Len(sent) \/ k = Len(sent) + 1
      BY <1>1, <1>4
    <3>2. CASE k \in 1..Len(sent)
      BY <1>2, <1>4, <2>1, <3>2 DEF OnTheWire
    <3>3. CASE k = Len(sent) + 1
      BY <1>2, <1>4, <2>2, <2>5, <3>3
    <3> QED
      BY <3>1, <3>2, <3>3
  <2>7. ASSUME NEW k \in 1..(idx' - at') PROVE printed'[Len(sent') + k] = buffer'[at' + k - 1]
    <3>1. k + 1 \in 1..(idx - at)
      BY <1>2, <2>2
    <3>2. printed[Len(sent) + (k + 1)] = buffer[at + (k + 1) - 1]
      BY <2>1, <3>1 DEF OnTheWire
    <3>3. Len(sent') + k = Len(sent) + (k + 1) /\ at' + k - 1 = at + (k + 1) - 1
      BY <1>1, <1>2, <1>4, <2>2
    <3> QED
      BY <1>2, <3>2, <3>3
  <2>8. held' # NUL => printed'[Len(printed')] = held'
    BY <1>2, <2>1 DEF OnTheWire
  <2> QED
    BY <2>3, <2>4, <2>6, <2>7, <2>8 DEF OnTheWire
<1> QED
  BY <1>5, <1>6, <1>7 DEF IInv

LEMMA FlushedStep ==
    ASSUME IInv, Flushed
    PROVE  IInv'
<1>1. /\ TypeOK /\ Stage /\ OverrunNeedsLongLine /\ (Harmless => InBuffer /\ OnTheWire)
      /\ idx \in 0..BUFSIZE /\ at \in 0..(BUFSIZE + 1)
      /\ printed \in Seq(Chars) /\ Len(printed) \in Nat /\ Len(sent) \in Nat
  BY DEF IInv, TypeOK
<1>2. pc # "idle" /\ (Read(at) = NUL \/ at > BUFSIZE) /\ printed' = printed
  BY DEF Flushed
<1>3. Empty \in Buffers /\ (\A i \in Places : Empty[i] = NUL) /\ 0 \in Places
  BY Sizes DEF Empty, Buffers, Places
<1>4. ASSUME Harmless
      PROVE  /\ Len(printed) = Len(sent) + (IF held = NUL THEN 0 ELSE 1)
             /\ \A k \in 1..Len(sent) : printed[k] = sent[k]
             /\ held # NUL => printed[Len(printed)] = held
  <2>1. at = idx
    BY <1>1, <1>2, <1>4, SentUpToIdx, Sizes
  <2> QED
    BY <1>1, <1>4, <2>1 DEF OnTheWire
<1>5. CASE pc = "full" /\ Store(Empty, 0, held)
  <2>1. held \in Chars /\ held # NUL /\ overran
    BY <1>1, <1>5, Sizes DEF Stage
  <2>2. /\ buffer' \in Buffers /\ idx' \in 0..BUFSIZE /\ beyond' \in {NUL, JUNK}
        /\ pc' = (IF held = LF THEN "line" ELSE "idle") /\ at' = 0 /\ held' = NUL
        /\ sent' = sent /\ neighbour' = neighbour /\ overran' = (overran \/ 0 + 1 = BUFSIZE)
        /\ idx' = BUFSIZE => overran'
        /\ neighbour' # "other" => beyond' = NUL
        /\ Harmless' => /\ idx' = 0 + 1
                        /\ \A i \in Places : buffer'[i] = IF i = 0 THEN held
                                             ELSE IF i = 0 + 1 THEN NUL ELSE Empty[i]
    BY <1>1, <1>3, <1>5, <2>1, StoreStep DEF Stage
  <2>3. TypeOK'
    BY <1>1, <1>2, <2>2, Sizes DEF TypeOK, Buffers, Places
  <2>4. Stage' /\ OverrunNeedsLongLine'
    BY <1>1, <1>2, <2>1, <2>2 DEF Stage, OverrunNeedsLongLine
  <2>5. ASSUME Harmless' PROVE InBuffer' /\ OnTheWire'
    <3>1. Harmless
      BY <2>1, <2>2, <2>5 DEF Harmless
    <3>2. idx' = 1 /\ \A i \in Places : i \in Nat /\ buffer'[i] = IF i = 0 THEN held ELSE NUL
      BY <1>3, <2>2, <2>5, Sizes DEF Places
    <3>3. InBuffer'
      BY <2>1, <2>2, <3>2 DEF InBuffer, LF, NUL
    <3>4. Len(printed) = Len(sent) + 1 /\ printed[Len(sent) + 1] = held
      BY <1>4, <2>1, <3>1
    <3>5. \A k \in 1..(idx' - at') : k = 1
      BY <2>2, <3>2
    <3>6. Len(sent) + 1 - 0 = Len(sent) + 1 /\ at' + 1 - 1 = 0 /\ idx' - at' = 1
      BY <1>1, <2>2, <3>2
    <3>7. Len(printed') = Len(sent') + (idx' - at') + (IF held' = NUL THEN 0 ELSE 1)
      BY <1>1, <1>2, <2>2, <3>4, <3>6
    <3>8. \A k \in 1..(idx' - at') : printed'[Len(sent') + k] = buffer'[at' + k - 1]
      BY <1>2, <1>3, <2>2, <3>2, <3>4, <3>5, <3>6
    <3>9. \A k \in 1..Len(sent') : printed'[k] = sent'[k]
      BY <1>2, <1>4, <2>2, <3>1
    <3> QED
      BY <2>2, <3>3, <3>7, <3>8, <3>9 DEF OnTheWire
  <2> QED
    BY <2>3, <2>4, <2>5 DEF IInv
<1>6. CASE /\ pc # "full" /\ buffer' = Empty /\ idx' = 0 /\ pc' = "idle" /\ at' = 0
           /\ UNCHANGED <<neighbour, beyond, held, sent, overran>>
  <2>1. held = NUL /\ held' = NUL
    BY <1>1, <1>6 DEF Stage
  <2>2. TypeOK'
    BY <1>1, <1>2, <1>3, <1>6, Sizes DEF TypeOK, Buffers, Places
  <2>3. Stage' /\ OverrunNeedsLongLine'
    BY <1>1, <1>2, <1>6, <2>1, Sizes DEF Stage, OverrunNeedsLongLine
  <2>4. ASSUME Harmless' PROVE InBuffer' /\ OnTheWire'
    <3>1. Harmless
      BY <1>6, <2>4 DEF Harmless
    <3>2. InBuffer'
      BY <1>3, <1>6 DEF InBuffer, LF, NUL, Places
    <3>3. Len(printed') = Len(sent') + (idx' - at') + (IF held' = NUL THEN 0 ELSE 1)
      BY <1>1, <1>2, <1>4, <1>6, <2>1, <3>1
    <3>4. \A k \in 1..(idx' - at') : FALSE
      BY <1>6
    <3>5. \A k \in 1..Len(sent') : printed'[k] = sent'[k]
      BY <1>2, <1>4, <1>6, <3>1
    <3> QED
      BY <2>1, <3>2, <3>3, <3>4, <3>5 DEF OnTheWire
  <2> QED
    BY <2>2, <2>3, <2>4 DEF IInv
<1> QED
  BY <1>5, <1>6 DEF Flushed

LEMMA NeighbourStep ==
    ASSUME IInv, NeighbourChanges
    PROVE  IInv'
<1>1. /\ neighbour = "other" /\ beyond' = JUNK
      /\ UNCHANGED <<buffer, idx, neighbour, pc, at, held, printed, sent, overran>>
  BY DEF NeighbourChanges
<1>2. TypeOK' /\ Stage' /\ OverrunNeedsLongLine'
  BY <1>1 DEF IInv, TypeOK, Stage, OverrunNeedsLongLine
<1>3. Harmless' => InBuffer' /\ OnTheWire'
  BY <1>1 DEF IInv, Harmless, InBuffer, OnTheWire
<1> QED
  BY <1>2, <1>3 DEF IInv

LEMMA NextIInv ==
    ASSUME IInv, Printable, [DebugNext]_debugVars
    PROVE  IInv'
<1>1. CASE UNCHANGED vars
  BY <1>1 DEF vars, IInv, TypeOK, Stage, OverrunNeedsLongLine, Harmless, InBuffer, OnTheWire
<1>2. CASE Putchar
  <2>1. Head(todo) \in Chars /\ serialPutchar(Head(todo))
    BY <1>2 DEF Putchar, Printable
  <2> QED
    BY <2>1, PutcharStep
<1>3. CASE Send \/ Flushed \/ NeighbourChanges
  BY <1>3, SendStep, FlushedStep, NeighbourStep
<1> QED
  BY <1>1, <1>2, <1>3 DEF DebugNext, debug, debugVars
-----------------------------------------------------------------------------
\* Positions and lengths agree, so the sequences do.
LEMMA WireIsLog == IInv => LogFaithful
<1> SUFFICES ASSUME IInv, Harmless PROVE sent \o Pending = printed
  BY DEF LogFaithful
<1>1. /\ InBuffer /\ OnTheWire /\ printed \in Seq(Chars) /\ idx \in 0..BUFSIZE
      /\ at \in Nat /\ at <= idx /\ BUFSIZE \in Nat
      /\ sent \in Seq(Chars \union {JUNK} \union 1..Byte) /\ held \in Chars \union {NUL}
  BY Sizes DEF IInv, TypeOK, InBuffer
<1> DEFINE stored == [i \in 1..(idx - at) |-> buffer[at + i - 1]]
           AnyChar == Chars \union {NUL, JUNK} \union 1..Byte
<1>2. stored \in Seq(AnyChar) /\ Len(stored) = idx - at
  <2>1. \A i \in 1..(idx - at) : at + i - 1 \in Places /\ at + i - 1 < idx
    BY <1>1 DEF Places
  <2>2. \A i \in 1..(idx - at) : buffer[at + i - 1] \in AnyChar
    BY <1>1, <2>1 DEF InBuffer
  <2>3. idx - at \in Nat
    BY <1>1
  <2> QED
    BY <2>2, <2>3
<1>3. /\ Pending \in Seq(AnyChar)
      /\ Len(Pending) = (idx - at) + (IF held = NUL THEN 0 ELSE 1)
      /\ \A k \in 1..(idx - at) : Pending[k] = buffer[at + k - 1]
      /\ held # NUL => Pending[(idx - at) + 1] = held
  <2>1. Pending = IF held = NUL THEN stored ELSE Append(stored, held)
    BY DEF Pending
  <2>2. \A k \in 1..(idx - at) : stored[k] = buffer[at + k - 1]
    OBVIOUS
  <2> HIDE DEF stored, AnyChar
  <2>3. held \in AnyChar
    BY <1>1 DEF AnyChar
  <2> QED
    BY <1>2, <2>1, <2>2, <2>3
<1>4. sent \in Seq(AnyChar) /\ printed \in Seq(AnyChar)
  BY <1>1
<1> HIDE DEF AnyChar, stored
<1>5. Len(sent \o Pending) = Len(printed) /\ sent \o Pending \in Seq(AnyChar)
  <2>1. Len(sent \o Pending) = Len(sent) + Len(Pending) /\ sent \o Pending \in Seq(AnyChar)
    BY <1>3, <1>4, ConcatProperties
  <2>2. Len(printed) = Len(sent) + (idx - at) + (IF held = NUL THEN 0 ELSE 1)
    BY <1>1 DEF OnTheWire
  <2>3. Len(sent) \in Nat /\ idx - at \in Nat
    BY <1>1, <1>4
  <2> QED
    BY <1>3, <2>1, <2>2, <2>3
<1>6. ASSUME NEW k \in 1..Len(printed) PROVE (sent \o Pending)[k] = printed[k]
  <2>1. Len(sent) \in Nat /\ Len(printed) \in Nat /\ idx - at \in Nat
    BY <1>1, <1>4
  <2>2. CASE k <= Len(sent)
    BY <1>1, <1>3, <1>4, <2>1, <2>2 DEF OnTheWire
  <2>3. CASE k > Len(sent)
    <3>1. (sent \o Pending)[k] = Pending[k - Len(sent)]
      BY <1>3, <1>4, <1>5, <2>1, <2>3
    <3>2. CASE k - Len(sent) <= idx - at
      <4>1. k - Len(sent) \in 1..(idx - at) /\ Len(sent) + (k - Len(sent)) = k
        BY <2>1, <2>3, <3>2
      <4> QED
        BY <1>1, <1>3, <3>1, <4>1 DEF OnTheWire
    <3>3. CASE k - Len(sent) > idx - at
      <4>1. Len(printed) = Len(sent) + (idx - at) + (IF held = NUL THEN 0 ELSE 1)
        BY <1>1 DEF OnTheWire
      <4>2. held # NUL /\ k = Len(printed) /\ k - Len(sent) = (idx - at) + 1
        BY <2>1, <3>3, <4>1
      <4> QED
        BY <1>1, <1>3, <3>1, <4>2 DEF OnTheWire
    <3>4. k - Len(sent) <= idx - at \/ k - Len(sent) > idx - at
      BY <2>1
    <3> QED
      BY <3>2, <3>3, <3>4
  <2>4. k <= Len(sent) \/ k > Len(sent)
    BY <2>1
  <2> QED
    BY <2>2, <2>3, <2>4
<1> QED
  BY <1>4, <1>5, <1>6, SeqEqual
-----------------------------------------------------------------------------
(* Numbers *)

\* Induction on the naturals,
LEMMA InductionOn ==
    ASSUME NEW S \in SUBSET Nat, 0 \in S, \A n \in S : n + 1 \in S
    PROVE  \A n \in Nat : n \in S
<1> DEFINE out == Nat \ S
<1> SUFFICES ASSUME out # {} PROVE FALSE
  OBVIOUS
<1>1. PICK x \in out : \A y \in out : ~ (<<y, x>> \in OpToRel(<, Nat))
  BY NatLessThanWellFounded, WFMin
<1>2. x \in Nat /\ x \notin S /\ \A y \in out : ~ (y < x)
  BY <1>1 DEF OpToRel
<1>3. x # 0 /\ x - 1 \in Nat /\ x - 1 < x /\ (x - 1) + 1 = x
  BY <1>2
<1>4. x - 1 \in S
  BY <1>2, <1>3
<1> QED
  BY <1>2, <1>3, <1>4

\* and from all smaller ones.
LEMMA InductionBelow ==
    ASSUME NEW S \in SUBSET Nat, \A n \in Nat : (\A m \in Nat : m < n => m \in S) => n \in S
    PROVE  \A n \in Nat : n \in S
<1> DEFINE B == {n \in Nat : \A m \in Nat : m < n => m \in S}
<1>1. B \in SUBSET Nat /\ 0 \in B
  OBVIOUS
<1>2. ASSUME NEW n \in B PROVE n + 1 \in B
  <2>1. n \in Nat /\ n \in S /\ \A m \in Nat : m < n => m \in S
    OBVIOUS
  <2>2. \A m \in Nat : m < n + 1 => m < n \/ m = n
    BY <2>1
  <2> QED
    BY <2>1, <2>2
<1>3. \A n \in Nat : n \in B
  <2> HIDE DEF B
  <2> QED
    BY <1>1, <1>2, InductionOn
<1> QED
  BY <1>3

\* f gives the powers of b, up to N.
Powers(f, N, b) == f = [k \in 0..N |-> IF k = 0 THEN 1 ELSE b * f[k - 1]]

LEMMA PowersAt ==
    ASSUME NEW f, NEW N \in Nat, NEW b \in Nat, Powers(f, N, b)
    PROVE  f[0] = 1 /\ \A k \in 1..N : f[k] = b * f[k - 1]
<1>1. f = [k \in 0..N |-> IF k = 0 THEN 1 ELSE b * f[k - 1]]
  BY DEF Powers
<1>2. \A k \in 0..N : f[k] = IF k = 0 THEN 1 ELSE b * f[k - 1]
  BY <1>1
<1> QED
  BY <1>2

LEMMA PowersExists ==
    ASSUME NEW b \in Nat
    PROVE  \A N \in Nat : \E f : Powers(f, N, b)
<1> DEFINE S == {N \in Nat : \E f : Powers(f, N, b)}
<1>1. 0 \in S
  <2>1. Powers([k \in 0..0 |-> 1], 0, b)
    BY DEF Powers
  <2> QED
    BY <2>1
<1>2. ASSUME NEW N \in S PROVE N + 1 \in S
  <2>1. PICK f : Powers(f, N, b)
    OBVIOUS
  <2>2. N \in Nat /\ f[0] = 1 /\ \A k \in 1..N : f[k] = b * f[k - 1]
    BY <2>1, PowersAt
  <2> DEFINE g == [k \in 0..(N + 1) |-> IF k = N + 1 THEN b * f[N] ELSE f[k]]
  <2>3. \A k \in 0..(N + 1) : g[k] = IF k = N + 1 THEN b * f[N] ELSE f[k]
    OBVIOUS
  <2>4. g = [k \in 0..(N + 1) |-> g[k]]
    OBVIOUS
  <2> HIDE DEF g, S
  <2>5. ASSUME NEW k \in 0..(N + 1) PROVE g[k] = IF k = 0 THEN 1 ELSE b * g[k - 1]
    <3>1. CASE k = N + 1
      <4>1. g[k] = b * f[N] /\ k # 0 /\ k - 1 = N /\ N \in 0..(N + 1) /\ N # N + 1
        BY <2>2, <2>3, <3>1
      <4> QED
        BY <2>3, <4>1
    <3>2. CASE k # N + 1 /\ k # 0
      <4>1. k \in 1..N /\ k - 1 \in 0..(N + 1) /\ k - 1 # N + 1
        BY <2>2, <3>2
      <4> QED
        BY <2>2, <2>3, <3>2, <4>1
    <3>3. CASE k = 0
      BY <2>2, <2>3, <3>3
    <3> QED
      BY <3>1, <3>2, <3>3
  <2>6. Powers(g, N + 1, b)
    BY <2>4, <2>5 DEF Powers
  <2> QED
    BY <2>2, <2>6 DEF S
<1> HIDE DEF S
<1>3. \A N \in Nat : N \in S
  <2>1. S \in SUBSET Nat
    BY DEF S
  <2> QED
    BY <1>1, <1>2, <2>1, InductionOn
<1> QED
  BY <1>3 DEF S

LEMMA PowersAlike ==
    ASSUME NEW b \in Nat, NEW N \in Nat, NEW M \in Nat, N <= M,
           NEW f, NEW g, Powers(f, N, b), Powers(g, M, b)
    PROVE  f[N] = g[N]
<1> DEFINE S == {n \in Nat : n <= N => f[n] = g[n]}
<1>1. f[0] = 1 /\ \A k \in 1..N : f[k] = b * f[k - 1]
  BY PowersAt
<1>2. g[0] = 1 /\ \A k \in 1..M : g[k] = b * g[k - 1]
  BY PowersAt
<1>3. ASSUME NEW n \in S PROVE n + 1 \in S
  <2>1. n \in Nat /\ (n <= N => f[n] = g[n])
    OBVIOUS
  <2>2. n + 1 <= N => n + 1 \in 1..N /\ n + 1 \in 1..M /\ (n + 1) - 1 = n /\ n <= N
    BY <2>1
  <2>3. n + 1 <= N => f[n + 1] = g[n + 1]
    BY <1>1, <1>2, <2>1, <2>2
  <2> QED
    BY <2>1, <2>3
<1>4. 0 \in S /\ S \in SUBSET Nat
  BY <1>1, <1>2
<1> HIDE DEF S
<1>5. N \in S
  BY <1>3, <1>4, InductionOn
<1> QED
  BY <1>5 DEF S

LEMMA PowerIs ==
    ASSUME NEW b \in Nat, NEW N \in Nat, NEW f, Powers(f, N, b)
    PROVE  Power(b, N) = f[N]
<1>1. PICK g : g = CHOOSE h : Powers(h, N, b)
  OBVIOUS
<1>2. Powers(g, N, b)
  BY <1>1
<1>3. Power(b, N) = g[N]
  BY <1>1 DEF Power, Powers
<1> QED
  BY <1>2, <1>3, PowersAlike

LEMMA PowerZero ==
    ASSUME NEW b \in Nat
    PROVE  Power(b, 0) = 1
<1>1. PICK f : Powers(f, 0, b)
  BY PowersExists
<1> QED
  BY <1>1, PowerIs, PowersAt

LEMMA PowerNext ==
    ASSUME NEW b \in Nat, NEW n \in Nat
    PROVE  Power(b, n + 1) = b * Power(b, n)
<1>1. PICK f : Powers(f, n + 1, b)
  BY PowersExists
<1>2. PICK g : Powers(g, n, b)
  BY PowersExists
<1>3. g[n] = f[n]
  BY <1>1, <1>2, PowersAlike
<1>4. Power(b, n + 1) = f[n + 1] /\ Power(b, n) = g[n]
  BY <1>1, <1>2, PowerIs
<1>5. f[n + 1] = b * f[n]
  BY <1>1, PowersAt
<1> QED
  BY <1>3, <1>4, <1>5

LEMMA PowerType ==
    ASSUME NEW b \in Nat \ {0}
    PROVE  \A n \in Nat : Power(b, n) \in Nat \ {0}
<1> DEFINE S == {n \in Nat : Power(b, n) \in Nat \ {0}}
<1>1. 0 \in S /\ S \in SUBSET Nat
  BY PowerZero
<1>2. ASSUME NEW n \in S PROVE n + 1 \in S
  <2>1. n + 1 \in Nat /\ Power(b, n + 1) = b * Power(b, n) /\ Power(b, n) \in Nat \ {0}
    BY PowerNext
  <2>2. \A p \in Nat \ {0} : b * p \in Nat \ {0}
    OBVIOUS
  <2> QED
    BY <2>1, <2>2
<1> HIDE DEF S
<1>3. \A n \in Nat : n \in S
  BY <1>1, <1>2, InductionOn
<1> QED
  BY <1>3 DEF S

LEMMA PowerOfSum ==
    ASSUME NEW b \in Nat \ {0}, NEW m \in Nat
    PROVE  \A n \in Nat : Power(b, m + n) = Power(b, m) * Power(b, n)
<1> DEFINE S == {n \in Nat : Power(b, m + n) = Power(b, m) * Power(b, n)}
<1>1. 0 \in S /\ S \in SUBSET Nat
  BY PowerZero, PowerType
<1>2. ASSUME NEW n \in S PROVE n + 1 \in S
  <2>1. n \in Nat /\ Power(b, m + n) = Power(b, m) * Power(b, n)
    OBVIOUS
  <2>2. PICK k \in Nat : k = m + n
    BY <2>1
  <2>3. Power(b, k + 1) = b * Power(b, k) /\ Power(b, n + 1) = b * Power(b, n)
    BY <2>1, PowerNext
  <2>4. PICK p \in Nat, q \in Nat : p = Power(b, m) /\ q = Power(b, n)
    BY <2>1, PowerType
  <2>5. b * (p * q) = p * (b * q)
    OBVIOUS
  <2>6. m + (n + 1) = k + 1
    BY <2>1, <2>2
  <2> QED
    BY <2>1, <2>2, <2>3, <2>4, <2>5, <2>6
<1> HIDE DEF S
<1>3. \A n \in Nat : n \in S
  BY <1>1, <1>2, InductionOn
<1> QED
  BY <1>3 DEF S

LEMMA Division ==
    ASSUME NEW n \in Int, NEW m \in Nat \ {0}
    PROVE  /\ n % m \in 0..(m - 1) /\ n % m \in Nat /\ n \div m \in Int
           /\ n = m * (n \div m) + (n % m)
OBVIOUS

\* What a number becomes when it grows by factors.
LEMMA ProductsGrow ==
    ASSUME NEW a \in Nat, NEW b \in Nat, NEW c \in Nat \ {0}, a < b
    PROVE  c * a + c <= c * b /\ c * a < c * b
<1>1. PICK d \in Nat : b = a + 1 + d
  <2>1. b - a - 1 \in Nat /\ b = a + 1 + (b - a - 1)
    OBVIOUS
  <2> QED
    BY <2>1
<1>2. c * b = c * a + c + c * d /\ c * d \in Nat
  BY <1>1
<1> QED
  BY <1>2

\* a and b differ by a multiple of m.
Congruent(a, b, m) == \E q \in Int : a - b = m * q

LEMMA CongruentBack ==
    ASSUME NEW a \in Int, NEW b \in Int, NEW m \in Int, Congruent(a, b, m)
    PROVE  Congruent(b, a, m)
<1>1. PICK q \in Int : a - b = m * q
  BY DEF Congruent
<1>2. -q \in Int /\ b - a = m * (-q)
  BY <1>1
<1> QED
  BY <1>2 DEF Congruent

LEMMA CongruentOn ==
    ASSUME NEW a \in Int, NEW b \in Int, NEW c \in Int, NEW m \in Int,
           Congruent(a, b, m), Congruent(b, c, m)
    PROVE  Congruent(a, c, m)
<1>1. PICK q \in Int : a - b = m * q
  BY DEF Congruent
<1>2. PICK r \in Int : b - c = m * r
  BY DEF Congruent
<1>3. m * (q + r) = m * q + m * r /\ q + r \in Int
  OBVIOUS
<1>4. a - c = m * (q + r)
  BY <1>1, <1>2, <1>3
<1> QED
  BY <1>3, <1>4 DEF Congruent

\* Modulo a multiple is modulo the number.
LEMMA CongruentLess ==
    ASSUME NEW a \in Int, NEW b \in Int, NEW m \in Int, NEW k \in Int, Congruent(a, b, m * k)
    PROVE  Congruent(a, b, m)
<1>1. PICK q \in Int : a - b = (m * k) * q
  BY DEF Congruent
<1>2. k * q \in Int /\ (m * k) * q = m * (k * q)
  OBVIOUS
<1> QED
  BY <1>1, <1>2 DEF Congruent

LEMMA CongruentSame ==
    ASSUME NEW m \in Nat \ {0}, NEW l \in Int, NEW a \in l..(l + m - 1), NEW b \in l..(l + m - 1),
           Congruent(a, b, m)
    PROVE  a = b
<1>1. PICK q \in Int : a - b = m * q
  BY DEF Congruent
<1>2. a - b < m /\ -m < a - b
  OBVIOUS
<1>3. q >= 1 => m * q >= m
  OBVIOUS
<1>4. q <= -1 => m * q <= -m
  OBVIOUS
<1>5. q = 0
  BY <1>1, <1>2, <1>3, <1>4
<1> QED
  BY <1>1, <1>5

LEMMA CongruentRemainder ==
    ASSUME NEW n \in Int, NEW m \in Nat \ {0}
    PROVE  Congruent(n % m, n, m)
<1>1. PICK q \in Int, r \in Nat : q = n \div m /\ r = n % m /\ n = m * q + r
  BY Division
<1>2. -q \in Int /\ r - n = m * (-q)
  BY <1>1
<1> QED
  BY <1>1, <1>2 DEF Congruent

LEMMA CongruentIs ==
    ASSUME NEW a \in Int, NEW b \in Int, NEW m \in Nat \ {0}
    PROVE  (a - b) % m = 0 <=> Congruent(a, b, m)
<1>1. PICK d \in Int : d = a - b
  OBVIOUS
<1>2. PICK q \in Int, r \in Nat : q = d \div m /\ r = d % m /\ d = m * q + r /\ r \in 0..(m - 1)
  BY Division
<1>3. ASSUME d % m = 0 PROVE Congruent(a, b, m)
  <2>1. a - b = m * q
    BY <1>1, <1>2, <1>3
  <2> QED
    BY <2>1 DEF Congruent
<1>4. ASSUME Congruent(a, b, m) PROVE d % m = 0
  <2>1. PICK p \in Int : a - b = m * p
    BY <1>4 DEF Congruent
  <2>2. PICK t \in Int : t = p - q
    OBVIOUS
  <2>3. r = m * t
    BY <1>1, <1>2, <2>1, <2>2
  <2>4. (t >= 1 => m * t >= m) /\ (t <= -1 => m * t <= -m)
    OBVIOUS
  <2>5. r = 0
    BY <1>2, <2>3, <2>4
  <2> QED
    BY <1>2, <2>5
<1> QED
  BY <1>1, <1>3, <1>4
-----------------------------------------------------------------------------
(* The value of a numeral *)

\* f gives the values of the beginnings of s, up to N.
Values(f, N, s, base) ==
    f = [n \in 0..N |-> IF n = 0 THEN 0 ELSE base * f[n - 1] + Digit(s[n])]

LEMMA ValuesAt ==
    ASSUME NEW f, NEW N \in Nat, NEW s, NEW base, Values(f, N, s, base)
    PROVE  f[0] = 0 /\ \A n \in 1..N : f[n] = base * f[n - 1] + Digit(s[n])
<1>1. f = [n \in 0..N |-> IF n = 0 THEN 0 ELSE base * f[n - 1] + Digit(s[n])]
  BY DEF Values
<1>2. \A n \in 0..N : f[n] = IF n = 0 THEN 0 ELSE base * f[n - 1] + Digit(s[n])
  BY <1>1
<1> QED
  BY <1>2

LEMMA ValuesExists ==
    ASSUME NEW s, NEW base
    PROVE  \A N \in Nat : \E f : Values(f, N, s, base)
<1> DEFINE S == {N \in Nat : \E f : Values(f, N, s, base)}
<1>1. 0 \in S
  <2>1. Values([n \in 0..0 |-> 0], 0, s, base)
    BY DEF Values
  <2> QED
    BY <2>1
<1>2. ASSUME NEW N \in S PROVE N + 1 \in S
  <2>1. PICK f : Values(f, N, s, base)
    OBVIOUS
  <2>2. N \in Nat /\ f[0] = 0 /\ \A n \in 1..N : f[n] = base * f[n - 1] + Digit(s[n])
    BY <2>1, ValuesAt
  <2> DEFINE last == base * f[N] + Digit(s[N + 1])
             g == [n \in 0..(N + 1) |-> IF n = N + 1 THEN last ELSE f[n]]
  <2>3. \A n \in 0..(N + 1) : g[n] = IF n = N + 1 THEN last ELSE f[n]
    OBVIOUS
  <2>4. g = [n \in 0..(N + 1) |-> g[n]]
    OBVIOUS
  <2> HIDE DEF g, S
  <2>5. ASSUME NEW n \in 0..(N + 1)
        PROVE  g[n] = IF n = 0 THEN 0 ELSE base * g[n - 1] + Digit(s[n])
    <3>1. CASE n = N + 1
      <4>1. g[n] = last /\ n # 0 /\ n - 1 = N /\ N \in 0..(N + 1) /\ N # N + 1
        BY <2>2, <2>3, <3>1
      <4>2. g[n - 1] = f[N]
        BY <2>3, <4>1
      <4> QED
        BY <3>1, <4>1, <4>2
    <3>2. CASE n # N + 1 /\ n # 0
      <4>1. n \in 1..N /\ n - 1 \in 0..(N + 1) /\ n - 1 # N + 1
        BY <2>2, <3>2
      <4> HIDE DEF last
      <4>2. g[n] = f[n] /\ g[n - 1] = f[n - 1]
        BY <2>3, <3>2, <4>1
      <4> QED
        BY <2>2, <3>2, <4>1, <4>2
    <3>3. CASE n = 0
      BY <2>2, <2>3, <3>3
    <3> QED
      BY <3>1, <3>2, <3>3
  <2>6. Values(g, N + 1, s, base)
    BY <2>4, <2>5 DEF Values
  <2> QED
    BY <2>2, <2>6 DEF S
<1> HIDE DEF S
<1>3. \A N \in Nat : N \in S
  <2>1. S \in SUBSET Nat
    BY DEF S
  <2> QED
    BY <1>1, <1>2, <2>1, InductionOn
<1> QED
  BY <1>3 DEF S

LEMMA ValuesAlike ==
    ASSUME NEW base, NEW N \in Nat, NEW M \in Nat, N <= M, NEW s, NEW t, NEW f, NEW g,
           Values(f, N, s, base), Values(g, M, t, base), \A n \in 1..N : s[n] = t[n]
    PROVE  f[N] = g[N]
<1> DEFINE S == {n \in Nat : n <= N => f[n] = g[n]}
<1>1. f[0] = 0 /\ \A n \in 1..N : f[n] = base * f[n - 1] + Digit(s[n])
  BY ValuesAt
<1>2. g[0] = 0 /\ \A n \in 1..M : g[n] = base * g[n - 1] + Digit(t[n])
  BY ValuesAt
<1>3. ASSUME NEW n \in S PROVE n + 1 \in S
  <2>1. n \in Nat /\ (n <= N => f[n] = g[n])
    OBVIOUS
  <2>2. ASSUME n + 1 <= N PROVE f[n + 1] = g[n + 1]
    <3>1. PICK k \in 1..N : k = n + 1 /\ k \in 1..M /\ k - 1 = n
      BY <2>1, <2>2
    <3>2. f[k] = base * f[k - 1] + Digit(s[k])
      BY <1>1
    <3>3. g[k] = base * g[k - 1] + Digit(t[k])
      BY <1>2, <3>1
    <3>4. f[k - 1] = g[k - 1] /\ s[k] = t[k]
      BY <2>1, <2>2, <3>1
    <3> QED
      BY <3>1, <3>2, <3>3, <3>4
  <2> QED
    BY <2>1, <2>2
<1>4. 0 \in S /\ S \in SUBSET Nat
  BY <1>1, <1>2
<1> HIDE DEF S
<1>5. N \in S
  BY <1>3, <1>4, InductionOn
<1> QED
  BY <1>5 DEF S

LEMMA ValueIs ==
    ASSUME NEW s, NEW base, Len(s) \in Nat, NEW f, Values(f, Len(s), s, base)
    PROVE  ValueOf(s, base) = f[Len(s)]
<1>1. PICK g : g = CHOOSE h : Values(h, Len(s), s, base)
  OBVIOUS
<1>2. Values(g, Len(s), s, base)
  BY <1>1
<1>3. ValueOf(s, base) = g[Len(s)]
  BY <1>1 DEF ValueOf, Values
<1>4. PICK N \in Nat : N = Len(s)
  OBVIOUS
<1>5. g[N] = f[N]
  BY <1>2, <1>4, ValuesAlike
<1> QED
  BY <1>3, <1>4, <1>5

LEMMA ValueNone ==
    ASSUME NEW s, NEW base, Len(s) = 0
    PROVE  ValueOf(s, base) = 0
<1>1. PICK f : Values(f, 0, s, base)
  BY ValuesExists
<1> QED
  BY <1>1, ValueIs, ValuesAt

LEMMA OneIn ==
    ASSUME NEW S, NEW x \in S
    PROVE  <<x>> \in Seq(S) /\ Len(<<x>>) = 1 /\ <<x>>[1] = x
OBVIOUS

\* A sequence and one thing more.
LEMMA OneMore ==
    ASSUME NEW S, NEW s \in Seq(S), NEW c \in S
    PROVE  /\ s \o <<c>> \in Seq(S) /\ Len(s \o <<c>>) = Len(s) + 1
           /\ \A i \in 1..Len(s) : (s \o <<c>>)[i] = s[i]
           /\ (s \o <<c>>)[Len(s) + 1] = c
<1>1. PICK t : t = <<c>> /\ t \in Seq(S) /\ Len(t) = 1 /\ t[1] = c
  BY OneIn
<1>2. /\ s \o t \in Seq(S) /\ Len(s \o t) = Len(s) + Len(t)
      /\ \A i \in 1..Len(s) + Len(t) : (s \o t)[i] = IF i <= Len(s) THEN s[i] ELSE t[i - Len(s)]
  BY <1>1, ConcatProperties
<1>3. Len(s) \in Nat
  OBVIOUS
<1>4. PICK n \in Nat : n = Len(s)
  BY <1>3
<1>5. \A i \in 1..n : i \in 1..(n + Len(t)) /\ i <= n
  BY <1>1, <1>4
<1>6. n + 1 \in 1..(n + Len(t)) /\ ~(n + 1 <= n) /\ (n + 1) - n = 1
  BY <1>1, <1>4
<1>7. (s \o t)[n + 1] = t[1]
  BY <1>2, <1>4, <1>6
<1> QED
  BY <1>1, <1>2, <1>4, <1>5, <1>7

\* The value of a numeral with one digit more.
LEMMA ValueNext ==
    ASSUME NEW S, NEW s \in Seq(S), NEW c \in S, NEW base
    PROVE  ValueOf(s \o <<c>>, base) = base * ValueOf(s, base) + Digit(c)
<1>1. PICK n \in Nat : n = Len(s)
  OBVIOUS
<1>2. PICK t : t = s \o <<c>>
  OBVIOUS
<1>3. Len(t) = n + 1 /\ (\A i \in 1..n : t[i] = s[i]) /\ t[n + 1] = c
  BY <1>1, <1>2, OneMore
<1>4. PICK f : Values(f, n, s, base)
  BY ValuesExists
<1>5. n + 1 \in Nat
  OBVIOUS
<1>6. PICK g : Values(g, n + 1, t, base)
  BY <1>5, ValuesExists
<1>7. f[n] = g[n]
  BY <1>3, <1>4, <1>5, <1>6, ValuesAlike
<1>8. ValueOf(s, base) = f[n] /\ ValueOf(t, base) = g[n + 1]
  BY <1>1, <1>3, <1>4, <1>5, <1>6, ValueIs
<1>9. n + 1 \in 1..(n + 1) /\ (n + 1) - 1 = n
  OBVIOUS
<1>10. g[n + 1] = base * g[n] + Digit(t[n + 1])
  BY <1>5, <1>6, <1>9, ValuesAt
<1> QED
  BY <1>2, <1>3, <1>7, <1>8, <1>10

LEMMA DigitType == \A c \in Nat : Digit(c) \in Nat
<1> SUFFICES ASSUME NEW c \in Nat PROVE Digit(c) \in Nat
  OBVIOUS
<1>1. c \in 48..57 => c - 48 \in Nat
  OBVIOUS
<1>2. c \in 97..102 => c - 87 \in Nat
  OBVIOUS
<1> QED
  BY <1>1, <1>2 DEF Digit
-----------------------------------------------------------------------------
(* The digits of a number *)

LEMMA QuotientSmaller ==
    ASSUME NEW base \in Nat, base > 1, NEW m \in Nat \ {0}
    PROVE  m \div base \in Nat /\ m \div base < m
<1>1. PICK q \in Int, r \in Nat : q = m \div base /\ m = base * q + r /\ r < base
  BY Division
<1>2. q <= -1 => base * q <= -base
  OBVIOUS
<1>3. q >= 0
  BY <1>1, <1>2
<1>4. q >= 1 => base * q >= 2 * q
  BY <1>1
<1> QED
  BY <1>1, <1>3, <1>4

\* f gives the digits of the numbers up to N.
Reversals(f, N, base) ==
    f = [m \in 0..N |-> IF m = 0 THEN <<>> ELSE <<m % base>> \o f[m \div base]]

LEMMA ReversalsAt ==
    ASSUME NEW f, NEW N \in Nat, NEW base, Reversals(f, N, base)
    PROVE  f[0] = <<>> /\ \A m \in 1..N : f[m] = <<m % base>> \o f[m \div base]
<1>1. f = [m \in 0..N |-> IF m = 0 THEN <<>> ELSE <<m % base>> \o f[m \div base]]
  BY DEF Reversals
<1>2. \A m \in 0..N : f[m] = IF m = 0 THEN <<>> ELSE <<m % base>> \o f[m \div base]
  BY <1>1
<1>3. 0 \in 0..N /\ \A m \in 1..N : m \in 0..N /\ m # 0
  OBVIOUS
<1>4. f[0] = <<>>
  BY <1>2, <1>3
<1>5. ASSUME NEW m \in 1..N PROVE f[m] = <<m % base>> \o f[m \div base]
  BY <1>2, <1>3
<1> QED
  BY <1>4, <1>5

LEMMA ReversalsExists ==
    ASSUME NEW base \in Nat, base > 1
    PROVE  \A N \in Nat : \E f : Reversals(f, N, base)
<1> DEFINE S == {N \in Nat : \E f : Reversals(f, N, base)}
<1>1. 0 \in S
  <2>1. Reversals([m \in 0..0 |-> <<>>], 0, base)
    BY DEF Reversals
  <2> QED
    BY <2>1
<1>2. ASSUME NEW N \in S PROVE N + 1 \in S
  <2>1. PICK f : Reversals(f, N, base)
    OBVIOUS
  <2>2. N \in Nat /\ f[0] = <<>> /\ \A m \in 1..N : f[m] = <<m % base>> \o f[m \div base]
    BY <2>1, ReversalsAt
  <2>3. PICK last : last = <<(N + 1) % base>> \o f[(N + 1) \div base]
    OBVIOUS
  <2> DEFINE g == [m \in 0..(N + 1) |-> IF m = N + 1 THEN last ELSE f[m]]
  <2>4. \A m \in 0..(N + 1) : g[m] = IF m = N + 1 THEN last ELSE f[m]
    OBVIOUS
  <2>5. g = [m \in 0..(N + 1) |-> g[m]]
    OBVIOUS
  <2> HIDE DEF g, S
  <2>6. ASSUME NEW m \in 0..(N + 1)
        PROVE  g[m] = IF m = 0 THEN <<>> ELSE <<m % base>> \o g[m \div base]
    <3>1. CASE m = 0
      BY <2>2, <2>4, <3>1
    <3>2. CASE m # 0
      <4>1. m \in Nat \ {0}
        BY <2>2, <3>2
      <4>2. PICK k \in Nat : k = m \div base /\ k < m
        BY <4>1, QuotientSmaller
      <4>3. k \in 0..(N + 1) /\ k # N + 1
        BY <2>2, <4>1, <4>2
      <4>4. g[k] = f[k]
        BY <2>4, <4>3
      <4>5. CASE m = N + 1
        <5>1. g[m] = last
          BY <2>4, <4>5
        <5> QED
          BY <2>3, <3>2, <4>2, <4>4, <4>5, <5>1
      <4>6. CASE m # N + 1
        <5>1. g[m] = f[m] /\ m \in 1..N
          BY <2>2, <2>4, <4>1, <4>6
        <5> QED
          BY <2>2, <3>2, <4>2, <4>4, <5>1
      <4> QED
        BY <4>5, <4>6
    <3> QED
      BY <3>1, <3>2
  <2>7. Reversals(g, N + 1, base)
    BY <2>5, <2>6 DEF Reversals
  <2> QED
    BY <2>2, <2>7 DEF S
<1> HIDE DEF S
<1>3. \A N \in Nat : N \in S
  <2>1. S \in SUBSET Nat
    BY DEF S
  <2> QED
    BY <1>1, <1>2, <2>1, InductionOn
<1> QED
  BY <1>3 DEF S

LEMMA ReversalsAlike ==
    ASSUME NEW base \in Nat, base > 1, NEW N \in Nat, NEW M \in Nat, NEW f, NEW g,
           Reversals(f, N, base), Reversals(g, M, base)
    PROVE  \A m \in Nat : m <= N /\ m <= M => f[m] = g[m]
<1> DEFINE S == {m \in Nat : m <= N /\ m <= M => f[m] = g[m]}
<1>1. f[0] = <<>> /\ \A m \in 1..N : f[m] = <<m % base>> \o f[m \div base]
  BY ReversalsAt
<1>2. g[0] = <<>> /\ \A m \in 1..M : g[m] = <<m % base>> \o g[m \div base]
  BY ReversalsAt
<1>3. ASSUME NEW m \in Nat, \A k \in Nat : k < m => k \in S PROVE m \in S
  <2> SUFFICES ASSUME m <= N, m <= M PROVE f[m] = g[m]
    OBVIOUS
  <2>1. CASE m = 0
    BY <1>1, <1>2, <2>1
  <2>2. CASE m # 0
    <3>1. m \in Nat \ {0} /\ m \in 1..N /\ m \in 1..M
      BY <2>2
    <3>2. PICK k \in Nat : k = m \div base /\ k < m
      BY <3>1, QuotientSmaller
    <3>3. k \in S /\ k <= N /\ k <= M
      BY <1>3, <3>1, <3>2
    <3>4. f[k] = g[k]
      BY <3>3
    <3> HIDE DEF S
    <3>5. f[m] = <<m % base>> \o f[k] /\ g[m] = <<m % base>> \o g[k]
      BY <1>1, <1>2, <3>1, <3>2
    <3> QED
      BY <3>4, <3>5
  <2> QED
    BY <2>1, <2>2
<1>4. S \in SUBSET Nat
  OBVIOUS
<1> HIDE DEF S
<1>5. \A m \in Nat : m \in S
  BY <1>3, <1>4, InductionBelow
<1> QED
  BY <1>5 DEF S

LEMMA ReversedIs ==
    ASSUME NEW base \in Nat, base > 1, NEW n \in Nat, NEW N \in Nat, n <= N,
           NEW f, Reversals(f, N, base)
    PROVE  Reversed(n, base) = f[n]
<1>1. PICK g : g = CHOOSE h : Reversals(h, n, base)
  OBVIOUS
<1>2. Reversals(g, n, base)
  BY <1>1, ReversalsExists
<1>3. Reversed(n, base) = g[n]
  BY <1>1 DEF Reversed, Reversals
<1>4. g[n] = f[n]
  BY <1>2, ReversalsAlike
<1> QED
  BY <1>3, <1>4

LEMMA ReversedNone ==
    ASSUME NEW base \in Nat, base > 1
    PROVE  Reversed(0, base) = <<>>
<1>1. PICK f : Reversals(f, 0, base)
  BY ReversalsExists
<1>2. f[0] = <<>>
  BY <1>1, ReversalsAt
<1>3. PICK z \in Nat : z = 0
  OBVIOUS
<1>4. Reversed(z, base) = f[z]
  BY <1>1, <1>3, ReversedIs
<1> QED
  BY <1>2, <1>3, <1>4

LEMMA ReversedNext ==
    ASSUME NEW base \in Nat, base > 1, NEW n \in Nat \ {0}
    PROVE  Reversed(n, base) = <<n % base>> \o Reversed(n \div base, base)
<1>1. PICK f : Reversals(f, n, base)
  BY ReversalsExists
<1>2. PICK k \in Nat : k = n \div base /\ k < n
  BY QuotientSmaller
<1>3. n \in 1..n /\ n <= n /\ k <= n
  BY <1>2
<1>4. f[n] = <<n % base>> \o f[k]
  BY <1>1, <1>2, <1>3, ReversalsAt
<1>5. Reversed(n, base) = f[n] /\ Reversed(k, base) = f[k]
  BY <1>1, <1>3, ReversedIs
<1> QED
  BY <1>2, <1>4, <1>5

LEMMA ReversedType ==
    ASSUME NEW base \in Nat, base > 1
    PROVE  \A n \in Nat : Reversed(n, base) \in Seq(0..(base - 1))
<1> DEFINE S == {n \in Nat : Reversed(n, base) \in Seq(0..(base - 1))}
<1>1. ASSUME NEW n \in Nat, \A k \in Nat : k < n => k \in S PROVE n \in S
  <2>1. CASE n = 0
    BY <2>1, ReversedNone, EmptySeq
  <2>2. CASE n # 0
    <3>1. n \in Nat \ {0}
      BY <2>2
    <3>2. PICK k \in Nat : k = n \div base /\ k < n
      BY <3>1, QuotientSmaller
    <3>3. Reversed(k, base) \in Seq(0..(base - 1))
      BY <1>1, <3>2
    <3>4. PICK D : D = 0..(base - 1)
      OBVIOUS
    <3>5. n % base \in D
      <4>1. base \in Nat \ {0} /\ n \in Int
        OBVIOUS
      <4> QED
        BY <3>4, <4>1, Division
    <3>6. <<n % base>> \in Seq(D)
      BY <3>5, OneIn
    <3>7. Reversed(n, base) \in Seq(D)
      BY <3>1, <3>2, <3>3, <3>4, <3>6, ReversedNext, ConcatProperties
    <3> QED
      BY <3>4, <3>7
  <2> QED
    BY <2>1, <2>2
<1>2. S \in SUBSET Nat
  OBVIOUS
<1> HIDE DEF S
<1>3. \A n \in Nat : n \in S
  BY <1>1, <1>2, InductionBelow
<1> QED
  BY <1>3 DEF S

\* Reversing
LEMMA ReverseIs ==
    ASSUME NEW S, NEW s \in Seq(S)
    PROVE  /\ Reverse(s) \in Seq(S) /\ Len(Reverse(s)) = Len(s)
           /\ \A i \in 1..Len(s) : Reverse(s)[i] = s[(Len(s) - i) + 1]
<1>1. PICK n \in Nat : n = Len(s)
  OBVIOUS
<1>2. \A i \in 1..n : (n - i) + 1 \in 1..n
  OBVIOUS
<1>3. PICK t : t = [i \in 1..n |-> s[(n - i) + 1]]
  OBVIOUS
<1>4. \A i \in 1..n : t[i] = s[(n - i) + 1]
  BY <1>3
<1>5. \A i \in 1..n : s[(n - i) + 1] \in S
  BY <1>1, <1>2, ElementOfSeq
<1>6. t \in [1..n -> S]
  BY <1>3, <1>5
<1>7. t \in Seq(S) /\ Len(t) = n
  BY <1>6
<1>8. Reverse(s) = t
  BY <1>1, <1>3 DEF Reverse
<1> QED
  BY <1>1, <1>4, <1>7, <1>8

LEMMA ReverseOfConcat ==
    ASSUME NEW S, NEW s \in Seq(S), NEW t \in Seq(S)
    PROVE  Reverse(s \o t) = Reverse(t) \o Reverse(s)
<1>1. PICK m \in Nat, n \in Nat : m = Len(s) /\ n = Len(t)
  OBVIOUS
<1>2. PICK u : u = s \o t
  OBVIOUS
<1>3. /\ u \in Seq(S) /\ Len(u) = m + n
      /\ \A i \in 1..(m + n) : u[i] = IF i <= m THEN s[i] ELSE t[i - m]
  BY <1>1, <1>2, ConcatProperties
<1>4. PICK a : a = Reverse(s)
  OBVIOUS
<1>5. a \in Seq(S) /\ Len(a) = m /\ \A i \in 1..m : a[i] = s[(m - i) + 1]
  BY <1>1, <1>4, ReverseIs
<1>6. PICK b : b = Reverse(t)
  OBVIOUS
<1>7. b \in Seq(S) /\ Len(b) = n /\ \A i \in 1..n : b[i] = t[(n - i) + 1]
  BY <1>1, <1>6, ReverseIs
<1>8. PICK r : r = Reverse(u)
  OBVIOUS
<1>9. r \in Seq(S) /\ Len(r) = m + n /\ \A i \in 1..(m + n) : r[i] = u[((m + n) - i) + 1]
  <2>1. u \in Seq(S) /\ Len(u) = m + n
    BY <1>3
  <2>2. r \in Seq(S) /\ Len(r) = Len(u) /\ \A i \in 1..Len(u) : r[i] = u[(Len(u) - i) + 1]
    BY <1>8, <2>1, ReverseIs
  <2> QED
    BY <2>1, <2>2
<1>10. PICK w : w = b \o a
  OBVIOUS
<1>11. /\ w \in Seq(S) /\ Len(w) = n + m
       /\ \A i \in 1..(n + m) : w[i] = IF i <= n THEN b[i] ELSE a[i - n]
  <2>1. a \in Seq(S) /\ b \in Seq(S) /\ Len(a) = m /\ Len(b) = n
    BY <1>5, <1>7
  <2>2. /\ b \o a \in Seq(S) /\ Len(b \o a) = Len(b) + Len(a)
        /\ \A i \in 1..Len(b) + Len(a) : (b \o a)[i] = IF i <= Len(b) THEN b[i] ELSE a[i - Len(b)]
    BY <2>1, ConcatProperties, Zenon
  <2> QED
    BY <1>10, <2>1, <2>2
<1>12. ASSUME NEW i \in 1..(m + n) PROVE r[i] = w[i]
  <2>1. ((m + n) - i) + 1 \in 1..(m + n) /\ i \in 1..(n + m)
    OBVIOUS
  <2>2. CASE i <= n
    <3>1. i \in 1..n /\ ~(((m + n) - i) + 1 <= m) /\ (((m + n) - i) + 1) - m = (n - i) + 1
      BY <2>2
    <3>2. r[i] = t[(n - i) + 1]
      BY <1>3, <1>9, <2>1, <3>1
    <3>3. w[i] = b[i]
      BY <1>11, <2>1, <2>2
    <3> QED
      BY <1>7, <3>1, <3>2, <3>3
  <2>3. CASE ~(i <= n)
    <3>1. i - n \in 1..m /\ ((m + n) - i) + 1 <= m /\ ((m + n) - i) + 1 = (m - (i - n)) + 1
      BY <2>3
    <3>2. r[i] = s[(m - (i - n)) + 1]
      BY <1>3, <1>9, <2>1, <3>1
    <3>3. w[i] = a[i - n]
      BY <1>11, <2>1, <2>3
    <3> QED
      BY <1>5, <3>1, <3>2, <3>3
  <2> QED
    BY <2>2, <2>3
<1>13. Len(r) = Len(w) /\ \A i \in 1..Len(r) : r[i] = w[i]
  BY <1>9, <1>11, <1>12
<1>14. r = w
  BY <1>9, <1>11, <1>13, SeqEqual
<1> QED
  BY <1>2, <1>4, <1>6, <1>8, <1>10, <1>14

LEMMA ReverseOfOne ==
    ASSUME NEW S, NEW c \in S
    PROVE  Reverse(<<c>>) = <<c>>
<1>1. PICK s : s = <<c>> /\ s \in Seq(S) /\ Len(s) = 1 /\ s[1] = c
  BY OneIn
<1>2. PICK r : r = Reverse(s)
  OBVIOUS
<1>3. r \in Seq(S) /\ Len(r) = 1 /\ r[1] = s[(1 - 1) + 1]
  BY <1>1, <1>2, ReverseIs
<1>4. Len(r) = Len(s) /\ \A i \in 1..Len(r) : r[i] = s[i]
  BY <1>1, <1>3
<1>5. r = s
  BY <1>1, <1>3, <1>4, SeqEqual
<1> QED
  BY <1>1, <1>2, <1>5

\* Sequences that agree in length and elements
LEMMA ReverseOfNone == Reverse(<<>>) = <<>>
<1>1. PICK e : e = <<>> /\ e \in Seq(Nat) /\ Len(e) = 0
  BY EmptySeq
<1>2. Reverse(e) \in Seq(Nat) /\ Len(Reverse(e)) = 0
  BY <1>1, ReverseIs
<1>3. Reverse(e) = <<>>
  BY <1>2, EmptySeq
<1> QED
  BY <1>1, <1>3

LEMMA CharsKnown ==
    /\ PERCENT \in Chars /\ MINUS \in Chars /\ POINT \in Chars /\ LetterX \in Chars
    /\ \A c \in 48..57 : c \in Chars
    /\ \A c \in 97..102 : c \in Chars
    /\ \A c \in Chars : c \in Nat
<1>1. {PERCENT, MINUS, POINT, LetterX} \union 48..57 \union 97..102 \subseteq Chars
  BY MessagesAssumption
<1>2. Chars \subseteq 1..127
  BY Sizes
<1>3. \A c \in Chars : c \in Nat
  BY <1>2
<1> QED
  BY <1>1, <1>3

LEMMA ZerosAre ==
    ASSUME NEW k \in Nat
    PROVE  /\ Zeros(k) \in Seq(Chars) /\ Len(Zeros(k)) = k
           /\ \A i \in 1..k : Zeros(k)[i] = ZERO
<1>1. ZERO \in Chars
  BY CharsKnown DEF ZERO
<1>2. PICK z : z = [i \in 1..k |-> ZERO]
  OBVIOUS
<1>3. z \in [1..k -> Chars] /\ \A i \in 1..k : z[i] = ZERO
  BY <1>1, <1>2
<1>4. z \in Seq(Chars) /\ Len(z) = k
  BY <1>3
<1> QED
  BY <1>2, <1>3, <1>4 DEF Zeros

LEMMA ReverseOfZeros ==
    ASSUME NEW k \in Nat
    PROVE  Reverse(Zeros(k)) = Zeros(k)
<1>1. PICK z : z = Zeros(k) /\ z \in Seq(Chars) /\ Len(z) = k /\ \A i \in 1..k : z[i] = ZERO
  BY ZerosAre
<1>2. PICK r : r = Reverse(z)
  OBVIOUS
<1>3. r \in Seq(Chars) /\ Len(r) = k /\ \A i \in 1..k : r[i] = z[(k - i) + 1]
  BY <1>1, <1>2, ReverseIs
<1>4. \A i \in 1..k : (k - i) + 1 \in 1..k
  OBVIOUS
<1>5. Len(r) = Len(z) /\ \A i \in 1..Len(r) : r[i] = z[i]
  BY <1>1, <1>3, <1>4
<1>6. r = z
  BY <1>1, <1>3, <1>5, SeqEqual
<1> QED
  BY <1>1, <1>2, <1>6

\* The characters of digits
Text(ds) == [i \in DOMAIN ds |-> DigitChar(ds[i])]

\* Bases whose digits there are characters for
Bases == 2..16

LEMMA DigitCharIs ==
    ASSUME NEW d \in 0..15
    PROVE  DigitChar(d) \in Chars /\ Digit(DigitChar(d)) = d /\ (DigitChar(d) = 48 => d = 0)
           /\ DigitChar(d) # 45
<1>1. CASE d >= 10
  <2>1. PICK c \in 97..102 : c = 97 + d - 10 /\ c \notin 48..57
    BY <1>1
  <2>2. DigitChar(d) = c
    BY <1>1, <2>1 DEF DigitChar, LetterA
  <2>3. Digit(c) = d
    BY <2>1 DEF Digit
  <2> QED
    BY <2>1, <2>2, <2>3, CharsKnown
<1>2. CASE ~(d >= 10)
  <2>1. PICK c \in 48..57 : c = 48 + d
    BY <1>2
  <2>2. DigitChar(d) = c
    BY <1>2, <2>1 DEF DigitChar, ZERO
  <2>3. Digit(c) = d
    BY <2>1 DEF Digit
  <2> QED
    BY <2>1, <2>2, <2>3, CharsKnown
<1> QED
  BY <1>1, <1>2

LEMMA TextIs ==
    ASSUME NEW ds \in Seq(0..15)
    PROVE  /\ Text(ds) \in Seq(Chars) /\ Len(Text(ds)) = Len(ds)
           /\ \A i \in 1..Len(ds) : Text(ds)[i] = DigitChar(ds[i])
<1>1. PICK n \in Nat : n = Len(ds) /\ DOMAIN ds = 1..n
  OBVIOUS
<1>2. PICK t : t = [i \in 1..n |-> DigitChar(ds[i])]
  OBVIOUS
<1>3. \A i \in 1..n : DigitChar(ds[i]) \in Chars
  BY <1>1, ElementOfSeq, DigitCharIs
<1>4. t \in [1..n -> Chars] /\ \A i \in 1..n : t[i] = DigitChar(ds[i])
  BY <1>2, <1>3
<1>5. t \in Seq(Chars) /\ Len(t) = n
  BY <1>4
<1> QED
  BY <1>1, <1>2, <1>4, <1>5 DEF Text

LEMMA TextOfMore ==
    ASSUME NEW d \in 0..15, NEW ds \in Seq(0..15)
    PROVE  Text(<<d>> \o ds) = <<DigitChar(d)>> \o Text(ds)
<1>1. PICK o : o = <<d>> /\ o \in Seq(0..15) /\ Len(o) = 1 /\ o[1] = d
  BY OneIn
<1>2. PICK n \in Nat : n = Len(ds)
  OBVIOUS
<1>3. PICK e : e = o \o ds
  OBVIOUS
<1>4. /\ e \in Seq(0..15) /\ Len(e) = 1 + n
      /\ \A i \in 1..(1 + n) : e[i] = IF i <= 1 THEN o[i] ELSE ds[i - 1]
  BY <1>1, <1>2, <1>3, ConcatProperties
<1>5. PICK c : c = DigitChar(d) /\ c \in Chars
  BY DigitCharIs
<1>6. PICK p : p = <<c>> /\ p \in Seq(Chars) /\ Len(p) = 1 /\ p[1] = c
  BY <1>5, OneIn
<1>7. PICK t : t = Text(ds) /\ t \in Seq(Chars) /\ Len(t) = n
               /\ \A i \in 1..n : t[i] = DigitChar(ds[i])
  BY <1>2, TextIs
<1>8. PICK w : w = p \o t
  OBVIOUS
<1>9. /\ w \in Seq(Chars) /\ Len(w) = 1 + n
      /\ \A i \in 1..(1 + n) : w[i] = IF i <= 1 THEN p[i] ELSE t[i - 1]
  BY <1>6, <1>7, <1>8, ConcatProperties
<1>10. PICK u : u = Text(e) /\ u \in Seq(Chars) /\ Len(u) = 1 + n
                /\ \A i \in 1..(1 + n) : u[i] = DigitChar(e[i])
  BY <1>4, TextIs
<1>11. ASSUME NEW i \in 1..(1 + n) PROVE u[i] = w[i]
  <2>1. CASE i <= 1
    <3>1. i = 1
      BY <2>1
    <3>2. u[i] = DigitChar(o[1]) /\ w[i] = p[1]
      BY <1>4, <1>9, <1>10, <3>1
    <3> QED
      BY <1>1, <1>5, <1>6, <3>2
  <2>2. CASE ~(i <= 1)
    <3>1. i - 1 \in 1..n
      BY <2>2
    <3>2. e[i] = ds[i - 1] /\ w[i] = t[i - 1] /\ u[i] = DigitChar(e[i])
      BY <1>4, <1>9, <1>10, <2>2
    <3>3. t[i - 1] = DigitChar(ds[i - 1])
      BY <1>7, <3>1
    <3> QED
      BY <3>2, <3>3
  <2> QED
    BY <2>1, <2>2
<1>12. Len(u) = Len(w) /\ \A i \in 1..Len(u) : u[i] = w[i]
  BY <1>9, <1>10, <1>11
<1>13. u = w
  BY <1>9, <1>10, <1>12, SeqEqual
<1> QED
  BY <1>1, <1>3, <1>5, <1>6, <1>7, <1>8, <1>10, <1>13

\* A number as it is written, the first digit first; nothing for 0.
Written(u, base) == Reverse(Text(Reversed(u, base)))

LEMMA WrittenNone ==
    ASSUME NEW base \in Bases
    PROVE  Written(0, base) = <<>>
<1>1. Reversed(0, base) = <<>>
  BY ReversedNone DEF Bases
<1>2. PICK e : e = <<>> /\ e \in Seq(0..15) /\ Len(e) = 0
  BY EmptySeq
<1>3. Text(e) \in Seq(Chars) /\ Len(Text(e)) = 0
  BY <1>2, TextIs
<1>4. Text(e) = <<>>
  BY <1>3, EmptySeq
<1> QED
  BY <1>1, <1>2, <1>4, ReverseOfNone DEF Written

LEMMA DigitsOf ==
    ASSUME NEW base \in Bases
    PROVE  \A u \in Nat : Reversed(u, base) \in Seq(0..15)
<1> TAKE u \in Nat
<1>1. PICK D : D = 0..(base - 1)
  OBVIOUS
<1>2. base \in Nat /\ base > 1 /\ D \subseteq 0..15
  BY <1>1 DEF Bases
<1>3. Reversed(u, base) \in Seq(D)
  BY <1>1, <1>2, ReversedType
<1> QED
  BY <1>2, <1>3, SeqMonotonic

LEMMA WrittenType ==
    ASSUME NEW base \in Bases
    PROVE  \A u \in Nat : Written(u, base) \in Seq(Chars)
<1> TAKE u \in Nat
<1>1. Text(Reversed(u, base)) \in Seq(Chars)
  BY DigitsOf, TextIs
<1> QED
  BY <1>1, ReverseIs DEF Written

LEMMA WrittenNext ==
    ASSUME NEW base \in Bases, NEW n \in Nat \ {0}
    PROVE  /\ n % base \in 0..15 /\ n % base < base /\ n \div base \in Nat /\ n \div base < n
           /\ n = base * (n \div base) + (n % base)
           /\ Written(n, base) = Written(n \div base, base) \o <<DigitChar(n % base)>>
<1>1. base \in Nat \ {0} /\ base > 1 /\ base <= 16
  BY DEF Bases
<1>2. PICK d \in 0..15 : d = n % base /\ d < base /\ n = base * (n \div base) + d
  <2>1. n % base \in 0..(base - 1) /\ n = base * (n \div base) + (n % base)
    BY <1>1, Division
  <2>2. 0..(base - 1) \subseteq 0..15 /\ \A d \in 0..(base - 1) : d < base
    BY <1>1
  <2> QED
    BY <2>1, <2>2
<1>3. PICK k \in Nat : k = n \div base /\ k < n
  BY <1>1, QuotientSmaller
<1>4. Reversed(n, base) = <<d>> \o Reversed(k, base)
  BY <1>1, <1>2, <1>3, ReversedNext
<1>5. PICK r \in Seq(0..15) : r = Reversed(k, base)
  BY DigitsOf
<1>6. PICK c \in Chars : c = DigitChar(d)
  BY DigitCharIs
<1>7. PICK o \in Seq(Chars) : o = <<c>> /\ Reverse(o) = o
  BY OneIn, ReverseOfOne
<1>8. Text(Reversed(n, base)) = o \o Text(r)
  BY <1>4, <1>5, <1>6, <1>7, TextOfMore
<1>9. Text(r) \in Seq(Chars)
  BY TextIs
<1>10. Written(n, base) = Reverse(Text(r)) \o o
  BY <1>7, <1>8, <1>9, ReverseOfConcat DEF Written
<1> QED
  BY <1>2, <1>3, <1>5, <1>6, <1>7, <1>10 DEF Written

LEMMA ValueType ==
    ASSUME NEW base \in Bases, NEW s \in Seq(Chars)
    PROVE  ValueOf(s, base) \in Nat
<1>1. PICK n \in Nat : n = Len(s)
  OBVIOUS
<1>2. PICK f : Values(f, n, s, base)
  BY ValuesExists
<1>3. f[0] = 0 /\ \A i \in 1..n : f[i] = base * f[i - 1] + Digit(s[i])
  BY <1>2, ValuesAt
<1>4. \A i \in 1..n : Digit(s[i]) \in Nat
  BY <1>1, ElementOfSeq, CharsKnown, DigitType
<1> DEFINE S == {i \in Nat : i <= n => f[i] \in Nat}
<1>5. ASSUME NEW i \in S PROVE i + 1 \in S
  <2>1. i + 1 <= n => i + 1 \in 1..n /\ (i + 1) - 1 = i /\ i <= n
    OBVIOUS
  <2>2. base \in Nat
    BY DEF Bases
  <2>3. \A v \in Nat, d \in Nat : base * v + d \in Nat
    BY <2>2
  <2>4. i + 1 <= n => f[i + 1] = base * f[i] + Digit(s[i + 1]) /\ Digit(s[i + 1]) \in Nat /\ f[i] \in Nat
    BY <1>3, <1>4, <2>1
  <2>5. i + 1 <= n => f[i + 1] \in Nat
    <3> SUFFICES ASSUME i + 1 <= n PROVE f[i + 1] \in Nat
      OBVIOUS
    <3>1. PICK v \in Nat, d \in Nat : v = f[i] /\ d = Digit(s[i + 1])
      BY <2>4
    <3>2. f[i + 1] = base * v + d
      BY <2>4, <3>1
    <3> QED
      BY <2>3, <3>2
  <2>6. i + 1 \in Nat
    OBVIOUS
  <2> QED
    BY <2>5, <2>6
<1>6. 0 \in S /\ S \in SUBSET Nat
  BY <1>3
<1> HIDE DEF S
<1>7. n \in S
  BY <1>5, <1>6, InductionOn
<1>8. f[n] \in Nat
  BY <1>7 DEF S
<1> QED
  BY <1>1, <1>2, <1>8, ValueIs

\* The number u behind a numeral s moves it to the left.
LEMMA WrittenFollows ==
    ASSUME NEW base \in Bases, NEW s \in Seq(Chars)
    PROVE  \A u \in Nat : /\ Len(Written(u, base)) \in Nat
                          /\ ValueOf(s \o Written(u, base), base)
                                = ValueOf(s, base) * Power(base, Len(Written(u, base))) + u
<1> DEFINE L(u) == Len(Written(u, base))
           V(u) == ValueOf(s \o Written(u, base), base)
           S == {u \in Nat : V(u) = ValueOf(s, base) * Power(base, L(u)) + u}
<1>1. PICK b \in Nat \ {0} : b = base
  BY DEF Bases
<1>2. PICK v \in Nat : v = ValueOf(s, base)
  BY ValueType
<1>3. \A u \in Nat : L(u) \in Nat
  BY WrittenType, LenProperties
<1>4. ASSUME NEW u \in Nat, \A k \in Nat : k < u => k \in S PROVE u \in S
  <2>1. CASE u = 0
    <3>1. PICK e : e = <<>> /\ e = Written(u, base)
      BY <2>1, WrittenNone
    <3>2. s \o e = s /\ Len(e) = 0
      BY <3>1, ConcatEmptySeq, EmptySeq
    <3>3. Power(b, 0) = 1
      BY PowerZero
    <3>4. V(u) = v /\ Power(base, L(u)) = 1
      BY <1>1, <1>2, <3>1, <3>2, <3>3
    <3>5. v = v * 1 + u
      BY <2>1
    <3> QED
      BY <1>2, <3>4, <3>5
  <2>2. CASE u # 0
    <3>1. PICK k \in Nat, d \in 0..15 :
             /\ k < u /\ u = base * k + d
             /\ Written(u, base) = Written(k, base) \o <<DigitChar(d)>>
      BY <2>2, WrittenNext
    <3>2. PICK w \in Seq(Chars) : w = Written(k, base)
      BY WrittenType
    <3>3. PICK c \in Chars : c = DigitChar(d) /\ Digit(c) = d
      BY DigitCharIs
    <3>4. PICK o \in Seq(Chars) : o = <<c>>
      BY OneIn
    <3>5. s \o (w \o o) = (s \o w) \o o
      BY ConcatAssociative
    <3>6. PICK t \in Seq(Chars) : t = s \o w
      BY ConcatProperties
    <3>7. ValueOf(t \o <<c>>, base) = base * ValueOf(t, base) + Digit(c)
      BY ValueNext
    <3>8. V(u) = base * V(k) + d
      BY <3>1, <3>2, <3>3, <3>4, <3>5, <3>6, <3>7
    <3>9. Len(w \o <<c>>) = Len(w) + 1
      BY OneMore
    <3>10. PICK n \in Nat : n = L(k) /\ L(u) = n + 1
      BY <1>3, <3>1, <3>2, <3>3, <3>9
    <3>11. PICK p \in Nat : p = Power(b, n) /\ Power(b, n + 1) = b * p
      BY PowerNext, PowerType
    <3>12. k \in S
      BY <1>4, <3>1
    <3>13. V(k) = v * p + k
      BY <1>1, <1>2, <3>10, <3>11, <3>12
    <3> HIDE DEF S, V, L
    <3>14. b * (v * p + k) + d = v * (b * p) + (b * k + d)
      OBVIOUS
    <3>15. V(u) = v * Power(base, L(u)) + u
      BY <1>1, <3>1, <3>8, <3>10, <3>11, <3>13, <3>14
    <3> QED
      BY <1>2, <3>15 DEF S
  <2> QED
    BY <2>1, <2>2
<1>5. S \in SUBSET Nat
  OBVIOUS
<1> HIDE DEF S
<1>6. \A u \in Nat : u \in S
  BY <1>4, <1>5, InductionBelow
<1> QED
  BY <1>3, <1>6 DEF S

LEMMA ZerosNext ==
    ASSUME NEW k \in Nat
    PROVE  Zeros(k + 1) = Zeros(k) \o <<ZERO>>
<1>1. PICK z \in Seq(Chars) : z = Zeros(k) /\ Len(z) = k /\ \A i \in 1..k : z[i] = ZERO
  BY ZerosAre
<1>2. k + 1 \in Nat /\ ZERO \in Chars
  BY CharsKnown DEF ZERO
<1>3. PICK y \in Seq(Chars) : y = Zeros(k + 1) /\ Len(y) = k + 1 /\ \A i \in 1..(k + 1) : y[i] = ZERO
  BY <1>2, ZerosAre
<1>4. PICK x : x = z \o <<ZERO>>
  OBVIOUS
<1>5. /\ x \in Seq(Chars) /\ Len(x) = k + 1
      /\ (\A i \in 1..k : x[i] = z[i]) /\ x[k + 1] = ZERO
  BY <1>1, <1>2, <1>4, OneMore
<1>6. \A i \in 1..(k + 1) : i \in 1..k \/ i = k + 1
  OBVIOUS
<1>7. Len(x) = Len(y) /\ \A i \in 1..Len(x) : x[i] = y[i]
  BY <1>1, <1>3, <1>5, <1>6
<1>8. x = y
  BY <1>3, <1>5, <1>7, SeqEqual
<1> QED
  BY <1>1, <1>3, <1>4, <1>8

\* Zeros behind a numeral move it to the left, too.
LEMMA ZerosFollow ==
    ASSUME NEW base \in Bases, NEW s \in Seq(Chars)
    PROVE  \A k \in Nat : ValueOf(s \o Zeros(k), base) = ValueOf(s, base) * Power(base, k)
<1> DEFINE V(k) == ValueOf(s \o Zeros(k), base)
           S == {k \in Nat : V(k) = ValueOf(s, base) * Power(base, k)}
<1>1. PICK b \in Nat \ {0} : b = base
  BY DEF Bases
<1>2. PICK v \in Nat : v = ValueOf(s, base)
  BY ValueType
<1>3. 0 \in S
  <2>1. PICK z \in Seq(Chars) : z = Zeros(0) /\ Len(z) = 0
    BY ZerosAre
  <2>2. z = <<>>
    BY <2>1, EmptySeq
  <2>3. s \o z = s
    BY <2>2, ConcatEmptySeq
  <2>4. Power(b, 0) = 1 /\ v * 1 = v
    BY PowerZero
  <2> QED
    BY <1>1, <1>2, <2>1, <2>3, <2>4
<1>4. ASSUME NEW k \in S PROVE k + 1 \in S
  <2>1. k \in Nat /\ k + 1 \in Nat
    OBVIOUS
  <2>2. PICK p \in Nat : p = Power(b, k) /\ Power(b, k + 1) = b * p
    BY <2>1, PowerNext, PowerType
  <2>3. V(k) = v * p
    BY <1>1, <1>2, <2>2
  <2>4. PICK z \in Seq(Chars) : z = Zeros(k)
    BY <2>1, ZerosAre
  <2>5. ZERO \in Chars /\ Digit(ZERO) = 0
    BY CharsKnown DEF ZERO, Digit
  <2>6. PICK o \in Seq(Chars) : o = <<ZERO>>
    BY <2>5, OneIn
  <2>7. s \o (z \o o) = (s \o z) \o o
    BY ConcatAssociative
  <2>8. PICK t \in Seq(Chars) : t = s \o z
    BY ConcatProperties
  <2>9. ValueOf(t \o <<ZERO>>, base) = base * ValueOf(t, base) + 0
    BY <2>5, ValueNext
  <2>10. Zeros(k + 1) = z \o o
    BY <2>1, <2>4, <2>6, ZerosNext
  <2>11. V(k + 1) = base * V(k) + 0
    BY <2>4, <2>6, <2>7, <2>8, <2>9, <2>10
  <2> HIDE DEF S, V
  <2>12. b * (v * p) + 0 = v * (b * p)
    OBVIOUS
  <2>13. V(k + 1) = v * Power(base, k + 1)
    BY <1>1, <2>2, <2>3, <2>11, <2>12
  <2> QED
    BY <1>2, <2>1, <2>13 DEF S
<1>5. S \in SUBSET Nat
  OBVIOUS
<1> HIDE DEF S
<1>6. \A k \in Nat : k \in S
  BY <1>3, <1>4, <1>5, InductionOn
<1> QED
  BY <1>6 DEF S

LEMMA ZerosValue ==
    ASSUME NEW base \in Bases, NEW k \in Nat
    PROVE  ValueOf(Zeros(k), base) = 0
<1>1. PICK e \in Seq(Chars) : e = <<>> /\ Len(e) = 0
  BY EmptySeq
<1>2. PICK z \in Seq(Chars) : z = Zeros(k)
  BY ZerosAre
<1>3. e \o z = z
  BY <1>1, ConcatEmptySeq
<1>4. ValueOf(e, base) = 0
  BY <1>1, ValueNone
<1>5. ValueOf(e \o z, base) = ValueOf(e, base) * Power(base, k)
  BY <1>2, ZerosFollow
<1>6. PICK p \in Nat : p = Power(base, k)
  <2>1. base \in Nat \ {0}
    BY DEF Bases
  <2> QED
    BY <2>1, PowerType
<1>7. 0 * p = 0
  OBVIOUS
<1> QED
  BY <1>2, <1>3, <1>4, <1>5, <1>6, <1>7

\* Every character is a digit of the base.
Digits(s, base) == \A i \in 1..Len(s) : Digit(s[i]) < base

\* What is written has digits, and does not begin with 0.
LEMMA WrittenDigits ==
    ASSUME NEW base \in Bases
    PROVE  \A u \in Nat : /\ Digits(Written(u, base), base)
                          /\ u # 0 => Len(Written(u, base)) > 0 /\ Written(u, base)[1] # 48
<1> DEFINE S == {u \in Nat : /\ Digits(Written(u, base), base)
                             /\ u # 0 => Len(Written(u, base)) > 0 /\ Written(u, base)[1] # 48}
<1>1. ASSUME NEW u \in Nat, \A k \in Nat : k < u => k \in S PROVE u \in S
  <2>1. CASE u = 0
    <3>1. PICK e : e = <<>> /\ e = Written(u, base) /\ Len(e) = 0
      BY <2>1, WrittenNone, EmptySeq
    <3> QED
      BY <2>1, <3>1 DEF Digits
  <2>2. CASE u # 0
    <3>1. PICK k \in Nat, d \in 0..15 :
             /\ k < u /\ u = base * k + d /\ d < base
             /\ Written(u, base) = Written(k, base) \o <<DigitChar(d)>>
      BY <2>2, WrittenNext
    <3>2. PICK w \in Seq(Chars) : w = Written(k, base)
      BY WrittenType
    <3>3. PICK c \in Chars : c = DigitChar(d) /\ Digit(c) = d /\ (c = 48 => d = 0)
      BY DigitCharIs
    <3>4. PICK n \in Nat : n = Len(w)
      OBVIOUS
    <3>5. PICK x : x = w \o <<c>>
      OBVIOUS
    <3>6. Len(x) = n + 1 /\ (\A i \in 1..n : x[i] = w[i]) /\ x[n + 1] = c
      BY <3>4, <3>5, OneMore
    <3>7. Digits(w, base) /\ (k # 0 => Len(w) > 0 /\ w[1] # 48)
      BY <1>1, <3>1, <3>2
    <3> HIDE DEF S
    <3>8. \A i \in 1..(n + 1) : i \in 1..n \/ i = n + 1
      BY <3>4
    <3>9. Digits(x, base)
      BY <3>1, <3>3, <3>4, <3>6, <3>7, <3>8 DEF Digits
    <3>10. CASE k # 0
      <4>1. n > 0 /\ w[1] # 48 /\ 1 \in 1..n
        BY <3>4, <3>7, <3>10
      <4>2. Len(x) > 0 /\ x[1] # 48
        BY <3>6, <4>1
      <4> QED
        BY <3>1, <3>2, <3>3, <3>5, <3>9, <4>2 DEF S
    <3>11. CASE k = 0
      <4>1. PICK e : e = <<>> /\ e = w /\ Len(e) = 0
        BY <3>2, <3>11, WrittenNone, EmptySeq
      <4>2. n = 0 /\ n + 1 = 1
        BY <3>4, <4>1
      <4>3. base * 0 = 0
        BY DEF Bases
      <4>4. d # 0
        BY <2>2, <3>1, <3>11, <4>3
      <4>5. Len(x) > 0 /\ x[1] # 48
        BY <3>3, <3>6, <4>2, <4>4
      <4> QED
        BY <3>1, <3>2, <3>3, <3>5, <3>9, <4>5 DEF S
    <3> QED
      BY <3>10, <3>11
  <2> QED
    BY <2>1, <2>2
<1>2. S \in SUBSET Nat
  OBVIOUS
<1> HIDE DEF S
<1>3. \A u \in Nat : u \in S
  BY <1>1, <1>2, InductionBelow
<1> QED
  BY <1>3 DEF S

\* How many digits a number has
LEMMA WrittenLength ==
    ASSUME NEW base \in Bases
    PROVE  \A n \in Nat : \A u \in Nat :
               Power(base, n) <= u /\ u < Power(base, n + 1) => Len(Written(u, base)) = n + 1
<1> DEFINE Q(n) == \A u \in Nat :
                Power(base, n) <= u /\ u < Power(base, n + 1) => Len(Written(u, base)) = n + 1
           S == {n \in Nat : Q(n)}
<1>1. PICK b \in Nat \ {0} : b = base /\ b > 1
  BY DEF Bases
<1>2. \A n \in Nat : Power(b, n) \in Nat \ {0} /\ Power(b, n + 1) = b * Power(b, n)
  BY PowerType, PowerNext
<1>3. Power(b, 0) = 1
  BY PowerZero
\* the digit in front, if there is one, and the rest
<1>4. ASSUME NEW u \in Nat \ {0}
      PROVE  \E k \in Nat, d \in Nat : /\ u = b * k + d /\ d < b
                                       /\ Len(Written(u, base)) = Len(Written(k, base)) + 1
  <2>1. PICK k \in Nat, d \in 0..15 :
           /\ u = base * k + d /\ d < base
           /\ Written(u, base) = Written(k, base) \o <<DigitChar(d)>>
    BY WrittenNext
  <2>2. PICK w \in Seq(Chars) : w = Written(k, base)
    BY WrittenType
  <2>3. PICK c \in Chars : c = DigitChar(d)
    BY DigitCharIs
  <2>4. Len(w \o <<c>>) = Len(w) + 1
    BY OneMore
  <2>5. d \in Nat
    OBVIOUS
  <2> QED
    BY <1>1, <2>1, <2>2, <2>3, <2>4, <2>5
<1>5. 0 \in S
  <2>1. ASSUME NEW u \in Nat, 1 <= u, u < b PROVE Len(Written(u, base)) = 1
    <3>1. PICK k \in Nat, d \in Nat : /\ u = b * k + d /\ d < b
                                      /\ Len(Written(u, base)) = Len(Written(k, base)) + 1
      <4>1. u \in Nat \ {0}
        BY <2>1
      <4> QED
        BY <1>4, <4>1
    <3>2. k >= 1 => b * k >= b
      OBVIOUS
    <3>3. k = 0
      BY <2>1, <3>1, <3>2
    <3>4. PICK e : e = <<>> /\ e = Written(k, base) /\ Len(e) = 0
      BY <3>3, WrittenNone, EmptySeq
    <3> QED
      BY <3>1, <3>4
  <2>2. Power(base, 0) = 1 /\ Power(base, 0 + 1) = b
    BY <1>1, <1>2, <1>3
  <2> QED
    BY <2>1, <2>2
<1>6. ASSUME NEW n \in S PROVE n + 1 \in S
  <2>1. n \in Nat /\ n + 1 \in Nat /\ Q(n)
    OBVIOUS
  <2>2. PICK p \in Nat, q \in Nat : p = Power(b, n) /\ q = Power(b, n + 1) /\ q = b * p
    BY <1>2, <2>1
  <2>3. Power(b, n + 1) = q /\ Power(b, (n + 1) + 1) = b * q
    BY <1>2, <2>1, <2>2
  <2>4. ASSUME NEW u \in Nat, b * p <= u, u < b * q PROVE Len(Written(u, base)) = (n + 1) + 1
    <3>1. p # 0
      BY <1>2, <2>1, <2>2
    <3>2. u # 0
      BY <2>2, <2>4, <3>1
    <3>3. PICK k \in Nat, d \in Nat : /\ u = b * k + d /\ d < b
                                      /\ Len(Written(u, base)) = Len(Written(k, base)) + 1
      BY <1>4, <3>2
    <3>4. p <= k
      <4>1. k < p => b * k + b <= b * p
        BY ProductsGrow
      <4>2. b * k \in Nat /\ b * p \in Nat
        OBVIOUS
      <4> QED
        BY <2>4, <3>3, <4>1, <4>2
    <3>5. k < q
      <4>1. q < k => b * q < b * k
        BY ProductsGrow
      <4>2. b * k \in Nat /\ b * q \in Nat
        OBVIOUS
      <4> QED
        BY <2>4, <3>3, <4>1, <4>2
    <3>6. Len(Written(k, base)) = n + 1
      BY <1>1, <2>1, <2>2, <3>4, <3>5
    <3> QED
      BY <3>3, <3>6
  <2>5. Q(n + 1)
    BY <1>1, <2>2, <2>3, <2>4
  <2> QED
    BY <2>1, <2>5
<1>7. S \in SUBSET Nat
  OBVIOUS
<1> HIDE DEF S
<1>8. \A n \in Nat : n \in S
  BY <1>5, <1>6, <1>7, InductionOn
<1> QED
  BY <1>8 DEF S
-----------------------------------------------------------------------------
(* What a reader makes of a number *)

\* A reader takes s for u, with as many zeros in front as the precision says.
Reads(s, u, base, precision) ==
    /\ s \in Seq(Chars) /\ s # <<>> /\ Numeral(s, base) /\ Canonical(s, precision)
    /\ ValueOf(s, base) = u

LEMMA NumeralIs ==
    ASSUME NEW s \in Seq(Chars), NEW base, Len(s) > 0, Digits(s, base)
    PROVE  s # <<>> /\ Numeral(s, base)
<1>1. s # <<>>
  BY EmptySeq
<1>2. DOMAIN s = 1..Len(s)
  OBVIOUS
<1> QED
  BY <1>1, <1>2 DEF Numeral, Digits

LEMMA ZeroReads ==
    ASSUME NEW base \in Bases, NEW k \in Nat
    PROVE  Reads(<<ZERO>>, 0, base, k)
<1>1. ZERO \in Chars /\ ZERO = 48
  BY CharsKnown DEF ZERO
<1>2. PICK s \in Seq(Chars) : s = <<ZERO>> /\ Len(s) = 1 /\ s[1] = ZERO
  BY <1>1, OneIn
<1>3. PICK z \in Seq(Chars) : z = Zeros(1) /\ Len(z) = 1 /\ \A i \in 1..1 : z[i] = ZERO
  BY ZerosAre
<1>4. Len(s) = Len(z) /\ \A i \in 1..Len(s) : s[i] = z[i]
  BY <1>2, <1>3
<1>5. s = z
  BY <1>4, SeqEqual
<1>6. ValueOf(s, base) = 0
  BY <1>3, <1>5, ZerosValue
<1>7. Digit(ZERO) = 0 /\ 0 < base
  BY <1>1 DEF Digit, Bases
<1>8. Digits(s, base)
  BY <1>2, <1>7 DEF Digits
<1>9. s # <<>> /\ Numeral(s, base)
  BY <1>2, <1>8, NumeralIs
<1>10. Canonical(s, k)
  BY <1>1, <1>2 DEF Canonical
<1> QED
  BY <1>2, <1>6, <1>9, <1>10 DEF Reads

LEMMA PaddedReads ==
    ASSUME NEW base \in Bases, NEW k \in Nat, NEW u \in Nat \ {0}
    PROVE  Reads(Zeros(k) \o Written(u, base), u, base, k)
<1>1. PICK z \in Seq(Chars) : z = Zeros(k) /\ Len(z) = k /\ \A i \in 1..k : z[i] = ZERO
  BY ZerosAre
<1>2. PICK w \in Seq(Chars) : w = Written(u, base)
  BY WrittenType
<1>3. Digits(w, base) /\ Len(w) > 0 /\ w[1] # 48
  BY <1>2, WrittenDigits
<1>4. PICK n \in Nat : n = Len(w) /\ n > 0
  BY <1>3
<1>5. PICK s : s = z \o w
  OBVIOUS
<1>6. /\ s \in Seq(Chars) /\ Len(s) = k + n
      /\ \A i \in 1..(k + n) : s[i] = IF i <= k THEN z[i] ELSE w[i - k]
  <2>1. /\ z \o w \in Seq(Chars) /\ Len(z \o w) = Len(z) + Len(w)
        /\ \A i \in 1..Len(z) + Len(w) : (z \o w)[i] = IF i <= Len(z) THEN z[i] ELSE w[i - Len(z)]
    BY ConcatProperties, Zenon
  <2> QED
    BY <1>1, <1>4, <1>5, <2>1
<1>7. ValueOf(s, base) = u
  <2>1. PICK p \in Nat : p = Power(base, n)
    <3>1. base \in Nat \ {0}
      BY DEF Bases
    <3> QED
      BY <3>1, PowerType
  <2>2. ValueOf(z, base) = 0
    BY <1>1, ZerosValue
  <2>3. ValueOf(s, base) = ValueOf(z, base) * p + u
    BY <1>2, <1>4, <1>5, <2>1, WrittenFollows
  <2>4. 0 * p + u = u
    OBVIOUS
  <2> QED
    BY <2>2, <2>3, <2>4
<1>8. ASSUME NEW i \in 1..(k + n) PROVE Digit(s[i]) < base
  <2>1. CASE i <= k
    <3>1. s[i] = 48
      BY <1>1, <1>6, <2>1 DEF ZERO
    <3>2. Digit(48) < base
      BY DEF Digit, Bases
    <3> QED
      BY <3>1, <3>2
  <2>2. CASE ~(i <= k)
    <3>1. i - k \in 1..n /\ s[i] = w[i - k]
      BY <1>6, <2>2
    <3> QED
      BY <1>3, <1>4, <3>1 DEF Digits
  <2> QED
    BY <2>1, <2>2
<1>9. Digits(s, base) /\ Len(s) > 0
  BY <1>4, <1>6, <1>8 DEF Digits
<1>10. s # <<>> /\ Numeral(s, base)
  BY <1>6, <1>9, NumeralIs
<1>11. Canonical(s, k)
  <2>1. Len(s) > k
    BY <1>4, <1>6
  <2>2. k + 1 \in 1..(k + n) /\ ~(k + 1 <= k) /\ (k + 1) - k = 1
    BY <1>4
  <2>3. s[k + 1] = w[1]
    BY <1>6, <2>2
  <2>4. \A i \in 1..k : i \in 1..(k + n) /\ i <= k
    BY <1>4
  <2>5. \A i \in 1..k : s[i] = 48
    BY <1>1, <1>6, <2>4 DEF ZERO
  <2> QED
    BY <1>3, <2>1, <2>3, <2>5 DEF Canonical
<1>12. Reads(s, u, base, k)
  BY <1>6, <1>7, <1>10, <1>11 DEF Reads
<1> QED
  BY <1>1, <1>2, <1>5, <1>12

\* A sequence with a thing in front
LEMMA ConsIs ==
    ASSUME NEW S, NEW c \in S, NEW s \in Seq(S)
    PROVE  /\ <<c>> \o s \in Seq(S) /\ <<c>> \o s # <<>> /\ Len(<<c>> \o s) = Len(s) + 1
           /\ Head(<<c>> \o s) = c /\ Tail(<<c>> \o s) = s
           /\ (<<c>> \o s)[1] = c /\ \A i \in 1..Len(s) : (<<c>> \o s)[i + 1] = s[i]
<1>1. PICK o : o = <<c>> /\ o \in Seq(S) /\ Len(o) = 1 /\ o[1] = c
  BY OneIn
<1>2. PICK n \in Nat : n = Len(s)
  OBVIOUS
<1>3. PICK w : w = o \o s
  OBVIOUS
<1>4. /\ w \in Seq(S) /\ Len(w) = 1 + n
      /\ \A i \in 1..(1 + n) : w[i] = IF i <= 1 THEN o[i] ELSE s[i - 1]
  BY <1>1, <1>2, <1>3, ConcatProperties
<1>5. w[1] = c
  BY <1>1, <1>4
<1>6. ASSUME NEW i \in 1..n PROVE w[i + 1] = s[i]
  <2>1. i + 1 \in 1..(1 + n) /\ ~(i + 1 <= 1) /\ (i + 1) - 1 = i
    OBVIOUS
  <2> QED
    BY <1>4, <2>1
<1>7. w # <<>>
  BY <1>4, EmptySeq
<1>8. Tail(w) \in Seq(S) /\ Len(Tail(w)) = n /\ \A i \in 1..n : Tail(w)[i] = w[i + 1]
  <2>1. /\ Tail(w) \in Seq(S) /\ Len(Tail(w)) = Len(w) - 1
        /\ \A i \in 1..Len(Tail(w)) : Tail(w)[i] = w[i + 1]
    BY <1>4, <1>7, HeadTailProperties
  <2>2. Len(w) - 1 = n
    BY <1>4
  <2> QED
    BY <2>1, <2>2
<1>9. PICK t \in Seq(S) : t = Tail(w)
  BY <1>8
<1>10. Len(t) = Len(s) /\ \A i \in 1..Len(t) : t[i] = s[i]
  BY <1>2, <1>6, <1>8, <1>9
<1>11. t = s
  BY <1>10, SeqEqual
<1>12. Head(w) = w[1]
  BY <1>4, <1>7
<1> QED
  BY <1>1, <1>2, <1>3, <1>4, <1>5, <1>6, <1>7, <1>9, <1>11, <1>12

\* The text s of a number's size, with its sign
Minus(s, v) == IF v < 0 THEN <<MINUS>> \o s ELSE s

LEMMA NoMinus ==
    ASSUME NEW base \in Bases, NEW s \in Seq(Chars), s # <<>>, Numeral(s, base)
    PROVE  Head(s) # 45 /\ s[1] # 45
<1>1. 1 \in DOMAIN s
  BY EmptySeq, LenProperties
<1>2. Digit(s[1]) < base /\ base <= 16
  BY <1>1 DEF Numeral, Bases
<1>3. Digit(45) = 99
  BY DEF Digit
<1>4. s[1] # 45
  BY <1>2, <1>3 DEF Bases
<1> QED
  BY <1>4

LEMMA SignedReads ==
    ASSUME NEW base \in Bases, NEW k \in Nat, NEW v \in Int, NEW s,
           Reads(s, IF v < 0 THEN -v ELSE v, base, k)
    PROVE  Minus(s, v) \in Seq(Chars) /\ SignedNumeral(Minus(s, v), v, base, k)
<1>1. /\ s \in Seq(Chars) /\ s # <<>> /\ Numeral(s, base) /\ Canonical(s, k)
      /\ ValueOf(s, base) = IF v < 0 THEN -v ELSE v
  BY DEF Reads
<1>2. CASE v < 0
  <2>1. MINUS \in Chars /\ MINUS = 45
    BY CharsKnown DEF MINUS
  <2>2. PICK w : w = <<MINUS>> \o s
    OBVIOUS
  <2>3. /\ w \in Seq(Chars) /\ w # <<>> /\ Len(w) = Len(s) + 1
        /\ Head(w) = MINUS /\ Tail(w) = s
    BY <1>1, <2>1, <2>2, ConsIs
  <2>4. s # w
    <3>1. Len(s) \in Nat
      BY <1>1
    <3> QED
      BY <2>3, <3>1
  <2>5. (IF w # <<>> /\ Head(w) = 45 THEN Tail(w) ELSE w) = s
    BY <2>1, <2>3
  <2>6. ValueOf(s, base) = -v /\ v # 0
    BY <1>1, <1>2
  <2>7. SignedNumeral(w, v, base, k)
    BY <1>1, <2>4, <2>5, <2>6 DEF SignedNumeral
  <2> QED
    BY <1>2, <2>2, <2>3, <2>7 DEF Minus
<1>3. CASE ~(v < 0)
  <2>1. Head(s) # 45
    BY <1>1, NoMinus
  <2>2. (IF s # <<>> /\ Head(s) = 45 THEN Tail(s) ELSE s) = s
    BY <2>1
  <2>3. ValueOf(s, base) = v
    BY <1>1, <1>3
  <2>4. SignedNumeral(s, v, base, k)
    BY <1>1, <2>2, <2>3 DEF SignedNumeral
  <2> QED
    BY <1>1, <1>3, <2>4 DEF Minus
<1> QED
  BY <1>2, <1>3
-----------------------------------------------------------------------------
(* What is left of a number at a width *)

LEMMA WidthsAre ==
    /\ CharBits \in Nat \ {0} /\ ShortBits \in Nat \ {0} /\ IntBits \in Nat \ {0}
    /\ LongBits \in Nat \ {0}
    /\ CharBits < ShortBits /\ ShortBits < IntBits /\ IntBits < LongBits
BY WidthAssumption

LEMMA PowersOfTwo ==
    ASSUME NEW b \in Nat
    PROVE  /\ Power(2, b) \in Nat \ {0}
           /\ b # 0 => /\ b - 1 \in Nat /\ Power(2, b - 1) \in Nat \ {0}
                       /\ Power(2, b) = 2 * Power(2, b - 1)
<1>1. \A n \in Nat : Power(2, n) \in Nat \ {0}
  BY PowerType
<1>2. ASSUME b # 0
      PROVE  /\ b - 1 \in Nat /\ Power(2, b - 1) \in Nat \ {0}
             /\ Power(2, b) = 2 * Power(2, b - 1)
  <2>1. PICK a \in Nat : a = b - 1 /\ a + 1 = b
    BY <1>2
  <2>2. Power(2, a + 1) = 2 * Power(2, a)
    BY PowerNext
  <2> QED
    BY <1>1, <2>1, <2>2
<1> QED
  BY <1>1, <1>2

LEMMA PowersDivide ==
    ASSUME NEW a \in Nat, NEW b \in Nat, a <= b
    PROVE  \E k \in Nat \ {0} : Power(2, b) = Power(2, a) * k /\ Power(2, a) <= Power(2, b)
<1>1. PICK c \in Nat : b = a + c
  <2>1. b - a \in Nat /\ b = a + (b - a)
    OBVIOUS
  <2> QED
    BY <2>1
<1>2. Power(2, a + c) = Power(2, a) * Power(2, c)
  BY PowerOfSum
<1>3. PICK p \in Nat \ {0}, k \in Nat \ {0} : p = Power(2, a) /\ k = Power(2, c)
  BY PowersOfTwo
<1>4. p <= p * k
  <2>1. PICK j \in Nat : k = j + 1
    <3>1. k - 1 \in Nat /\ k = (k - 1) + 1
      OBVIOUS
    <3> QED
      BY <3>1
  <2>2. p * (j + 1) = p * j + p /\ p * j \in Nat
    OBVIOUS
  <2> QED
    BY <2>1, <2>2
<1> QED
  BY <1>1, <1>2, <1>3, <1>4

LEMMA UnsignedIs ==
    ASSUME NEW n \in Int, NEW b \in Nat
    PROVE  /\ Unsigned(n, b) \in 0..(Power(2, b) - 1) /\ Unsigned(n, b) \in Nat
           /\ Congruent(Unsigned(n, b), n, Power(2, b))
           /\ n \in 0..(Power(2, b) - 1) => Unsigned(n, b) = n
<1>1. PICK m \in Nat \ {0} : m = Power(2, b)
  BY PowersOfTwo
<1>2. PICK r \in Nat : r = n % m /\ r \in 0..(m - 1)
  BY Division
<1>3. Congruent(r, n, m)
  BY <1>2, CongruentRemainder
<1>4. Unsigned(n, b) = r
  BY <1>1, <1>2 DEF Unsigned
<1>5. ASSUME n \in 0..(m - 1) PROVE r = n
  <2>1. PICK l \in Int : l = 0 /\ l..(l + m - 1) = 0..(m - 1)
    OBVIOUS
  <2>2. r \in l..(l + m - 1) /\ n \in l..(l + m - 1)
    BY <1>2, <1>5, <2>1
  <2> QED
    BY <1>3, <2>2, CongruentSame
<1> QED
  BY <1>1, <1>2, <1>3, <1>4, <1>5

LEMMA SignedIs ==
    ASSUME NEW n \in Int, NEW b \in Nat \ {0}
    PROVE  /\ Signed(n, b) \in -Power(2, b - 1)..(Power(2, b - 1) - 1) /\ Signed(n, b) \in Int
           /\ Congruent(Signed(n, b), n, Power(2, b))
           /\ n \in -Power(2, b - 1)..(Power(2, b - 1) - 1) => Signed(n, b) = n
<1>1. PICK h \in Nat \ {0}, m \in Nat \ {0} :
         h = Power(2, b - 1) /\ m = Power(2, b) /\ m = 2 * h
  BY PowersOfTwo
<1>2. PICK x \in Int : x = n + h
  OBVIOUS
<1>3. PICK r \in Nat : r = x % m /\ r \in 0..(m - 1)
  BY Division
<1>4. Congruent(r, x, m)
  BY <1>3, CongruentRemainder
<1>5. PICK v \in Int : v = r - h /\ v \in -h..(h - 1)
  BY <1>1, <1>3
<1>6. Signed(n, b) = v
  BY <1>1, <1>2, <1>3, <1>5 DEF Signed
<1>7. Congruent(v, n, m)
  <2>1. PICK q \in Int : r - x = m * q
    BY <1>4 DEF Congruent
  <2>2. v - n = m * q
    BY <1>2, <1>5, <2>1
  <2> QED
    BY <2>2 DEF Congruent
<1>8. ASSUME n \in -h..(h - 1) PROVE v = n
  <2>1. PICK l \in Int : l = -h
    OBVIOUS
  <2>2. v \in l..(l + m - 1) /\ n \in l..(l + m - 1)
    BY <1>1, <1>5, <1>8, <2>1
  <2> QED
    BY <1>7, <2>2, CongruentSame
<1> QED
  BY <1>1, <1>5, <1>6, <1>7, <1>8

\* The width of a directive, and no wider than the conversions are.
Bits(w) == IF w > IntBits THEN IntBits ELSE w

\* The numbers of a width
Span(signed, b) == IF signed THEN -Power(2, b - 1)..(Power(2, b - 1) - 1)
                             ELSE 0..(Power(2, b) - 1)

LEMMA CongruentAtBits ==
    ASSUME NEW w \in Nat \ {0}, NEW x \in Int, NEW y \in Int, NEW n \in Int,
           Congruent(x, n, Power(2, w)), Congruent(y, x, Power(2, IntBits))
    PROVE  Congruent(y, n, Power(2, Bits(w)))
<1>1. PICK b \in Nat : b = Bits(w) /\ b <= w /\ b <= IntBits
  BY WidthsAre DEF Bits
<1>2. PICK m \in Nat \ {0} : m = Power(2, b)
  BY PowersOfTwo
<1>3. PICK k \in Nat \ {0} : Power(2, w) = m * k
  BY <1>1, <1>2, PowersDivide
<1>4. PICK j \in Nat \ {0} : Power(2, IntBits) = m * j
  BY <1>1, <1>2, WidthsAre, PowersDivide
<1>5. Congruent(x, n, m)
  <2>1. Congruent(x, n, m * k)
    BY <1>3
  <2>2. m \in Int /\ k \in Int
    OBVIOUS
  <2> QED
    BY <2>1, <2>2, CongruentLess, Zenon
<1>6. Congruent(y, x, m)
  <2>1. Congruent(y, x, m * j)
    BY <1>4
  <2>2. m \in Int /\ j \in Int
    OBVIOUS
  <2> QED
    BY <2>1, <2>2, CongruentLess, Zenon
<1>7. Congruent(y, n, m)
  BY <1>5, <1>6, CongruentOn
<1> QED
  BY <1>1, <1>2, <1>7

LEMMA UnsignedTwice ==
    ASSUME NEW n \in Int, NEW w \in Nat \ {0}
    PROVE  /\ Unsigned(Unsigned(n, w), IntBits) \in Nat
           /\ Unsigned(Unsigned(n, w), IntBits) \in Span(FALSE, Bits(w))
           /\ Congruent(Unsigned(Unsigned(n, w), IntBits), n, Power(2, Bits(w)))
<1>1. PICK x \in Nat : /\ x = Unsigned(n, w) /\ x \in 0..(Power(2, w) - 1)
                       /\ Congruent(x, n, Power(2, w))
  BY UnsignedIs
<1>2. PICK I \in Nat \ {0} : I = IntBits
  BY WidthsAre
<1>3. PICK y \in Nat : /\ y = Unsigned(x, I) /\ y \in 0..(Power(2, I) - 1)
                       /\ Congruent(y, x, Power(2, I))
                       /\ x \in 0..(Power(2, I) - 1) => y = x
  <2>1. x \in Int /\ I \in Nat
    OBVIOUS
  <2>2. /\ Unsigned(x, I) \in 0..(Power(2, I) - 1) /\ Unsigned(x, I) \in Nat
        /\ Congruent(Unsigned(x, I), x, Power(2, I))
        /\ x \in 0..(Power(2, I) - 1) => Unsigned(x, I) = x
    BY <2>1, UnsignedIs
  <2> QED
    BY <2>2
<1>4. Congruent(y, n, Power(2, Bits(w)))
  <2>1. x \in Int /\ y \in Int
    OBVIOUS
  <2>2. Congruent(x, n, Power(2, w)) /\ Congruent(y, x, Power(2, IntBits))
    BY <1>1, <1>2, <1>3
  <2> QED
    BY <2>1, <2>2, CongruentAtBits
<1>5. y \in 0..(Power(2, Bits(w)) - 1)
  <2>1. CASE w > I
    BY <1>2, <1>3, <2>1 DEF Bits
  <2>2. CASE ~(w > I)
    <3>1. w <= I
      BY <2>2
    <3>2. Power(2, w) <= Power(2, I) /\ Power(2, w) \in Nat /\ Power(2, I) \in Nat
      BY <3>1, PowersDivide, PowersOfTwo
    <3>3. x \in 0..(Power(2, I) - 1)
      BY <1>1, <3>2
    <3> QED
      BY <1>1, <1>2, <1>3, <2>2, <3>3 DEF Bits
  <2> QED
    BY <2>1, <2>2
<1> QED
  BY <1>1, <1>2, <1>3, <1>4, <1>5 DEF Span

LEMMA SignedTwice ==
    ASSUME NEW n \in Int, NEW w \in Nat \ {0}
    PROVE  /\ Signed(Signed(n, w), IntBits) \in Span(TRUE, Bits(w))
           /\ Signed(Signed(n, w), IntBits) \in Span(TRUE, IntBits)
           /\ Congruent(Signed(Signed(n, w), IntBits), n, Power(2, Bits(w)))
<1>1. PICK x \in Int : /\ x = Signed(n, w) /\ x \in -Power(2, w - 1)..(Power(2, w - 1) - 1)
                       /\ Congruent(x, n, Power(2, w))
  BY SignedIs
<1>2. PICK I \in Nat \ {0} : I = IntBits
  BY WidthsAre
<1>3. PICK y \in Int : /\ y = Signed(x, I) /\ y \in -Power(2, I - 1)..(Power(2, I - 1) - 1)
                       /\ Congruent(y, x, Power(2, I))
                       /\ x \in -Power(2, I - 1)..(Power(2, I - 1) - 1) => y = x
  BY SignedIs
<1>4. Congruent(y, n, Power(2, Bits(w)))
  <2>1. x \in Int /\ y \in Int
    OBVIOUS
  <2>2. Congruent(x, n, Power(2, w)) /\ Congruent(y, x, Power(2, IntBits))
    BY <1>1, <1>2, <1>3
  <2> QED
    BY <2>1, <2>2, CongruentAtBits
<1>5. y \in Span(TRUE, I)
  BY <1>3 DEF Span
<1>6. y \in -Power(2, Bits(w) - 1)..(Power(2, Bits(w) - 1) - 1)
  <2>1. CASE w > I
    BY <1>2, <1>3, <2>1 DEF Bits
  <2>2. CASE ~(w > I)
    <3>1. w - 1 \in Nat /\ I - 1 \in Nat /\ w - 1 <= I - 1
      BY <2>2
    <3>2. PICK g \in Nat, h \in Nat : g = Power(2, w - 1) /\ h = Power(2, I - 1) /\ g <= h
      BY <3>1, PowersDivide, PowersOfTwo
    <3>3. x \in -h..(h - 1)
      BY <1>1, <3>2
    <3> QED
      BY <1>1, <1>2, <1>3, <2>2, <3>2, <3>3 DEF Bits
  <2> QED
    BY <2>1, <2>2
<1> QED
  BY <1>1, <1>2, <1>3, <1>4, <1>5, <1>6 DEF Span

\* It is the number of that width with the same remainder, so what the part says.
LEMMA SaidIs ==
    ASSUME NEW part, part.value \in Int, part.bits \in Nat \ {0}, part.signed \in BOOLEAN,
           NEW v \in Int, v \in Span(part.signed, Bits(part.bits)),
           Congruent(v, part.value, Power(2, Bits(part.bits)))
    PROVE  Said(part) = v
<1>1. PICK b \in Nat \ {0} : b = Bits(part.bits)
  BY WidthsAre DEF Bits
<1>2. PICK h \in Nat \ {0}, m \in Nat \ {0} :
         h = Power(2, b - 1) /\ m = Power(2, b) /\ m = 2 * h
  BY PowersOfTwo
<1>3. PICK R : R = IF part.signed THEN -h..(h - 1) ELSE 0..(m - 1)
  OBVIOUS
<1>4. PICK l \in Int : R = l..(l + m - 1)
  <2>1. CASE part.signed
    <3>1. R = (-h)..((-h) + m - 1)
      BY <1>2, <1>3, <2>1
    <3> QED
      BY <3>1
  <2>2. CASE ~part.signed
    <3>1. R = 0..(0 + m - 1)
      BY <1>2, <1>3, <2>2
    <3> QED
      BY <3>1
  <2> QED
    BY <2>1, <2>2
<1>5. v \in R /\ Congruent(v, part.value, m)
  BY <1>1, <1>2, <1>3 DEF Span
<1>6. (v - part.value) % m = 0
  BY <1>5, CongruentIs
<1>7. PICK y : y = CHOOSE z \in R : (z - part.value) % m = 0
  OBVIOUS
<1>8. y \in R /\ (y - part.value) % m = 0
  BY <1>5, <1>6, <1>7
<1>9. y \in Int
  BY <1>4, <1>8
<1>10. Congruent(y, part.value, m)
  BY <1>8, <1>9, CongruentIs
<1>11. Congruent(part.value, v, m)
  BY <1>5, CongruentBack
<1>12. Congruent(y, v, m)
  BY <1>9, <1>10, <1>11, CongruentOn
<1>13. y = v
  BY <1>4, <1>5, <1>8, <1>12, CongruentSame
<1>14. Said(part) = CHOOSE z \in R : (z - part.value) % m = 0
  BY <1>1, <1>2, <1>3 DEF Said, Bits
<1> QED
  BY <1>7, <1>13, <1>14
-----------------------------------------------------------------------------
(* The conversions of integers *)

LEMMA ReversedEmpty ==
    ASSUME NEW base \in Bases, NEW u \in Nat
    PROVE  Reversed(u, base) = <<>> <=> u = 0
<1>1. base \in Nat /\ base > 1
  BY DEF Bases
<1>2. Reversed(0, base) = <<>>
  BY <1>1, ReversedNone
<1>3. ASSUME u # 0 PROVE Reversed(u, base) # <<>>
  <2>1. Len(Written(u, base)) > 0
    BY <1>3, WrittenDigits
  <2>2. PICK ds \in Seq(0..15) : ds = Reversed(u, base)
    BY DigitsOf
  <2>3. PICK t \in Seq(Chars) : t = Text(ds) /\ Len(t) = Len(ds)
    BY TextIs
  <2>4. Len(Reverse(t)) = Len(t)
    BY ReverseIs
  <2>5. Len(ds) > 0
    BY <2>1, <2>2, <2>3, <2>4 DEF Written
  <2> QED
    BY <2>2, <2>5, EmptySeq
<1> QED
  BY <1>2, <1>3

LEMMA UnsignedWrites ==
    ASSUME NEW n \in Int, NEW base \in Bases, NEW k \in Nat
    PROVE  Reads(unsigned_number_to_string(n, base, k), Unsigned(n, IntBits), base, k)
<1>1. PICK u \in Nat : u = Unsigned(n, IntBits)
  BY WidthsAre, UnsignedIs
<1>2. PICK ds \in Seq(0..15) : ds = Reversed(u, base)
  BY DigitsOf
<1>3. PICK t \in Seq(Chars) : t = Text(ds)
  BY TextIs
<1>4. unsigned_number_to_string(n, base, k)
        = IF ds = <<>> THEN <<ZERO>> ELSE Reverse(t \o Zeros(k))
  BY <1>1, <1>2, <1>3 DEF unsigned_number_to_string, Text
<1>5. CASE u = 0
  <2>1. ds = <<>>
    BY <1>2, <1>5, ReversedEmpty
  <2>2. Reads(<<ZERO>>, 0, base, k)
    BY ZeroReads
  <2> QED
    BY <1>1, <1>4, <1>5, <2>1, <2>2
<1>6. CASE u # 0
  <2>1. ds # <<>>
    BY <1>2, <1>6, ReversedEmpty
  <2>2. PICK z \in Seq(Chars) : z = Zeros(k) /\ Reverse(z) = z
    BY ZerosAre, ReverseOfZeros
  <2>3. Reverse(t \o z) = Reverse(z) \o Reverse(t)
    BY ReverseOfConcat
  <2>4. Reverse(t) = Written(u, base)
    BY <1>2, <1>3 DEF Written
  <2>5. u \in Nat \ {0}
    BY <1>6
  <2>6. Reads(Zeros(k) \o Written(u, base), u, base, k)
    BY <2>5, PaddedReads
  <2> QED
    BY <1>1, <1>4, <2>1, <2>2, <2>3, <2>4, <2>6
<1> QED
  BY <1>5, <1>6

LEMMA SignedWrites ==
    ASSUME NEW n \in Int, NEW base \in Bases, NEW k \in Nat
    PROVE  /\ number_to_string(n, base, k) \in Seq(Chars)
           /\ SignedNumeral(number_to_string(n, base, k), Signed(n, IntBits), base, k)
<1>1. PICK I \in Nat \ {0} : I = IntBits
  BY WidthsAre
<1>2. PICK h \in Nat \ {0}, m \in Nat \ {0} :
         h = Power(2, I - 1) /\ m = Power(2, I) /\ m = 2 * h
  BY PowersOfTwo
<1>3. PICK v \in Int : v = Signed(n, I) /\ v \in -h..(h - 1)
  BY <1>2, SignedIs
<1>4. PICK a \in Nat : a = IF v < 0 THEN -v ELSE v
  OBVIOUS
<1>5. a \in 0..(m - 1)
  BY <1>2, <1>3, <1>4
<1>6. Unsigned(a, I) = a
  <2>1. a \in Int /\ I \in Nat
    OBVIOUS
  <2>2. a \in 0..(Power(2, I) - 1)
    BY <1>2, <1>5
  <2> QED
    BY <2>1, <2>2, UnsignedIs, Zenon
<1>7. PICK s : s = unsigned_number_to_string(a, base, k)
  OBVIOUS
<1>8. Reads(s, a, base, k)
  <2>1. a \in Int
    OBVIOUS
  <2> QED
    BY <1>1, <1>6, <1>7, <2>1, UnsignedWrites, Zenon
<1>9. Minus(s, v) \in Seq(Chars) /\ SignedNumeral(Minus(s, v), v, base, k)
  BY <1>4, <1>8, SignedReads
<1>10. number_to_string(n, base, k) = Minus(s, v)
  BY <1>1, <1>3, <1>4, <1>7 DEF number_to_string, Minus
<1> QED
  BY <1>1, <1>3, <1>9, <1>10

\* At any width, the digits are those of what the part says.
LEMMA UnsignedSays ==
    ASSUME NEW part, part.value \in Int, part.bits \in Nat \ {0}, part.signed = FALSE,
           NEW base \in Bases, NEW k \in Nat, NEW s,
           s = unsigned_number_to_string(Unsigned(part.value, part.bits), base, k)
    PROVE  s \in Seq(Chars) /\ SignedNumeral(s, Said(part), base, k)
<1>1. PICK n \in Int, w \in Nat \ {0} : n = part.value /\ w = part.bits
  OBVIOUS
<1>2. PICK x \in Int : x = Unsigned(n, w)
  BY UnsignedIs
<1>3. PICK u \in Nat : /\ u = Unsigned(x, IntBits) /\ u \in Span(FALSE, Bits(w))
                       /\ Congruent(u, n, Power(2, Bits(w)))
  BY <1>2, UnsignedTwice
<1>4. Reads(s, u, base, k)
  BY <1>1, <1>2, <1>3, UnsignedWrites
<1>5. Said(part) = u
  <2>1. u \in Int
    OBVIOUS
  <2>2. part.signed \in BOOLEAN
    BY Zenon
  <2> QED
    BY <1>1, <1>3, <2>1, <2>2, SaidIs
<1>6. ~(u < 0) /\ u \in Int /\ u = IF u < 0 THEN -u ELSE u
  OBVIOUS
<1>7. Minus(s, u) = s
  BY <1>6 DEF Minus
<1>8. s \in Seq(Chars) /\ SignedNumeral(s, u, base, k)
  BY <1>4, <1>6, <1>7, SignedReads
<1> QED
  BY <1>5, <1>8

LEMMA SignedSays ==
    ASSUME NEW part, part.value \in Int, part.bits \in Nat \ {0}, part.signed = TRUE,
           NEW base \in Bases, NEW k \in Nat, NEW s,
           s = number_to_string(Signed(part.value, part.bits), base, k)
    PROVE  s \in Seq(Chars) /\ SignedNumeral(s, Said(part), base, k)
<1>1. PICK n \in Int, w \in Nat \ {0} : n = part.value /\ w = part.bits
  OBVIOUS
<1>2. PICK x \in Int : x = Signed(n, w)
  BY SignedIs
<1>3. PICK v : v = Signed(x, IntBits)
  OBVIOUS
<1>4. v \in Span(TRUE, Bits(w)) /\ Congruent(v, n, Power(2, Bits(w)))
  BY <1>2, <1>3, SignedTwice
<1>5. s \in Seq(Chars) /\ SignedNumeral(s, v, base, k)
  BY <1>1, <1>2, <1>3, SignedWrites
<1>6. v \in Int
  BY <1>3, WidthsAre, SignedIs
<1>7. Said(part) = v
  <2>1. part.signed \in BOOLEAN
    OBVIOUS
  <2> QED
    BY <1>1, <1>4, <1>6, <2>1, SaidIs
<1> QED
  BY <1>5, <1>7
-----------------------------------------------------------------------------
(* The conversion of fractions *)

Ten == 10

LEMMA TenIs == Ten \in Bases /\ Ten \in Nat \ {0} /\ Ten > 1
BY DEF Ten, Bases

\* The whole part, and the digits behind the point
WholePart(w)     == IF w = 0 THEN <<ZERO>> ELSE Written(w, Ten)
Behind(f, k) == IF f = 0 THEN Zeros(k) ELSE Written(f, Ten)

LEMMA WholeReads ==
    ASSUME NEW w \in Nat
    PROVE  Reads(WholePart(w), w, Ten, 0)
<1>1. PICK z \in Nat : z = 0
  OBVIOUS
<1>2. CASE w = 0
  <2>1. Reads(<<ZERO>>, 0, Ten, z)
    BY TenIs, ZeroReads
  <2> QED
    BY <1>1, <1>2, <2>1 DEF WholePart
<1>3. CASE w # 0
  <2>1. w \in Nat \ {0}
    BY <1>3
  <2>2. Reads(Zeros(z) \o Written(w, Ten), w, Ten, z)
    BY <2>1, TenIs, PaddedReads
  <2>3. PICK e \in Seq(Chars) : e = Zeros(z) /\ Len(e) = z
    BY ZerosAre
  <2>4. e = <<>>
    BY <1>1, <2>3, EmptySeq
  <2>5. PICK t \in Seq(Chars) : t = Written(w, Ten)
    BY TenIs, WrittenType
  <2>6. e \o t = t
    BY <2>4, ConcatEmptySeq
  <2> QED
    BY <1>1, <1>3, <2>2, <2>3, <2>5, <2>6 DEF WholePart
<1> QED
  BY <1>2, <1>3

\* A fraction that needs no zeros in front, or is nothing
Fits(f, k) == f < Power(Ten, k) /\ (f = 0 \/ f >= Power(Ten, k - 1))

LEMMA BehindReads ==
    ASSUME NEW f \in Nat, NEW k \in Nat \ {0}, Fits(f, k)
    PROVE  /\ Behind(f, k) \in Seq(Chars) /\ Len(Behind(f, k)) = k /\ Digits(Behind(f, k), Ten)
           /\ \A s \in Seq(Chars) :
                  ValueOf(s \o Behind(f, k), Ten) = ValueOf(s, Ten) * Power(Ten, k) + f
<1>1. PICK p \in Nat : p = Power(Ten, k)
  BY TenIs, PowerType
<1>2. CASE f = 0
  <2>1. PICK z \in Seq(Chars) : z = Zeros(k) /\ Len(z) = k /\ \A i \in 1..k : z[i] = ZERO
    BY ZerosAre
  <2>2. Digit(ZERO) < Ten
    BY DEF Digit, ZERO, Ten
  <2>3. Digits(z, Ten)
    BY <2>1, <2>2 DEF Digits
  <2>4. ASSUME NEW s \in Seq(Chars)
        PROVE  ValueOf(s \o z, Ten) = ValueOf(s, Ten) * p + f
    <3>1. ValueOf(s \o z, Ten) = ValueOf(s, Ten) * p
      BY <1>1, <2>1, TenIs, ZerosFollow
    <3>2. PICK v \in Nat : v = ValueOf(s, Ten)
      BY TenIs, ValueType
    <3>3. v * p = v * p + f
      BY <1>2
    <3> QED
      BY <3>1, <3>2, <3>3
  <2>5. Behind(f, k) = z
    BY <1>2, <2>1 DEF Behind
  <2> QED
    BY <1>1, <2>1, <2>3, <2>4, <2>5
<1>3. CASE f # 0
  <2>1. PICK w \in Seq(Chars) : w = Written(f, Ten)
    BY TenIs, WrittenType
  <2>2. PICK j \in Nat : j = k - 1 /\ j + 1 = k
    <3>1. k - 1 \in Nat /\ (k - 1) + 1 = k
      OBVIOUS
    <3> QED
      BY <3>1
  <2>3. Power(Ten, j) <= f /\ f < Power(Ten, j + 1)
    <3>1. Power(Ten, j) \in Nat
      BY TenIs, PowerType
    <3> QED
      BY <1>3, <2>2, <3>1 DEF Fits
  <2>4. Len(w) = k
    BY <2>1, <2>2, <2>3, TenIs, WrittenLength
  <2>5. Digits(w, Ten)
    BY <2>1, TenIs, WrittenDigits
  <2>6. ASSUME NEW s \in Seq(Chars)
        PROVE  ValueOf(s \o w, Ten) = ValueOf(s, Ten) * p + f
    BY <1>1, <2>1, <2>4, TenIs, WrittenFollows
  <2>7. Behind(f, k) = w
    BY <1>3, <2>1 DEF Behind
  <2> QED
    BY <1>1, <2>4, <2>5, <2>6, <2>7
<1> QED
  BY <1>2, <1>3

LEMMA QuotientBetween ==
    ASSUME NEW n \in Nat, NEW q \in Nat \ {0}, NEW a \in Nat, NEW r \in Nat, r < q, n = q * a + r
    PROVE  n \div q = a
<1>1. PICK b \in Int, t \in Nat : b = n \div q /\ n = q * b + t /\ t < q
  BY Division
<1>2. PICK d \in Int : d = b - a
  OBVIOUS
<1>3. q * d = r - t
  <2>1. q * (b - a) = q * b - q * a
    OBVIOUS
  <2> QED
    BY <1>1, <1>2, <2>1
<1>4. (d >= 1 => q * d >= q) /\ (d <= -1 => q * d <= -q)
  OBVIOUS
<1>5. d = 0
  BY <1>1, <1>3, <1>4
<1> QED
  BY <1>1, <1>2, <1>5

\* The digits of p / q that a precision keeps
Kept(p, q, k) == ((p % q) * Power(Ten, k)) \div q

\* The number p / q: the whole part, and what is kept of the rest.
PartsOf(p, q, k, w, f) ==
    /\ Quotient(p, q) = w /\ Quotient((p - w * q) * Power(Ten, k), q) = f
    /\ f = Kept(p, q, k) /\ f < Power(Ten, k)
    /\ (p * Power(Ten, k)) \div q = w * Power(Ten, k) + f

LEMMA Parts ==
    ASSUME NEW p \in Nat, NEW q \in Nat \ {0}, NEW k \in Nat
    PROVE  \E w \in Nat, f \in Nat : PartsOf(p, q, k, w, f)
<1>1. PICK m \in Nat \ {0} : m = Power(Ten, k)
  BY TenIs, PowerType
<1>2. PICK w \in Int, r \in Nat : w = p \div q /\ r = p % q /\ r < q /\ p = q * w + r
  <2>1. p \in Int
    OBVIOUS
  <2>2. p % q \in Nat /\ p % q \in 0..(q - 1) /\ p \div q \in Int /\ p = q * (p \div q) + (p % q)
    BY <2>1, Division
  <2>3. \A r \in 0..(q - 1) : r < q
    OBVIOUS
  <2>4. p % q < q
    BY <2>2, <2>3, Zenon
  <2> QED
    BY <2>2, <2>4, Zenon
<1>3. w \in Nat
  <2>1. w <= -1 => q * w <= -q
    OBVIOUS
  <2> QED
    BY <1>2, <2>1
<1>4. p - w * q = r
  BY <1>2
<1>5. PICK x \in Nat : x = r * m
  OBVIOUS
<1>6. PICK f \in Int, t \in Nat : f = x \div q /\ t < q /\ x = q * f + t
  <2>1. x \in Int
    OBVIOUS
  <2> QED
    BY <2>1, Division
<1>7. f \in Nat
  <2>1. f <= -1 => q * f <= -q
    OBVIOUS
  <2> QED
    BY <1>6, <2>1
<1>8. f < m
  <2>1. r * m < q * m
    <3>1. m * r < m * q
      BY <1>2, ProductsGrow
    <3>2. m * r = r * m /\ m * q = q * m
      OBVIOUS
    <3> QED
      BY <3>1, <3>2
  <2>2. m < f => q * m < q * f
    BY <1>7, ProductsGrow
  <2>3. q * m \in Nat /\ q * f \in Nat
    BY <1>7
  <2>4. ~(m < f) /\ f # m
    BY <1>5, <1>6, <2>1, <2>2, <2>3
  <2> QED
    BY <1>7, <2>4
<1>9. Quotient(p, q) = w /\ Quotient(x, q) = f
  BY <1>2, <1>6 DEF Quotient
<1>10. (p * m) \div q = w * m + f
  <2>1. PICK a \in Nat : a = w * m + f
    BY <1>3, <1>7
  <2>2. (q * w + r) * m = q * (w * m) + r * m
    BY <1>3
  <2>3. q * (w * m + f) = q * (w * m) + q * f
    BY <1>3, <1>7
  <2>4. PICK n \in Nat : n = p * m
    OBVIOUS
  <2>5. n = q * a + t
    BY <1>2, <1>5, <1>6, <2>1, <2>2, <2>3, <2>4
  <2>6. n \div q = a
    BY <1>6, <2>5, QuotientBetween
  <2> QED
    BY <2>1, <2>4, <2>6
<1>11. /\ Quotient((p - w * q) * m, q) = f /\ f = ((p % q) * m) \div q
  BY <1>2, <1>4, <1>5, <1>6, <1>9
<1>12. PartsOf(p, q, k, w, f)
  BY <1>1, <1>8, <1>9, <1>10, <1>11 DEF PartsOf, Kept
<1> QED
  BY <1>3, <1>7, <1>12

\* Text behind text, put together one way or the other
LEMMA Regrouped ==
    ASSUME NEW S, NEW a \in Seq(S), NEW b \in Seq(S), NEW c \in Seq(S)
    PROVE  (a \o b) \o c \in Seq(S) /\ a \o (b \o c) = (a \o b) \o c
<1>1. (a \o b) \o c = a \o (b \o c)
  BY ConcatAssociative
<1>2. PICK d \in Seq(S) : d = a \o b
  BY ConcatProperties
<1>3. d \o c \in Seq(S)
  BY ConcatProperties
<1> QED
  BY <1>1, <1>2, <1>3

ThreeIn(S, a, b, c) == a \in Seq(S) /\ b \in Seq(S) /\ c \in Seq(S)
Regroups(a, b, c)   == a \o (b \o c) = (a \o b) \o c

LEMMA Associates ==
    ASSUME NEW S, NEW a, NEW b, NEW c, ThreeIn(S, a, b, c)
    PROVE  Regroups(a, b, c)
BY Regrouped DEF ThreeIn, Regroups

\* The text of a fraction
FractionOf(w, f, k) == (WholePart(w) \o <<POINT>>) \o Behind(f, k)

LEMMA FractionWrites ==
    ASSUME NEW p \in Nat, NEW q \in Nat \ {0}, NEW k \in Nat \ {0}, NEW w \in Nat, NEW f \in Nat,
           PartsOf(p, q, k, w, f)
    PROVE  fnumber_to_string(p, q, Ten, k) = FractionOf(w, f, k)
<1>1. PICK o \in Seq(Chars) : o = <<POINT>> /\ Reverse(o) = o
  BY CharsKnown, OneIn, ReverseOfOne
<1>2. PICK ws \in Seq(Chars) : ws = Text(Reversed(w, Ten)) /\ Reverse(ws) = Written(w, Ten)
  BY TenIs, DigitsOf, TextIs DEF Written
<1>3. PICK fs \in Seq(Chars) : /\ fs = IF f > 0 THEN Text(Reversed(f, Ten)) ELSE Zeros(k)
                               /\ Reverse(fs) = Behind(f, k)
  <2>1. CASE f > 0
    BY <2>1, TenIs, DigitsOf, TextIs DEF Written, Behind
  <2>2. CASE ~(f > 0)
    <3>1. f = 0
      BY <2>2
    <3> QED
      BY <2>2, <3>1, ZerosAre, ReverseOfZeros DEF Behind
  <2> QED
    BY <2>1, <2>2
<1>4. PICK b \in Seq(Chars) : b = Behind(f, k)
  BY <1>3, ReverseIs
<1>5. PICK g \in Seq(Chars) : g = Written(w, Ten)
  BY TenIs, WrittenType
<1>6. PICK a \in Seq(Chars) : a = fs \o o /\ Append(fs, POINT) = a
  BY <1>1, CharsKnown, AppendIsConcat, ConcatProperties
<1>7. Reverse(a) = o \o b
  <2>1. Reverse(a) = Reverse(o) \o Reverse(fs)
    BY <1>6, ReverseOfConcat
  <2> QED
    BY <1>1, <1>3, <1>4, <2>1
<1>8. Reverse(a \o ws) = g \o (o \o b)
  <2>1. Reverse(a \o ws) = Reverse(ws) \o Reverse(a)
    BY ReverseOfConcat
  <2> QED
    BY <1>2, <1>5, <1>7, <2>1
<1>9. PICK e \in Seq(Chars) : e = <<>>
  BY EmptySeq
<1>10. PICK z \in Seq(Chars) : z = IF w = 0 THEN <<ZERO>> ELSE <<>>
  <2>1. ZERO \in Chars
    BY CharsKnown DEF ZERO
  <2>2. <<ZERO>> \in Seq(Chars) /\ <<>> \in Seq(Chars)
    BY <1>9, <2>1, OneIn
  <2> QED
    BY <2>2
<1>11. fnumber_to_string(p, q, Ten, k) = (e \o z) \o Reverse(a \o ws)
  <2>1. ~(w < 0) /\ k # 0 /\ ~(f < 0)
    OBVIOUS
  <2>2. (IF w < 0 THEN -w ELSE w) = w
    BY <2>1
  <2>3. (CASE f > 0 -> Text(Reversed(f, Ten))
           [] f < 0 -> [i \in DOMAIN Reversed(-f, Ten) |-> ZERO - Reversed(-f, Ten)[i]]
           [] OTHER -> Zeros(k)) = fs
    BY <1>3, <2>1
  <2> QED
    <3>1. Quotient(p, q) = w /\ Quotient((p - w * q) * Power(Ten, k), q) = f
      BY DEF PartsOf
    <3> QED
      BY <1>2, <1>6, <1>9, <1>10, <2>1, <2>2, <2>3, <3>1 DEF fnumber_to_string, Text
<1>12. e \o z = z
  BY <1>9, ConcatEmptySeq
<1>13. z \o (g \o (o \o b)) = (WholePart(w) \o o) \o b
  <2>1. g \o (o \o b) = (g \o o) \o b
    <3>1. ThreeIn(Chars, g, o, b)
      BY DEF ThreeIn
    <3>2. Regroups(g, o, b)
      BY <3>1, Associates
    <3> QED
      BY <3>2 DEF Regroups
  <2>2. CASE w = 0
    <3>1. g = <<>>
      BY <1>5, <2>2, TenIs, WrittenNone
    <3>2. PICK x \in Seq(Chars) : x = o \o b
      BY ConcatProperties
    <3>3. g \o x = x
      BY <3>1, ConcatEmptySeq
    <3>4. z \o (o \o b) = (z \o o) \o b
      <4>1. ThreeIn(Chars, z, o, b)
        BY DEF ThreeIn
      <4>2. Regroups(z, o, b)
        BY <4>1, Associates
      <4> QED
        BY <4>2 DEF Regroups
    <3>5. z = WholePart(w)
      BY <1>10, <2>2 DEF WholePart
    <3> QED
      BY <3>2, <3>3, <3>4, <3>5
  <2>3. CASE w # 0
    <3>1. z = <<>>
      BY <1>10, <2>3
    <3>2. PICK x \in Seq(Chars) : x = (g \o o) \o b
      <4>1. g \o o \in Seq(Chars)
        BY ConcatProperties
      <4> QED
        BY <4>1, ConcatProperties
    <3>3. z \o x = x
      BY <3>1, ConcatEmptySeq
    <3>4. g = WholePart(w)
      BY <1>5, <2>3 DEF WholePart
    <3> QED
      BY <2>1, <3>2, <3>3, <3>4
  <2> QED
    BY <2>2, <2>3
<1> QED
  BY <1>1, <1>4, <1>8, <1>11, <1>12, <1>13 DEF FractionOf

\* The piece b of a sequence
LEMMA PieceIs ==
    ASSUME NEW S, NEW b \in Seq(S), NEW s, NEW l \in Int, NEW h \in Int, h - l + 1 = Len(b),
           \A i \in 1..Len(b) : s[l + i - 1] = b[i]
    PROVE  SubSeq(s, l, h) = b
<1>1. PICK n \in Nat : n = Len(b) /\ h - l + 1 = n
  OBVIOUS
<1>2. \A i \in l..h : s[i] \in S
  <2>1. ASSUME NEW i \in l..h PROVE s[i] \in S
    <3>1. PICK j \in 1..n : j = i - l + 1 /\ l + j - 1 = i
      BY <1>1
    <3> QED
      BY <1>1, <3>1, ElementOfSeq
  <2> QED
    BY <2>1
<1>3. PICK t \in Seq(S) : t = SubSeq(s, l, h)
  BY <1>2, SubSeqProperties
<1>4. Len(t) = IF l <= h THEN h - l + 1 ELSE 0
  BY <1>2, <1>3, SubSeqProperties
<1>5. Len(t) = n
  BY <1>1, <1>4
<1>6. \A i \in 1..(h - l + 1) : SubSeq(s, l, h)[i] = s[l + i - 1]
  BY <1>2, SubSeqProperties
<1>7. \A i \in 1..n : t[i] = b[i]
  BY <1>1, <1>3, <1>6
<1>8. Len(t) = Len(b) /\ \A i \in 1..Len(t) : t[i] = b[i]
  BY <1>1, <1>5, <1>7
<1>9. t = b
  BY <1>8, SeqEqual
<1> QED
  BY <1>3, <1>9

\* A text that is cut at one character
LEMMA CutBehind ==
    ASSUME NEW S, NEW a \in Seq(S), NEW c \in S, NEW b \in Seq(S), NEW s, s = (a \o <<c>>) \o b
    PROVE  /\ s \in Seq(S) /\ Len(s) = (Len(a) + 1) + Len(b) /\ s[Len(a) + 1] = c
           /\ SubSeq(s, 1, Len(a)) = a /\ SubSeq(s, Len(a) + 2, Len(s)) = b
<1>1. PICK m \in Nat, n \in Nat : m = Len(a) /\ n = Len(b)
  OBVIOUS
<1>2. PICK d : d = a \o <<c>>
  OBVIOUS
<1>3. d \in Seq(S) /\ Len(d) = m + 1 /\ (\A i \in 1..m : d[i] = a[i]) /\ d[m + 1] = c
  BY <1>1, <1>2, OneMore
<1>4. /\ s \in Seq(S) /\ Len(s) = (m + 1) + n
      /\ \A i \in 1..((m + 1) + n) : s[i] = IF i <= m + 1 THEN d[i] ELSE b[i - (m + 1)]
  <2>1. /\ d \o b \in Seq(S) /\ Len(d \o b) = Len(d) + Len(b)
        /\ \A i \in 1..Len(d) + Len(b) : (d \o b)[i] = IF i <= Len(d) THEN d[i] ELSE b[i - Len(d)]
    BY <1>3, ConcatProperties, Zenon
  <2> QED
    BY <1>1, <1>2, <1>3, <2>1
<1>5. s[m + 1] = c
  BY <1>3, <1>4
<1>6. \A i \in 1..m : s[i] = a[i]
  <2>1. \A i \in 1..m : i \in 1..((m + 1) + n) /\ i <= m + 1
    OBVIOUS
  <2> QED
    BY <1>3, <1>4, <2>1
<1>7. \A i \in 1..n : s[(m + 2) + i - 1] = b[i]
  <2>1. \A i \in 1..n : /\ (m + 2) + i - 1 \in 1..((m + 1) + n) /\ ~((m + 2) + i - 1 <= m + 1)
                        /\ ((m + 2) + i - 1) - (m + 1) = i
    OBVIOUS
  <2> QED
    BY <1>4, <2>1
<1>8. SubSeq(s, 1, m) = a
  <2>1. PICK l \in Int, h \in Int : l = 1 /\ h = m
    OBVIOUS
  <2>2. h - l + 1 = Len(a) /\ \A i \in 1..Len(a) : s[l + i - 1] = a[i]
    BY <1>1, <1>6, <2>1
  <2>3. SubSeq(s, l, h) = a
    BY <2>2, PieceIs
  <2> QED
    BY <2>1, <2>3
<1>9. SubSeq(s, m + 2, (m + 1) + n) = b
  <2>1. PICK l \in Int, h \in Int : l = m + 2 /\ h = (m + 1) + n
    OBVIOUS
  <2>2. h - l + 1 = Len(b) /\ \A i \in 1..Len(b) : s[l + i - 1] = b[i]
    BY <1>1, <1>7, <2>1
  <2>3. SubSeq(s, l, h) = b
    BY <2>2, PieceIs
  <2> QED
    BY <2>1, <2>3
<1> QED
  BY <1>1, <1>4, <1>5, <1>8, <1>9

\* k digits behind the point of p / q
FractionText(s, p, q, k) ==
    \E j \in DOMAIN s :
        /\ s[j] = 46 /\ Len(s) - j = k
        /\ Numeral(SubSeq(s, 1, j - 1), 10) /\ Numeral(SubSeq(s, j + 1, Len(s)), 10)
        /\ Canonical(SubSeq(s, 1, j - 1), 0)
        /\ ValueOf(SubSeq(s, 1, j - 1) \o SubSeq(s, j + 1, Len(s)), 10)
               = (p * Power(10, k)) \div q

LEMMA FractionCut ==
    ASSUME NEW a \in Seq(Chars), NEW b \in Seq(Chars), NEW s, s = (a \o <<POINT>>) \o b,
           NEW k \in Nat \ {0}, Len(b) = k, Digits(b, Ten), NEW w, Reads(a, w, Ten, 0),
           NEW p, NEW q, ValueOf(a \o b, Ten) = (p * Power(Ten, k)) \div q
    PROVE  s \in Seq(Chars) /\ FractionText(s, p, q, k)
<1>1. POINT \in Chars /\ POINT = 46
  BY CharsKnown DEF POINT
<1>2. PICK m \in Nat : m = Len(a)
  OBVIOUS
<1>3. /\ s \in Seq(Chars) /\ Len(s) = (m + 1) + k /\ s[m + 1] = POINT
      /\ SubSeq(s, 1, m) = a /\ SubSeq(s, m + 2, Len(s)) = b
  BY <1>1, <1>2, CutBehind
<1>4. PICK j : j = m + 1 /\ j \in DOMAIN s /\ j - 1 = m /\ j + 1 = m + 2 /\ Len(s) - j = k
  <2>1. DOMAIN s = 1..((m + 1) + k)
    BY <1>3
  <2>2. m + 1 \in 1..((m + 1) + k) /\ (m + 1) - 1 = m /\ (m + 1) + 1 = m + 2
        /\ ((m + 1) + k) - (m + 1) = k
    OBVIOUS
  <2> QED
    BY <1>3, <2>1, <2>2
<1>5. SubSeq(s, 1, j - 1) = a /\ SubSeq(s, j + 1, Len(s)) = b /\ s[j] = 46
  BY <1>1, <1>3, <1>4
<1>6. Numeral(a, 10) /\ Canonical(a, 0)
  BY DEF Reads, Ten
<1>7. Numeral(b, 10)
  BY NumeralIs DEF Ten
<1>8. ValueOf(a \o b, 10) = (p * Power(10, k)) \div q
  BY DEF Ten
<1>9. FractionText(s, p, q, k)
  BY <1>4, <1>5, <1>6, <1>7, <1>8 DEF FractionText
<1> QED
  BY <1>3, <1>9

LEMMA FractionReads ==
    ASSUME NEW p \in Nat, NEW q \in Nat \ {0}, NEW k \in Nat \ {0},
           Kept(p, q, k) = 0 \/ Kept(p, q, k) >= Power(Ten, k - 1),
           NEW s, s = fnumber_to_string(p, q, Ten, k)
    PROVE  s \in Seq(Chars) /\ FractionText(s, p, q, k)
<1>1. PICK w \in Nat, f \in Nat : PartsOf(p, q, k, w, f)
  BY Parts
<1>2. Fits(f, k)
  BY <1>1 DEF Fits, PartsOf
<1>3. PICK a \in Seq(Chars) : a = WholePart(w) /\ Reads(a, w, Ten, 0)
  BY WholeReads DEF Reads
<1>4. PICK b \in Seq(Chars) :
         /\ b = Behind(f, k) /\ Len(b) = k /\ Digits(b, Ten)
         /\ ValueOf(a \o b, Ten) = ValueOf(a, Ten) * Power(Ten, k) + f
  BY <1>2, BehindReads
<1>5. s = (a \o <<POINT>>) \o b
  <2>1. fnumber_to_string(p, q, Ten, k) = FractionOf(w, f, k)
    BY <1>1, FractionWrites
  <2> QED
    BY <1>3, <1>4, <2>1 DEF FractionOf
<1>6. ValueOf(a \o b, Ten) = (p * Power(Ten, k)) \div q
  BY <1>1, <1>3, <1>4 DEF Reads, PartsOf
<1> QED
  BY <1>3, <1>4, <1>5, <1>6, FractionCut

LEMMA FractionSays ==
    ASSUME NEW part, part.p \in Nat, part.q \in Nat \ {0}, part.precision \in Nat \ {0},
           \/ Kept(part.p, part.q, part.precision) = 0
           \/ Kept(part.p, part.q, part.precision) >= Power(Ten, part.precision - 1),
           NEW s, s = fnumber_to_string(part.p, part.q, Ten, part.precision)
    PROVE  s \in Seq(Chars) /\ Fraction(s, part)
<1>1. s \in Seq(Chars) /\ FractionText(s, part.p, part.q, part.precision)
  BY FractionReads
<1> QED
  BY <1>1 DEF Fraction, FractionText
-----------------------------------------------------------------------------
(* The course of vkprint *)

\* g gives the states after each character of the format.
Course(g, fmt) == \A n \in 1..Len(fmt) : g[n] = Step(g[n - 1], fmt[n])

\* Up to N, from the state s on
CourseTo(f, N, s, fmt) == f = [n \in 0..N |-> IF n = 0 THEN s ELSE Step(f[n - 1], fmt[n])]

LEMMA CourseAt ==
    ASSUME NEW f, NEW N \in Nat, NEW s, NEW fmt, CourseTo(f, N, s, fmt)
    PROVE  f[0] = s /\ \A n \in 1..N : f[n] = Step(f[n - 1], fmt[n])
<1>1. f = [n \in 0..N |-> IF n = 0 THEN s ELSE Step(f[n - 1], fmt[n])]
  BY DEF CourseTo
<1>2. \A n \in 0..N : f[n] = IF n = 0 THEN s ELSE Step(f[n - 1], fmt[n])
  BY <1>1
<1>3. 0 \in 0..N /\ \A n \in 1..N : n \in 0..N /\ n # 0
  OBVIOUS
<1>4. f[0] = s
  BY <1>2, <1>3
<1>5. ASSUME NEW n \in 1..N PROVE f[n] = Step(f[n - 1], fmt[n])
  BY <1>2, <1>3
<1> QED
  BY <1>4, <1>5

LEMMA CourseExists ==
    ASSUME NEW s, NEW fmt
    PROVE  \A N \in Nat : \E f : CourseTo(f, N, s, fmt)
<1> DEFINE S == {N \in Nat : \E f : CourseTo(f, N, s, fmt)}
<1>1. 0 \in S
  <2>1. CourseTo([n \in 0..0 |-> s], 0, s, fmt)
    BY DEF CourseTo
  <2> QED
    BY <2>1
<1>2. ASSUME NEW N \in S PROVE N + 1 \in S
  <2>1. PICK f : CourseTo(f, N, s, fmt)
    OBVIOUS
  <2>2. N \in Nat /\ f[0] = s /\ \A n \in 1..N : f[n] = Step(f[n - 1], fmt[n])
    BY <2>1, CourseAt
  <2>3. PICK last : last = Step(f[N], fmt[N + 1])
    OBVIOUS
  <2> DEFINE g == [n \in 0..(N + 1) |-> IF n = N + 1 THEN last ELSE f[n]]
  <2>4. \A n \in 0..(N + 1) : g[n] = IF n = N + 1 THEN last ELSE f[n]
    OBVIOUS
  <2>5. g = [n \in 0..(N + 1) |-> g[n]]
    OBVIOUS
  <2> HIDE DEF g, S
  <2>6. ASSUME NEW n \in 0..(N + 1)
        PROVE  g[n] = IF n = 0 THEN s ELSE Step(g[n - 1], fmt[n])
    <3>1. CASE n = N + 1
      <4>1. g[n] = last /\ n # 0 /\ n - 1 = N /\ N \in 0..(N + 1) /\ N # N + 1
        BY <2>2, <2>4, <3>1
      <4>2. g[n - 1] = f[N]
        BY <2>4, <4>1
      <4> QED
        BY <2>3, <3>1, <4>1, <4>2
    <3>2. CASE n # N + 1 /\ n # 0
      <4>1. n \in 1..N /\ n - 1 \in 0..(N + 1) /\ n - 1 # N + 1
        BY <2>2, <3>2
      <4>2. g[n] = f[n] /\ g[n - 1] = f[n - 1]
        BY <2>4, <3>2, <4>1
      <4> QED
        BY <2>2, <3>2, <4>1, <4>2
    <3>3. CASE n = 0
      BY <2>2, <2>4, <3>3
    <3> QED
      BY <3>1, <3>2, <3>3
  <2>7. CourseTo(g, N + 1, s, fmt)
    BY <2>5, <2>6 DEF CourseTo
  <2> QED
    BY <2>2, <2>7 DEF S
<1> HIDE DEF S
<1>3. \A N \in Nat : N \in S
  <2>1. S \in SUBSET Nat
    BY DEF S
  <2> QED
    BY <1>1, <1>2, <2>1, InductionOn
<1> QED
  BY <1>3 DEF S

\* From the state s, the format fmt leads to the state e.
Leads(s, fmt, e) == \A g : Course(g, fmt) /\ g[0] = s => g[Len(fmt)] = e

LEMMA vkprintIs ==
    ASSUME NEW fmt, Len(fmt) \in Nat, NEW args, NEW e, Leads(State(Fresh, args, <<>>), fmt, e)
    PROVE  vkprint(fmt, args) = e.text
<1>1. PICK s : s = State(Fresh, args, <<>>)
  OBVIOUS
<1>2. PICK g : g = CHOOSE f : CourseTo(f, Len(fmt), s, fmt)
  OBVIOUS
<1>3. CourseTo(g, Len(fmt), s, fmt)
  BY <1>2, CourseExists
<1>4. g[0] = s /\ Course(g, fmt)
  BY <1>3, CourseAt DEF Course
<1>5. g[Len(fmt)] = e
  BY <1>1, <1>4 DEF Leads
<1>6. vkprint(fmt, args) = g[Len(fmt)].text
  BY <1>1, <1>2 DEF vkprint, CourseTo
<1> QED
  BY <1>5, <1>6

LEMMA LeadsNowhere ==
    ASSUME NEW s
    PROVE  Leads(s, <<>>, s)
<1>1. PICK e : e = <<>> /\ Len(e) = 0
  BY EmptySeq
<1>2. Leads(s, e, s)
  BY <1>1 DEF Leads
<1> QED
  BY <1>1, <1>2

LEMMA LeadsOne ==
    ASSUME NEW s, NEW c, NEW S, c \in S
    PROVE  Leads(s, <<c>>, Step(s, c))
<1>1. PICK o : o = <<c>> /\ Len(o) = 1 /\ o[1] = c
  BY OneIn
<1>2. ASSUME NEW g, Course(g, o), g[0] = s PROVE g[Len(o)] = Step(s, c)
  <2>1. 1 \in 1..Len(o) /\ 1 - 1 = 0
    BY <1>1
  <2>2. g[1] = Step(g[1 - 1], o[1])
    BY <1>2, <2>1 DEF Course
  <2> QED
    BY <1>1, <1>2, <2>1, <2>2
<1> QED
  BY <1>1, <1>2 DEF Leads

\* One piece of the format after the other
LEMMA LeadsOn ==
    ASSUME NEW S, NEW a \in Seq(S), NEW b \in Seq(S), NEW s, NEW d, NEW e,
           Leads(s, a, d), Leads(d, b, e)
    PROVE  Leads(s, a \o b, e)
<1>1. PICK m \in Nat, n \in Nat : m = Len(a) /\ n = Len(b)
  OBVIOUS
<1>2. PICK w : w = a \o b
  OBVIOUS
<1>3. Len(w) = m + n /\ \A i \in 1..(m + n) : w[i] = IF i <= m THEN a[i] ELSE b[i - m]
  BY <1>1, <1>2, ConcatProperties
<1>4. ASSUME NEW g, Course(g, w), g[0] = s PROVE g[m + n] = e
  <2>1. \A i \in 1..(m + n) : g[i] = Step(g[i - 1], w[i])
    BY <1>3, <1>4 DEF Course
  <2>2. ASSUME NEW i \in 1..m PROVE g[i] = Step(g[i - 1], a[i])
    <3>1. i \in 1..(m + n) /\ i <= m
      OBVIOUS
    <3> QED
      BY <1>3, <2>1, <3>1
  <2>3. Course(g, a)
    BY <1>1, <2>2 DEF Course
  <2>4. g[m] = d
    BY <1>1, <1>4, <2>3 DEF Leads
  <2>5. PICK h : h = [i \in 0..n |-> g[m + i]]
    OBVIOUS
  <2>6. \A i \in 0..n : h[i] = g[m + i]
    BY <2>5
  <2>7. ASSUME NEW i \in 1..n PROVE h[i] = Step(h[i - 1], b[i])
    <3>1. /\ m + i \in 1..(m + n) /\ ~(m + i <= m) /\ (m + i) - m = i
          /\ (m + i) - 1 = m + (i - 1) /\ i \in 0..n /\ i - 1 \in 0..n
      OBVIOUS
    <3>2. h[i] = g[m + i] /\ h[i - 1] = g[m + (i - 1)]
      BY <2>6, <3>1
    <3>3. w[m + i] = b[i]
      BY <1>3, <3>1
    <3>4. g[m + i] = Step(g[(m + i) - 1], w[m + i])
      BY <2>1, <3>1
    <3> QED
      BY <3>1, <3>2, <3>3, <3>4
  <2>8. Course(h, b)
    BY <1>1, <2>7 DEF Course
  <2>9. 0 \in 0..n /\ n \in 0..n /\ m + 0 = m
    OBVIOUS
  <2>10. h[0] = d /\ h[n] = g[m + n]
    BY <2>4, <2>6, <2>9
  <2>11. h[n] = e
    BY <1>1, <2>8, <2>10 DEF Leads
  <2> QED
    BY <2>10, <2>11
<1>5. Leads(s, w, e)
  BY <1>3, <1>4 DEF Leads
<1> QED
  BY <1>2, <1>5
-----------------------------------------------------------------------------
(* One character of the format *)

LEMMA StateIs ==
    ASSUME NEW d, NEW a, NEW t
    PROVE  State(d, a, t).d = d /\ State(d, a, t).args = a /\ State(d, a, t).text = t
BY DEF State

LEMMA InsideIs ==
    ASSUME NEW l, NEW h, NEW p, NEW k
    PROVE  /\ Inside(l, h, p, k).directive
           /\ Inside(l, h, p, k).longs = l /\ Inside(l, h, p, k).shorts = h
           /\ Inside(l, h, p, k).precise = p /\ Inside(l, h, p, k).precision = k
BY DEF Inside

LEMMA FreshIs ==
    /\ Fresh.directive = FALSE /\ Fresh.longs = 0 /\ Fresh.shorts = 0
    /\ Fresh.precise = FALSE /\ Fresh.precision = 6
BY DEF Fresh

\* The flag of a directive with a ".", and of one without
Yes == TRUE
No  == FALSE

\* Between directives
LEMMA StepCopies ==
    ASSUME NEW a, NEW t, NEW c, c # PERCENT
    PROVE  Step(State(Fresh, a, t), c) = State(Fresh, a, Append(t, c))
<1>1. PICK s : s = State(Fresh, a, t)
  OBVIOUS
<1>2. s.d = Fresh /\ s.args = a /\ s.text = t
  BY <1>1, StateIs
<1>3. ~s.d.directive
  BY <1>2, FreshIs
<1>4. Step(s, c) = Copies(s, c)
  BY <1>3 DEF Step
<1>5. Copies(s, c) = State(Fresh, a, Append(t, c))
  BY <1>2 DEF Copies
<1> QED
  BY <1>1, <1>4, <1>5

LEMMA StepOpens ==
    ASSUME NEW a, NEW t
    PROVE  Step(State(Fresh, a, t), PERCENT) = State(Inside(0, 0, No, 6), a, t)
<1>1. PICK s : s = State(Fresh, a, t)
  OBVIOUS
<1>2. s.d = Fresh /\ s.args = a /\ s.text = t
  BY <1>1, StateIs
<1>3. ~s.d.directive
  BY <1>2, FreshIs
<1>4. Step(s, PERCENT) = Opens(s)
  BY <1>3 DEF Step
<1>5. Opens(s) = State(Inside(0, 0, No, 6), a, t)
  BY <1>2, FreshIs DEF Opens, No
<1> QED
  BY <1>1, <1>4, <1>5

\* Within one
LEMMA CodesDiffer ==
    /\ \A d : ~Modifies(d, PERCENT) /\ \A c \in 48..57 : ~Modifies(d, c)
    /\ \A d : \A c \in Conversions : ~Modifies(d, c)
    /\ \A c \in 48..57 : c \notin Conversions /\ c # PERCENT
    /\ PERCENT \notin Conversions /\ PERCENT # STAR
    /\ LetterL # STAR /\ LetterH # STAR /\ POINT # STAR
    /\ LetterL # LetterH /\ LetterL # POINT /\ LetterH # POINT
BY DEF Modifies, Conversions, PERCENT, STAR, POINT, LetterA, LetterC, LetterD, LetterF, LetterH,
       LetterL, LetterO, LetterP, LetterS, LetterU, LetterX

LEMMA StepWithin ==
    ASSUME NEW l, NEW h, NEW p, NEW k, NEW a, NEW t, NEW c, NEW s,
           s = State(Inside(l, h, p, k), a, t)
    PROVE  /\ s.d = Inside(l, h, p, k) /\ s.args = a /\ s.text = t
           /\ Modifies(s.d, c) => Step(s, c) = Refines(s, c)
           /\ c \in Conversions => Step(s, c) = Converts(s, c)
           /\ ~Modifies(s.d, c) /\ c \notin Conversions => Step(s, c) = Closes(s, c)
<1>1. s.d = Inside(l, h, p, k) /\ s.args = a /\ s.text = t
  BY StateIs
<1>2. s.d.directive
  BY <1>1, InsideIs
<1>3. Modifies(s.d, c) => c \notin Conversions
  BY CodesDiffer
<1>4. Step(s, c) = CASE Modifies(s.d, c) -> Refines(s, c)
                     [] c \in Conversions -> Converts(s, c)
                     [] OTHER -> Closes(s, c)
  BY <1>2, <1>3 DEF Step
<1> QED
  BY <1>1, <1>3, <1>4

LEMMA ModifiedIs ==
    ASSUME NEW d, NEW a
    PROVE  /\ Modified(d, LetterL, a) = Inside(More(d.longs), d.shorts, d.precise, d.precision)
           /\ Modified(d, LetterH, a) = Inside(d.longs, More(d.shorts), d.precise, d.precision)
           /\ Modified(d, POINT, a) = Inside(d.longs, d.shorts, Yes, d.precision)
           /\ Modified(d, STAR, a) = Inside(d.longs, d.shorts, d.precise, Head(a))
BY CodesDiffer DEF Modified, Yes

LEMMA StepLong ==
    ASSUME NEW l, NEW h, NEW p, NEW k, NEW a, NEW t
    PROVE  Step(State(Inside(l, h, p, k), a, t), LetterL) = State(Inside(More(l), h, p, k), a, t)
<1>1. PICK s : s = State(Inside(l, h, p, k), a, t)
  OBVIOUS
<1>2. Modifies(s.d, LetterL)
  BY DEF Modifies
<1>3. s.d = Inside(l, h, p, k) /\ s.args = a /\ s.text = t /\ Step(s, LetterL) = Refines(s, LetterL)
  BY <1>1, <1>2, StepWithin
<1>4. Modified(s.d, LetterL, s.args) = Inside(More(l), h, p, k)
  BY <1>3, InsideIs, ModifiedIs
<1>5. Refines(s, LetterL) = State(Inside(More(l), h, p, k), a, t)
  BY <1>3, <1>4, CodesDiffer DEF Refines
<1> QED
  BY <1>1, <1>3, <1>5

LEMMA StepShort ==
    ASSUME NEW l, NEW h, NEW p, NEW k, NEW a, NEW t
    PROVE  Step(State(Inside(l, h, p, k), a, t), LetterH) = State(Inside(l, More(h), p, k), a, t)
<1>1. PICK s : s = State(Inside(l, h, p, k), a, t)
  OBVIOUS
<1>2. Modifies(s.d, LetterH)
  BY DEF Modifies
<1>3. s.d = Inside(l, h, p, k) /\ s.args = a /\ s.text = t /\ Step(s, LetterH) = Refines(s, LetterH)
  BY <1>1, <1>2, StepWithin
<1>4. Modified(s.d, LetterH, s.args) = Inside(l, More(h), p, k)
  BY <1>3, InsideIs, ModifiedIs
<1>5. Refines(s, LetterH) = State(Inside(l, More(h), p, k), a, t)
  BY <1>3, <1>4, CodesDiffer DEF Refines
<1> QED
  BY <1>1, <1>3, <1>5

LEMMA StepPoint ==
    ASSUME NEW l, NEW h, NEW p, NEW k, NEW a, NEW t
    PROVE  Step(State(Inside(l, h, p, k), a, t), POINT) = State(Inside(l, h, Yes, k), a, t)
<1>1. PICK s : s = State(Inside(l, h, p, k), a, t)
  OBVIOUS
<1>2. Modifies(s.d, POINT)
  BY DEF Modifies
<1>3. s.d = Inside(l, h, p, k) /\ s.args = a /\ s.text = t /\ Step(s, POINT) = Refines(s, POINT)
  BY <1>1, <1>2, StepWithin
<1>4. Modified(s.d, POINT, s.args) = Inside(l, h, Yes, k)
  BY <1>3, InsideIs, ModifiedIs
<1>5. Refines(s, POINT) = State(Inside(l, h, Yes, k), a, t)
  BY <1>3, <1>4, CodesDiffer DEF Refines
<1> QED
  BY <1>1, <1>3, <1>5

LEMMA StepStar ==
    ASSUME NEW l, NEW h, NEW k, NEW a, NEW t
    PROVE  Step(State(Inside(l, h, Yes, k), a, t), STAR)
              = State(Inside(l, h, Yes, Head(a)), Tail(a), t)
<1>1. PICK s : s = State(Inside(l, h, Yes, k), a, t)
  OBVIOUS
<1>2. s.d = Inside(l, h, Yes, k) /\ s.args = a /\ s.text = t
  BY <1>1, StateIs
<1>3. Modifies(s.d, STAR)
  <2>1. s.d.precise = Yes
    BY <1>2, InsideIs
  <2>2. s.d.precise
    BY <2>1, Zenon DEF Yes
  <2> QED
    BY <2>2 DEF Modifies
<1>4. Step(s, STAR) = Refines(s, STAR)
  BY <1>1, <1>3, StepWithin
<1>5. Modified(s.d, STAR, s.args) = Inside(l, h, Yes, Head(a))
  BY <1>2, InsideIs, ModifiedIs
<1>6. Refines(s, STAR) = State(Inside(l, h, Yes, Head(a)), Tail(a), t)
  BY <1>2, <1>5 DEF Refines
<1> QED
  BY <1>1, <1>4, <1>6

LEMMA StepConverts ==
    ASSUME NEW l, NEW h, NEW p, NEW k, NEW a, NEW t, NEW c, c \in Conversions
    PROVE  Step(State(Inside(l, h, p, k), a, t), c)
              = State(Fresh, Tail(a), t \o ConversionText(Inside(l, h, p, k), c, Head(a)))
<1>1. PICK s : s = State(Inside(l, h, p, k), a, t)
  OBVIOUS
<1>2. s.d = Inside(l, h, p, k) /\ s.args = a /\ s.text = t /\ Step(s, c) = Converts(s, c)
  BY <1>1, StepWithin
<1>3. Converts(s, c) = State(Fresh, Tail(a), t \o ConversionText(Inside(l, h, p, k), c, Head(a)))
  BY <1>2 DEF Converts, AfterDirective
<1> QED
  BY <1>1, <1>2, <1>3

LEMMA StepCloses ==
    ASSUME NEW l, NEW h, NEW p, NEW k, NEW a, NEW t
    PROVE  /\ Step(State(Inside(l, h, p, k), a, t), PERCENT) = State(Fresh, a, Append(t, PERCENT))
           /\ \A c \in 48..57 : Step(State(Inside(l, h, p, k), a, t), c) = State(Fresh, a, t)
<1>1. PICK s : s = State(Inside(l, h, p, k), a, t)
  OBVIOUS
<1>2. s.d = Inside(l, h, p, k) /\ s.args = a /\ s.text = t
  BY <1>1, StateIs
<1>3. Step(s, PERCENT) = Closes(s, PERCENT)
  BY <1>1, CodesDiffer, StepWithin
<1>4. Closes(s, PERCENT) = State(Fresh, a, Append(t, PERCENT))
  BY <1>2 DEF Closes, AfterDirective
<1>5. ASSUME NEW c \in 48..57 PROVE Step(s, c) = State(Fresh, a, t)
  <2>1. Step(s, c) = Closes(s, c)
    BY <1>1, CodesDiffer, StepWithin
  <2>2. Closes(s, c) = State(Fresh, a, t)
    BY <1>2, CodesDiffer DEF Closes, AfterDirective
  <2> QED
    BY <2>1, <2>2
<1> QED
  BY <1>1, <1>3, <1>4, <1>5
-----------------------------------------------------------------------------
(* A directive, whatever comes before and after it *)

LEMMA PairIs ==
    ASSUME NEW a, NEW b
    PROVE  Len(<<a, b>>) = 2 /\ <<a, b>>[1] = a /\ <<a, b>>[2] = b
OBVIOUS

LEMMA TripleIs ==
    ASSUME NEW a, NEW b, NEW c
    PROVE  Len(<<a, b, c>>) = 3 /\ <<a, b, c>>[1] = a /\ <<a, b, c>>[2] = b /\ <<a, b, c>>[3] = c
OBVIOUS

LEMMA QuadIs ==
    ASSUME NEW a, NEW b, NEW c, NEW d
    PROVE  /\ Len(<<a, b, c, d>>) = 4 /\ <<a, b, c, d>>[1] = a /\ <<a, b, c, d>>[2] = b
           /\ <<a, b, c, d>>[3] = c /\ <<a, b, c, d>>[4] = d
OBVIOUS

LEMMA LeadsTwo ==
    ASSUME NEW s, NEW a, NEW b
    PROVE  Leads(s, <<a, b>>, Step(Step(s, a), b))
<1> DEFINE o == <<a, b>>
<1>1. Len(o) = 2 /\ o[1] = a /\ o[2] = b
  BY PairIs
<1> HIDE DEF o
<1>2. ASSUME NEW g, Course(g, o), g[0] = s PROVE g[Len(o)] = Step(Step(s, a), b)
  <2>1. 1 \in 1..Len(o) /\ 1 - 1 = 0 /\ 2 \in 1..Len(o) /\ 2 - 1 = 1
    BY <1>1
  <2>2. g[1] = Step(g[1 - 1], o[1]) /\ g[2] = Step(g[2 - 1], o[2])
    BY <1>2, <2>1 DEF Course
  <2> QED
    BY <1>1, <1>2, <2>1, <2>2
<1>3. Leads(s, o, Step(Step(s, a), b))
  BY <1>1, <1>2 DEF Leads
<1> QED
  BY <1>3 DEF o

LEMMA LeadsThree ==
    ASSUME NEW s, NEW a, NEW b, NEW c
    PROVE  Leads(s, <<a, b, c>>, Step(Step(Step(s, a), b), c))
<1> DEFINE o == <<a, b, c>>
<1>1. Len(o) = 3 /\ o[1] = a /\ o[2] = b /\ o[3] = c
  BY TripleIs
<1> HIDE DEF o
<1>2. ASSUME NEW g, Course(g, o), g[0] = s PROVE g[Len(o)] = Step(Step(Step(s, a), b), c)
  <2>1. /\ 1 \in 1..Len(o) /\ 1 - 1 = 0 /\ 2 \in 1..Len(o) /\ 2 - 1 = 1
        /\ 3 \in 1..Len(o) /\ 3 - 1 = 2
    BY <1>1
  <2>2. /\ g[1] = Step(g[1 - 1], o[1]) /\ g[2] = Step(g[2 - 1], o[2])
        /\ g[3] = Step(g[3 - 1], o[3])
    BY <1>2, <2>1 DEF Course
  <2> QED
    BY <1>1, <1>2, <2>1, <2>2
<1>3. Leads(s, o, Step(Step(Step(s, a), b), c))
  BY <1>1, <1>2 DEF Leads
<1> QED
  BY <1>3 DEF o

LEMMA LeadsFour ==
    ASSUME NEW s, NEW a, NEW b, NEW c, NEW d
    PROVE  Leads(s, <<a, b, c, d>>, Step(Step(Step(Step(s, a), b), c), d))
<1> DEFINE o == <<a, b, c, d>>
<1>1. Len(o) = 4 /\ o[1] = a /\ o[2] = b /\ o[3] = c /\ o[4] = d
  BY QuadIs
<1> HIDE DEF o
<1>2. ASSUME NEW g, Course(g, o), g[0] = s PROVE g[Len(o)] = Step(Step(Step(Step(s, a), b), c), d)
  <2>1. /\ 1 \in 1..Len(o) /\ 1 - 1 = 0 /\ 2 \in 1..Len(o) /\ 2 - 1 = 1
        /\ 3 \in 1..Len(o) /\ 3 - 1 = 2 /\ 4 \in 1..Len(o) /\ 4 - 1 = 3
    BY <1>1
  <2>2. /\ g[1] = Step(g[1 - 1], o[1]) /\ g[2] = Step(g[2 - 1], o[2])
        /\ g[3] = Step(g[3 - 1], o[3]) /\ g[4] = Step(g[4 - 1], o[4])
    BY <1>2, <2>1 DEF Course
  <2> QED
    BY <1>1, <1>2, <2>1, <2>2
<1>3. Leads(s, o, Step(Step(Step(Step(s, a), b), c), d))
  BY <1>1, <1>2 DEF Leads
<1> QED
  BY <1>3 DEF o

\* Whatever comes before and after, the directive takes its arguments and prints the text.
Prints(S, directive, args, text) ==
    \A r \in Seq(S), t \in Seq(Chars) :
        Leads(State(Fresh, args \o r, t), directive, State(Fresh, r, t \o text))

LEMMA PlainPrints ==
    ASSUME NEW S, NEW s \in Seq(Chars), \A i \in DOMAIN s : s[i] # PERCENT
    PROVE  Prints(S, s, <<>>, s)
<1> SUFFICES ASSUME NEW r \in Seq(S), NEW t \in Seq(Chars)
             PROVE  Leads(State(Fresh, <<>> \o r, t), s, State(Fresh, r, t \o s))
  BY DEF Prints
<1>1. <<>> \o r = r
  BY ConcatEmptySeq
<1>2. PICK m \in Nat : m = Len(s) /\ DOMAIN s = 1..m
  OBVIOUS
<1>3. ASSUME NEW g, Course(g, s), g[0] = State(Fresh, r, t)
      PROVE  g[m] = State(Fresh, r, t \o s)
  <2> DEFINE S1 == {n \in Nat : n <= m => g[n] = State(Fresh, r, t \o SubSeq(s, 1, n))}
  <2>1. 0 \in S1
    <3>1. PICK e : e = SubSeq(s, 1, 0) /\ e = <<>>
      <4>1. PICK u \in Int, v \in Int : u = 1 /\ v = 0 /\ v < u
        OBVIOUS
      <4> QED
        BY <4>1, SubSeqEmpty
    <3>2. t \o e = t
      BY <3>1, ConcatEmptySeq
    <3> QED
      BY <1>3, <3>1, <3>2
  <2>2. ASSUME NEW n \in S1 PROVE n + 1 \in S1
    <3>1. n \in Nat /\ n + 1 \in Nat
      OBVIOUS
    <3> SUFFICES ASSUME n + 1 <= m PROVE g[n + 1] = State(Fresh, r, t \o SubSeq(s, 1, n + 1))
      BY <3>1
    <3>2. n <= m
      BY <3>1
    <3>3. g[n] = State(Fresh, r, t \o SubSeq(s, 1, n))
      BY <3>2
    <3> HIDE DEF S1
    <3>4. PICK j \in 1..m : j = n + 1 /\ j - 1 = n
      BY <3>1
    <3>5. PICK c \in Chars : c = s[j] /\ c # PERCENT
      BY <1>2, ElementOfSeq
    <3>6. PICK x \in Seq(Chars) : x = SubSeq(s, 1, n)
      <4>1. \A i \in 1..n : i \in 1..Len(s)
        BY <1>2, <3>1, <3>2
      <4>2. \A i \in 1..n : s[i] \in Chars
        BY <4>1, ElementOfSeq
      <4>3. 1 \in Int /\ n \in Int
        BY <3>1
      <4> QED
        BY <4>2, <4>3, SubSeqProperties
    <3>7. SubSeq(s, 1, j) = x \o <<c>>
      <4>1. 1 \in 1..Len(s) /\ j \in 1..Len(s)
        BY <1>2
      <4>2. SubSeq(s, 1, j) = SubSeq(s, 1, j - 1) \o <<s[j]>>
        BY <4>1, SubSeqRecursiveSecond
      <4> QED
        BY <3>4, <3>5, <3>6, <4>2
    <3>8. g[j] = Step(State(Fresh, r, t \o x), c)
      BY <1>2, <1>3, <3>3, <3>4, <3>5, <3>6 DEF Course
    <3>9. g[j] = State(Fresh, r, Append(t \o x, c))
      BY <3>5, <3>8, StepCopies
    <3>10. PICK y \in Seq(Chars) : y = t \o x
      BY ConcatProperties
    <3>11. PICK o \in Seq(Chars) : o = <<c>>
      BY OneIn
    <3>12. Append(y, c) = y \o o
      BY <3>11, AppendIsConcat
    <3>13. (t \o x) \o o = t \o (x \o o)
      <4>1. ThreeIn(Chars, t, x, o)
        BY DEF ThreeIn
      <4>2. Regroups(t, x, o)
        BY <4>1, Associates
      <4> QED
        BY <4>2 DEF Regroups
    <3> QED
      BY <3>4, <3>7, <3>9, <3>10, <3>11, <3>12, <3>13
  <2>3. S1 \in SUBSET Nat
    OBVIOUS
  <2> HIDE DEF S1
  <2>4. m \in S1
    BY <2>1, <2>2, <2>3, InductionOn
  <2>5. g[m] = State(Fresh, r, t \o SubSeq(s, 1, m))
    BY <2>4 DEF S1
  <2> QED
    BY <1>2, <2>5, SubSeqFull
<1> QED
  BY <1>1, <1>2, <1>3 DEF Leads

LEMMA LettersConvert ==
    /\ LetterC \in Conversions /\ LetterS \in Conversions /\ LetterD \in Conversions
    /\ LetterF \in Conversions /\ LetterU \in Conversions /\ LetterX \in Conversions
    /\ LetterO \in Conversions /\ LetterP \in Conversions
BY DEF Conversions

LEMMA ConversionIs ==
    ASSUME NEW d, NEW v
    PROVE  /\ ConversionText(d, LetterC, v) = <<v>>
           /\ ConversionText(d, LetterS, v) = v
           /\ ConversionText(d, LetterD, v) = DecimalText(d, v)
           /\ ConversionText(d, LetterF, v) = FloatText(d, v)
           /\ ConversionText(d, LetterU, v) = UnsignedText(d, v)
           /\ ConversionText(d, LetterX, v) = HexText(d, v)
           /\ ConversionText(d, LetterO, v) = OctalText(d, v)
           /\ ConversionText(d, LetterP, v) = PointerText(v)
BY DEF ConversionText, LetterC, LetterS, LetterD, LetterF, LetterU, LetterX, LetterO, LetterP

\* The argument is printed,
LEMMA Finishes ==
    ASSUME NEW S, NEW v \in S, NEW r \in Seq(S), NEW l, NEW h, NEW p, NEW k, NEW t,
           NEW c, c \in Conversions
    PROVE  Step(State(Inside(l, h, p, k), <<v>> \o r, t), c)
              = State(Fresh, r, t \o ConversionText(Inside(l, h, p, k), c, v))
<1>1. PICK a : a = <<v>> \o r
  OBVIOUS
<1>2. Head(a) = v /\ Tail(a) = r
  BY <1>1, ConsIs
<1>3. Step(State(Inside(l, h, p, k), a, t), c)
        = State(Fresh, Tail(a), t \o ConversionText(Inside(l, h, p, k), c, Head(a)))
  BY StepConverts
<1> QED
  BY <1>1, <1>2, <1>3

\* at once,
LEMMA LetterPrints ==
    ASSUME NEW S, NEW v \in S, NEW c, c \in Conversions, NEW x,
           x = ConversionText(Inside(0, 0, No, 6), c, v)
    PROVE  Prints(S, <<PERCENT, c>>, <<v>>, x)
<1> SUFFICES ASSUME NEW r \in Seq(S), NEW t \in Seq(Chars)
             PROVE  Leads(State(Fresh, <<v>> \o r, t), <<PERCENT, c>>, State(Fresh, r, t \o x))
  BY DEF Prints
<1>1. PICK a : a = <<v>> \o r
  OBVIOUS
<1>2. Leads(State(Fresh, a, t), <<PERCENT, c>>, Step(Step(State(Fresh, a, t), PERCENT), c))
  BY LeadsTwo
<1>3. Step(State(Fresh, a, t), PERCENT) = State(Inside(0, 0, No, 6), a, t)
  BY StepOpens
<1>4. Step(State(Inside(0, 0, No, 6), a, t), c) = State(Fresh, r, t \o x)
  BY <1>1, Finishes
<1> QED
  BY <1>1, <1>2, <1>3, <1>4

\* or nothing that takes one.
LEMMA PercentPrints ==
    ASSUME NEW S
    PROVE  Prints(S, <<PERCENT, PERCENT>>, <<>>, <<PERCENT>>)
<1> SUFFICES ASSUME NEW r \in Seq(S), NEW t \in Seq(Chars)
             PROVE  Leads(State(Fresh, <<>> \o r, t), <<PERCENT, PERCENT>>,
                          State(Fresh, r, t \o <<PERCENT>>))
  BY DEF Prints
<1>1. <<>> \o r = r
  BY ConcatEmptySeq
<1>2. Leads(State(Fresh, r, t), <<PERCENT, PERCENT>>,
            Step(Step(State(Fresh, r, t), PERCENT), PERCENT))
  BY LeadsTwo
<1>3. Step(State(Fresh, r, t), PERCENT) = State(Inside(0, 0, No, 6), r, t)
  BY StepOpens
<1>4. Step(State(Inside(0, 0, No, 6), r, t), PERCENT) = State(Fresh, r, Append(t, PERCENT))
  BY StepCloses
<1>5. Append(t, PERCENT) = t \o <<PERCENT>>
  BY CharsKnown, AppendIsConcat
<1> QED
  BY <1>1, <1>2, <1>3, <1>4, <1>5

LEMMA DigitPrints ==
    ASSUME NEW S, NEW c \in 48..57
    PROVE  Prints(S, <<PERCENT, POINT, c>>, <<>>, <<>>)
<1> SUFFICES ASSUME NEW r \in Seq(S), NEW t \in Seq(Chars)
             PROVE  Leads(State(Fresh, <<>> \o r, t), <<PERCENT, POINT, c>>,
                          State(Fresh, r, t \o <<>>))
  BY DEF Prints
<1>1. <<>> \o r = r /\ t \o <<>> = t
  BY ConcatEmptySeq
<1>2. Leads(State(Fresh, r, t), <<PERCENT, POINT, c>>,
            Step(Step(Step(State(Fresh, r, t), PERCENT), POINT), c))
  BY LeadsThree
<1>3. Step(State(Fresh, r, t), PERCENT) = State(Inside(0, 0, No, 6), r, t)
  BY StepOpens
<1>4. Step(State(Inside(0, 0, No, 6), r, t), POINT) = State(Inside(0, 0, Yes, 6), r, t)
  BY StepPoint
<1>5. Step(State(Inside(0, 0, Yes, 6), r, t), c) = State(Fresh, r, t)
  BY StepCloses
<1> QED
  BY <1>1, <1>2, <1>3, <1>4, <1>5

LEMMA OneChar ==
    ASSUME NEW s \in Seq(Chars), Len(s) = 1
    PROVE  s[1] \in Chars /\ s = <<s[1]>>
<1>1. PICK c : c = s[1] /\ c \in Chars
  <2>1. 1 \in 1..Len(s)
    OBVIOUS
  <2> QED
    BY <2>1, ElementOfSeq
<1>2. PICK o \in Seq(Chars) : o = <<c>> /\ Len(o) = 1 /\ o[1] = c
  BY <1>1, OneIn
<1>3. Len(s) = Len(o) /\ \A i \in 1..Len(s) : s[i] = o[i]
  BY <1>1, <1>2
<1>4. s = o
  BY <1>3, SeqEqual
<1> QED
  BY <1>1, <1>2, <1>4

\* Text is printed as it is meant.
LEMMA TextPrints ==
    ASSUME NEW S, NEW part, IsText(part), part.args \in Seq(S)
    PROVE  Prints(S, part.directive, part.args, part.chars)
<1>1. PICK s \in Seq(Chars) : s = part.chars
  BY DEF IsText
<1>2. PICK d, a : d = part.directive /\ a = part.args /\ a \in Seq(S)
  OBVIOUS
<1>3. CASE d = s /\ a = <<>> /\ \A i \in DOMAIN s : s[i] # PERCENT
  <2>1. Prints(S, s, <<>>, s)
    BY <1>3, PlainPrints
  <2> QED
    BY <1>1, <1>2, <1>3, <2>1
<1>4. CASE d = <<PERCENT, LetterS>> /\ a = <<s>>
  <2>1. s \in S
    <3>1. 1 \in 1..Len(a) /\ a[1] = s
      BY <1>4
    <3> QED
      BY <1>2, <3>1, ElementOfSeq
  <2>2. s = ConversionText(Inside(0, 0, No, 6), LetterS, s)
    BY ConversionIs
  <2>3. Prints(S, <<PERCENT, LetterS>>, <<s>>, s)
    BY <2>1, <2>2, LettersConvert, LetterPrints
  <2> QED
    BY <1>1, <1>2, <1>4, <2>3
<1>5. CASE d = <<PERCENT, LetterC>> /\ a = s /\ Len(s) = 1
  <2>1. PICK c : c = s[1] /\ s = <<c>>
    BY <1>5, OneChar
  <2>2. c \in S
    <3>1. 1 \in 1..Len(a) /\ a[1] = c
      BY <1>5, <2>1
    <3> QED
      BY <1>2, <3>1, ElementOfSeq
  <2>3. s = ConversionText(Inside(0, 0, No, 6), LetterC, c)
    BY <2>1, ConversionIs
  <2>4. Prints(S, <<PERCENT, LetterC>>, <<c>>, s)
    BY <2>2, <2>3, LettersConvert, LetterPrints
  <2> QED
    BY <1>1, <1>2, <1>5, <2>1, <2>4
<1>6. CASE d = <<PERCENT, PERCENT>> /\ a = <<>> /\ s = <<PERCENT>>
  <2>1. Prints(S, <<PERCENT, PERCENT>>, <<>>, <<PERCENT>>)
    BY PercentPrints
  <2> QED
    BY <1>1, <1>2, <1>6, <2>1
<1>7. CASE (\E c \in 48..57 : d = <<PERCENT, POINT, c>>) /\ a = <<>> /\ s = <<>>
  <2>1. PICK c \in 48..57 : d = <<PERCENT, POINT, c>>
    BY <1>7
  <2>2. Prints(S, <<PERCENT, POINT, c>>, <<>>, <<>>)
    BY DigitPrints
  <2> QED
    BY <1>1, <1>2, <1>7, <2>1, <2>2
<1> QED
  BY <1>1, <1>2, <1>3, <1>4, <1>5, <1>6, <1>7 DEF IsText
-----------------------------------------------------------------------------
(* How long a directive takes its argument for *)

\* The lengths of a directive: behind its letters it waits for this many bits.
Lengthens(ls, bits) ==
    \E x, y :
        /\ \A p, k : Width(Inside(x, y, p, k)) = bits
        /\ \A p, k, a, t : Leads(State(Inside(0, 0, p, k), a, t), ls,
                                 State(Inside(x, y, p, k), a, t))

LEMMA MoreIs == More(0) = 1 /\ More(1) = 2
BY DEF More

LEMMA WidthOf ==
    ASSUME NEW p, NEW k
    PROVE  /\ Width(Inside(0, 0, p, k)) = ShortBits /\ Width(Inside(0, 1, p, k)) = ShortBits
           /\ Width(Inside(0, 2, p, k)) = CharBits /\ Width(Inside(1, 0, p, k)) = IntBits
           /\ Width(Inside(2, 0, p, k)) = LongBits /\ Width(Inside(1, 1, p, k)) = IntBits
BY InsideIs DEF Width

LEMMA NoLetter == Lengthens(<<>>, ShortBits)
<1>1. \A p, k : Width(Inside(0, 0, p, k)) = ShortBits
  BY WidthOf
<1>2. \A p, k, a, t : Leads(State(Inside(0, 0, p, k), a, t), <<>>, State(Inside(0, 0, p, k), a, t))
  BY LeadsNowhere
<1> QED
  BY <1>1, <1>2 DEF Lengthens

LEMMA OneLetter == Lengthens(<<LetterH>>, ShortBits) /\ Lengthens(<<LetterL>>, IntBits)
<1>1. \A p, k : Width(Inside(0, 1, p, k)) = ShortBits /\ Width(Inside(1, 0, p, k)) = IntBits
  BY WidthOf
<1>2. ASSUME NEW p, NEW k, NEW a, NEW t
      PROVE  /\ Leads(State(Inside(0, 0, p, k), a, t), <<LetterH>>, State(Inside(0, 1, p, k), a, t))
             /\ Leads(State(Inside(0, 0, p, k), a, t), <<LetterL>>, State(Inside(1, 0, p, k), a, t))
  <2>1. PICK s : s = State(Inside(0, 0, p, k), a, t)
    OBVIOUS
  <2>2. Leads(s, <<LetterH>>, Step(s, LetterH)) /\ Leads(s, <<LetterL>>, Step(s, LetterL))
    BY LeadsOne
  <2>3. Step(s, LetterH) = State(Inside(0, 1, p, k), a, t)
    BY <2>1, StepShort, MoreIs
  <2>4. Step(s, LetterL) = State(Inside(1, 0, p, k), a, t)
    BY <2>1, StepLong, MoreIs
  <2> QED
    BY <2>1, <2>2, <2>3, <2>4
<1> QED
  BY <1>1, <1>2 DEF Lengthens

LEMMA TwoLetters ==
    /\ Lengthens(<<LetterH, LetterH>>, CharBits) /\ Lengthens(<<LetterL, LetterL>>, LongBits)
    /\ Lengthens(<<LetterH, LetterL>>, IntBits)
<1>1. \A p, k : /\ Width(Inside(0, 2, p, k)) = CharBits /\ Width(Inside(2, 0, p, k)) = LongBits
                /\ Width(Inside(1, 1, p, k)) = IntBits
  BY WidthOf
<1>2. ASSUME NEW p, NEW k, NEW a, NEW t, NEW s, s = State(Inside(0, 0, p, k), a, t)
      PROVE  /\ Leads(s, <<LetterH, LetterH>>, State(Inside(0, 2, p, k), a, t))
             /\ Leads(s, <<LetterL, LetterL>>, State(Inside(2, 0, p, k), a, t))
             /\ Leads(s, <<LetterH, LetterL>>, State(Inside(1, 1, p, k), a, t))
  <2>1. Step(s, LetterH) = State(Inside(0, 1, p, k), a, t)
    BY <1>2, StepShort, MoreIs
  <2>2. Step(s, LetterL) = State(Inside(1, 0, p, k), a, t)
    BY <1>2, StepLong, MoreIs
  <2>3. Step(State(Inside(0, 1, p, k), a, t), LetterH) = State(Inside(0, 2, p, k), a, t)
    BY StepShort, MoreIs
  <2>4. Step(State(Inside(1, 0, p, k), a, t), LetterL) = State(Inside(2, 0, p, k), a, t)
    BY StepLong, MoreIs
  <2>5. Step(State(Inside(0, 1, p, k), a, t), LetterL) = State(Inside(1, 1, p, k), a, t)
    BY StepLong, MoreIs
  <2>6. Leads(s, <<LetterH, LetterH>>, Step(Step(s, LetterH), LetterH))
    BY LeadsTwo
  <2>7. Leads(s, <<LetterL, LetterL>>, Step(Step(s, LetterL), LetterL))
    BY LeadsTwo
  <2>8. Leads(s, <<LetterH, LetterL>>, Step(Step(s, LetterH), LetterL))
    BY LeadsTwo
  <2> QED
    BY <2>1, <2>2, <2>3, <2>4, <2>5, <2>6, <2>7, <2>8
<1>3. \A p, k, a, t : Leads(State(Inside(0, 0, p, k), a, t), <<LetterH, LetterH>>,
                            State(Inside(0, 2, p, k), a, t))
  BY <1>2
<1>4. \A p, k, a, t : Leads(State(Inside(0, 0, p, k), a, t), <<LetterL, LetterL>>,
                            State(Inside(2, 0, p, k), a, t))
  BY <1>2
<1>5. \A p, k, a, t : Leads(State(Inside(0, 0, p, k), a, t), <<LetterH, LetterL>>,
                            State(Inside(1, 1, p, k), a, t))
  BY <1>2
<1>6. Lengthens(<<LetterH, LetterH>>, CharBits)
  BY <1>1, <1>3 DEF Lengthens
<1>7. Lengthens(<<LetterL, LetterL>>, LongBits)
  BY <1>1, <1>4 DEF Lengthens
<1>8. Lengthens(<<LetterH, LetterL>>, IntBits)
  BY <1>1, <1>5 DEF Lengthens
<1> QED
  BY <1>6, <1>7, <1>8

\* The codes are numbers.
LEMMA CodesAre ==
    /\ PERCENT \in Nat /\ STAR \in Nat /\ POINT \in Nat /\ LetterC \in Nat /\ LetterD \in Nat
    /\ LetterF \in Nat /\ LetterH \in Nat /\ LetterL \in Nat /\ LetterO \in Nat
    /\ LetterP \in Nat /\ LetterS \in Nat /\ LetterU \in Nat /\ LetterX \in Nat
BY DEF PERCENT, STAR, POINT, LetterC, LetterD, LetterF, LetterH, LetterL, LetterO, LetterP,
       LetterS, LetterU, LetterX

LEMMA TwoIn ==
    ASSUME NEW S, NEW a \in S, NEW b \in S
    PROVE  <<a, b>> \in Seq(S)
OBVIOUS

LEMMA EveryLength ==
    ASSUME NEW length \in Lengths
    PROVE  /\ length[1] \in Seq(Nat) /\ length[2] \in Nat \ {0}
           /\ Lengthens(length[1], length[2])
<1> DEFINE Good(ls, bits) == ls \in Seq(Nat) /\ bits \in Nat \ {0} /\ Lengthens(ls, bits)
<1>1. /\ <<>> \in Seq(Nat) /\ <<LetterH>> \in Seq(Nat) /\ <<LetterL>> \in Seq(Nat)
      /\ <<LetterH, LetterH>> \in Seq(Nat) /\ <<LetterL, LetterL>> \in Seq(Nat)
      /\ <<LetterH, LetterL>> \in Seq(Nat)
  BY CodesAre, OneIn, TwoIn, EmptySeq
<1>2. /\ Good(<<>>, ShortBits) /\ Good(<<LetterH>>, ShortBits) /\ Good(<<LetterL>>, IntBits)
      /\ Good(<<LetterH, LetterH>>, CharBits) /\ Good(<<LetterL, LetterL>>, LongBits)
      /\ Good(<<LetterH, LetterL>>, IntBits)
  BY <1>1, WidthsAre, NoLetter, OneLetter, TwoLetters
<1> HIDE DEF Good
<1>3. \E ls, bits : Good(ls, bits) /\ length = <<ls, bits>>
  BY <1>2 DEF Lengths
<1>4. PICK ls, bits : Good(ls, bits) /\ length = <<ls, bits>>
  BY <1>3
<1>5. length[1] = ls /\ length[2] = bits
  BY <1>4
<1> QED
  BY <1>4, <1>5 DEF Good

\* What a directive of a width prints of an argument
Makes(precise, k, bits, c, v, x) ==
    \A l, h : Width(Inside(l, h, precise, k)) = bits
                  => ConversionText(Inside(l, h, precise, k), c, v) = x

\* Opened, lengthened, finished
LEMMA Goes ==
    ASSUME NEW S, NEW pre \in Seq(Nat), NEW ls \in Seq(Nat), NEW bits, Lengthens(ls, bits),
           NEW c \in Conversions, c \in Nat, NEW v \in S, NEW x, NEW p, NEW k,
           Makes(p, k, bits, c, v, x), NEW r \in Seq(S), NEW t, NEW s,
           Leads(s, pre, State(Inside(0, 0, p, k), <<v>> \o r, t))
    PROVE  Leads(s, pre \o ls \o <<c>>, State(Fresh, r, t \o x))
<1>1. PICK w : w = <<v>> \o r
  OBVIOUS
<1>2. PICK l, h : /\ \A q, j : Width(Inside(l, h, q, j)) = bits
                  /\ \A q, j, a, u : Leads(State(Inside(0, 0, q, j), a, u), ls,
                                           State(Inside(l, h, q, j), a, u))
  BY DEF Lengthens
<1>3. Leads(State(Inside(0, 0, p, k), w, t), ls, State(Inside(l, h, p, k), w, t))
  BY <1>2
<1>4. Leads(s, pre \o ls, State(Inside(l, h, p, k), w, t))
  BY <1>1, <1>3, LeadsOn
<1>5. Step(State(Inside(l, h, p, k), w, t), c) = State(Fresh, r, t \o x)
  <2>1. ConversionText(Inside(l, h, p, k), c, v) = x
    BY <1>2 DEF Makes
  <2> QED
    BY <1>1, <2>1, Finishes
<1>6. Leads(State(Inside(l, h, p, k), w, t), <<c>>, State(Fresh, r, t \o x))
  BY <1>5, LeadsOne
<1>7. PICK u \in Seq(Nat) : u = pre \o ls
  BY ConcatProperties
<1>8. PICK o \in Seq(Nat) : o = <<c>>
  BY OneIn
<1> QED
  BY <1>4, <1>6, <1>7, <1>8, LeadsOn

LEMMA ShortPrints ==
    ASSUME NEW S, NEW ls \in Seq(Nat), NEW bits, Lengthens(ls, bits),
           NEW c \in Conversions, c \in Nat, NEW v \in S, NEW x, Makes(No, 6, bits, c, v, x)
    PROVE  Prints(S, <<PERCENT>> \o ls \o <<c>>, <<v>>, x)
<1> SUFFICES ASSUME NEW r \in Seq(S), NEW t \in Seq(Chars)
             PROVE  Leads(State(Fresh, <<v>> \o r, t), <<PERCENT>> \o ls \o <<c>>,
                          State(Fresh, r, t \o x))
  BY DEF Prints
<1>1. PICK s : s = State(Fresh, <<v>> \o r, t)
  OBVIOUS
<1>2. PICK pre \in Seq(Nat) : pre = <<PERCENT>>
  BY CodesAre, OneIn
<1>3. Step(s, PERCENT) = State(Inside(0, 0, No, 6), <<v>> \o r, t)
  BY <1>1, StepOpens
<1>4. Leads(s, pre, State(Inside(0, 0, No, 6), <<v>> \o r, t))
  BY <1>2, <1>3, LeadsOne
<1>5. Leads(s, pre \o ls \o <<c>>, State(Fresh, r, t \o x))
  BY <1>4, Goes
<1> QED
  BY <1>1, <1>2, <1>5

LEMMA TwoArguments ==
    ASSUME NEW S, NEW a \in S, NEW b \in S, NEW r \in Seq(S)
    PROVE  <<a, b>> \o r = <<a>> \o (<<b>> \o r)
<1>1. PICK x \in Seq(S) : x = <<a>>
  BY OneIn
<1>2. PICK y \in Seq(S) : y = <<b>>
  BY OneIn
<1>3. x \o y = <<a, b>>
  <2>1. PICK w \in Seq(S) : w = <<a, b>>
    BY TwoIn
  <2>2. Len(w) = 2 /\ w[1] = a /\ w[2] = b
    BY <2>1, PairIs
  <2>3. Len(x) = 1 /\ Len(y) = 1 /\ x[1] = a /\ y[1] = b
    BY <1>1, <1>2, OneIn
  <2>4. PICK u \in Seq(S) : u = x \o y
    BY ConcatProperties
  <2>5. Len(u) = 2 /\ u[1] = a /\ u[2] = b
    <3>1. /\ Len(u) = Len(x) + Len(y)
          /\ \A i \in 1..(Len(x) + Len(y)) : u[i] = IF i <= Len(x) THEN x[i] ELSE y[i - Len(x)]
      BY <2>4, ConcatProperties
    <3>2. 1 \in 1..(1 + 1) /\ 2 \in 1..(1 + 1) /\ 1 <= 1 /\ ~(2 <= 1) /\ 2 - 1 = 1 /\ 1 + 1 = 2
      OBVIOUS
    <3> QED
      BY <2>3, <3>1, <3>2
  <2>6. \A i \in 1..Len(u) : u[i] = w[i]
    BY <2>2, <2>5
  <2> QED
    BY <2>1, <2>2, <2>4, <2>5, <2>6, SeqEqual
<1>4. Regroups(x, y, r)
  BY Associates DEF ThreeIn
<1> QED
  BY <1>1, <1>2, <1>3, <1>4 DEF Regroups

\* A precision comes first.
LEMMA StarSteps ==
    ASSUME NEW S, NEW k \in S, NEW v \in S, NEW r \in Seq(S), NEW t
    PROVE  Step(Step(Step(State(Fresh, <<k, v>> \o r, t), PERCENT), POINT), STAR)
              = State(Inside(0, 0, Yes, k), <<v>> \o r, t)
<1>1. PICK w \in Seq(S) : w = <<v>> \o r
  BY ConsIs
<1>2. PICK a : a = <<k, v>> \o r
  OBVIOUS
<1>3. a = <<k>> \o w
  BY <1>1, <1>2, TwoArguments
<1>4. Head(a) = k /\ Tail(a) = w
  BY <1>3, ConsIs
<1>5. Step(State(Fresh, a, t), PERCENT) = State(Inside(0, 0, No, 6), a, t)
  BY StepOpens
<1>6. Step(State(Inside(0, 0, No, 6), a, t), POINT) = State(Inside(0, 0, Yes, 6), a, t)
  BY StepPoint
<1>7. Step(State(Inside(0, 0, Yes, 6), a, t), STAR) = State(Inside(0, 0, Yes, k), w, t)
  <2>1. Step(State(Inside(0, 0, Yes, 6), a, t), STAR) = State(Inside(0, 0, Yes, Head(a)), Tail(a), t)
    BY StepStar
  <2> QED
    BY <1>4, <2>1
<1> QED
  BY <1>1, <1>2, <1>5, <1>6, <1>7

LEMMA StarGoes ==
    ASSUME NEW S, NEW k \in S, NEW v \in S, NEW r \in Seq(S), NEW t
    PROVE  Leads(State(Fresh, <<k, v>> \o r, t), <<PERCENT, POINT, STAR>>,
                 State(Inside(0, 0, Yes, k), <<v>> \o r, t))
<1>1. PICK s : s = State(Fresh, <<k, v>> \o r, t)
  OBVIOUS
<1>2. Leads(s, <<PERCENT, POINT, STAR>>, Step(Step(Step(s, PERCENT), POINT), STAR))
  BY LeadsThree
<1>3. Step(Step(Step(s, PERCENT), POINT), STAR) = State(Inside(0, 0, Yes, k), <<v>> \o r, t)
  BY <1>1, StarSteps
<1> QED
  BY <1>1, <1>2, <1>3

LEMMA ThreeCodes == <<PERCENT, POINT, STAR>> \in Seq(Nat)
BY CodesAre

LEMMA StarPrints ==
    ASSUME NEW S, NEW ls \in Seq(Nat), NEW bits, Lengthens(ls, bits), NEW k \in S,
           NEW c \in Conversions, c \in Nat, NEW v \in S, NEW x, Makes(Yes, k, bits, c, v, x)
    PROVE  Prints(S, <<PERCENT, POINT, STAR>> \o ls \o <<c>>, <<k, v>>, x)
<1> SUFFICES ASSUME NEW r \in Seq(S), NEW t \in Seq(Chars)
             PROVE  Leads(State(Fresh, <<k, v>> \o r, t), <<PERCENT, POINT, STAR>> \o ls \o <<c>>,
                          State(Fresh, r, t \o x))
  BY DEF Prints
<1>1. PICK s : s = State(Fresh, <<k, v>> \o r, t)
  OBVIOUS
<1>2. PICK pre \in Seq(Nat) : pre = <<PERCENT, POINT, STAR>>
  BY ThreeCodes
<1>3. Leads(s, pre, State(Inside(0, 0, Yes, k), <<v>> \o r, t))
  BY <1>1, <1>2, StarGoes
<1>4. Leads(s, pre \o ls \o <<c>>, State(Fresh, r, t \o x))
  BY <1>3, Goes
<1> QED
  BY <1>1, <1>2, <1>4

\* The texts of the integers
Shown(signed, n, bits, base, k) ==
    IF signed THEN number_to_string(Signed(n, bits), base, k)
              ELSE unsigned_number_to_string(Unsigned(n, bits), base, k)

LEMMA PrecisionIs ==
    ASSUME NEW l, NEW h, NEW k
    PROVE  Precision(Inside(l, h, No, k)) = 0 /\ Precision(Inside(l, h, Yes, k)) = k
<1>1. Inside(l, h, No, k).precise = No /\ Inside(l, h, Yes, k).precise = Yes
      /\ Inside(l, h, Yes, k).precision = k
  BY InsideIs
<1>2. ~Inside(l, h, No, k).precise
  BY <1>1, Zenon DEF No
<1>3. Inside(l, h, Yes, k).precise
  BY <1>1, Zenon DEF Yes
<1> QED
  BY <1>1, <1>2, <1>3 DEF Precision

LEMMA EveryNumeral ==
    ASSUME NEW numeral \in Numerals
    PROVE  /\ numeral[1] \in Conversions /\ numeral[1] \in Nat /\ numeral[2] \in Bases
           /\ numeral[3] \in BOOLEAN
           /\ \A d, v : ConversionText(d, numeral[1], v)
                           = Shown(numeral[3], v, Width(d), numeral[2], Precision(d))
<1> DEFINE Good(c, base, signed) ==
             /\ c \in Conversions /\ c \in Nat /\ base \in Bases /\ signed \in BOOLEAN
             /\ \A d, v : ConversionText(d, c, v) = Shown(signed, v, Width(d), base, Precision(d))
<1>1. 10 \in Bases /\ 16 \in Bases /\ 8 \in Bases
  BY DEF Bases
<1>2. Good(LetterD, 10, TRUE)
  BY <1>1, CodesAre, LettersConvert, ConversionIs DEF Shown, DecimalText
<1>3. Good(LetterU, 10, FALSE)
  BY <1>1, CodesAre, LettersConvert, ConversionIs DEF Shown, UnsignedText
<1>4. Good(LetterX, 16, FALSE)
  BY <1>1, CodesAre, LettersConvert, ConversionIs DEF Shown, HexText
<1>5. Good(LetterO, 8, FALSE)
  BY <1>1, CodesAre, LettersConvert, ConversionIs DEF Shown, OctalText
<1> HIDE DEF Good
<1>6. PICK c, base, signed : Good(c, base, signed) /\ numeral = <<c, base, signed>>
  BY <1>2, <1>3, <1>4, <1>5 DEF Numerals
<1>7. numeral[1] = c /\ numeral[2] = base /\ numeral[3] = signed
  BY <1>6
<1> QED
  BY <1>6, <1>7 DEF Good
-----------------------------------------------------------------------------
(* A part is printed as a text that says what it means *)

\* Whatever comes before and after, a part is printed as a text that says what it means.
Meant(S, part) == \E text \in Seq(Chars) : /\ Says(text, part)
                                           /\ Prints(S, part.directive, part.args, text)

LEMMA TextMeant ==
    ASSUME NEW S, NEW part, part.kind = "text", IsText(part), part.args \in Seq(S)
    PROVE  Meant(S, part)
<1>1. PICK text : text = part.chars
  OBVIOUS
<1>2. text \in Seq(Chars)
  BY <1>1 DEF IsText
<1>3. Says(text, part)
  BY <1>1 DEF Says
<1>4. Prints(S, part.directive, part.args, text)
  BY <1>1, TextPrints
<1> QED
  BY <1>2, <1>3, <1>4 DEF Meant

LEMMA ShownSays ==
    ASSUME NEW part, part.value \in Int, part.bits \in Nat \ {0}, part.signed \in BOOLEAN,
           NEW base \in Bases, NEW k \in Nat, NEW s,
           s = Shown(part.signed, part.value, part.bits, base, k)
    PROVE  s \in Seq(Chars) /\ SignedNumeral(s, Said(part), base, k)
<1>1. part.signed = TRUE \/ part.signed = FALSE
  BY Zenon
<1>2. CASE part.signed = TRUE
  <2>1. s = number_to_string(Signed(part.value, part.bits), base, k)
    BY <1>2 DEF Shown
  <2> QED
    BY <1>2, <2>1, SignedSays
<1>3. CASE part.signed = FALSE
  <2>1. s = unsigned_number_to_string(Unsigned(part.value, part.bits), base, k)
    BY <1>3 DEF Shown
  <2> QED
    BY <1>3, <2>1, UnsignedSays
<1> QED
  BY <1>1, <1>2, <1>3

\* The elements of a list of arguments
LEMMA Arguments1 ==
    ASSUME NEW S, NEW v, <<v>> \in Seq(S)
    PROVE  v \in S
<1> DEFINE a == <<v>>
<1>1. Len(a) = 1 /\ a[1] = v
  <2>1. v \in {v}
    OBVIOUS
  <2> QED
    BY <2>1, OneIn
<1>2. a \in Seq(S)
  OBVIOUS
<1> HIDE DEF a
<1>3. 1 \in 1..Len(a)
  BY <1>1
<1> QED
  BY <1>1, <1>2, <1>3, ElementOfSeq

LEMMA Arguments2 ==
    ASSUME NEW S, NEW k, NEW v, <<k, v>> \in Seq(S)
    PROVE  k \in S /\ v \in S
<1> DEFINE a == <<k, v>>
<1>1. Len(a) = 2 /\ a[1] = k /\ a[2] = v
  BY PairIs
<1>2. a \in Seq(S)
  OBVIOUS
<1> HIDE DEF a
<1>3. 1 \in 1..Len(a) /\ 2 \in 1..Len(a)
  BY <1>1
<1> QED
  BY <1>1, <1>2, <1>3, ElementOfSeq

\* What the directive of an integer prints
LEMMA NumeralMakes ==
    ASSUME NEW numeral \in Numerals, NEW bits, NEW n, NEW k, NEW j
    PROVE  /\ Makes(No, j, bits, numeral[1], n, Shown(numeral[3], n, bits, numeral[2], 0))
           /\ Makes(Yes, k, bits, numeral[1], n, Shown(numeral[3], n, bits, numeral[2], k))
<1>1. \A d, v : ConversionText(d, numeral[1], v)
                   = Shown(numeral[3], v, Width(d), numeral[2], Precision(d))
  BY EveryNumeral
<1>2. ASSUME NEW l, NEW h, Width(Inside(l, h, No, j)) = bits
      PROVE  ConversionText(Inside(l, h, No, j), numeral[1], n)
                 = Shown(numeral[3], n, bits, numeral[2], 0)
  BY <1>1, <1>2, PrecisionIs
<1>3. ASSUME NEW l, NEW h, Width(Inside(l, h, Yes, k)) = bits
      PROVE  ConversionText(Inside(l, h, Yes, k), numeral[1], n)
                 = Shown(numeral[3], n, bits, numeral[2], k)
  BY <1>1, <1>3, PrecisionIs
<1> QED
  BY <1>2, <1>3 DEF Makes

LEMMA NumberMeant ==
    ASSUME NEW S, NEW part, part.kind = "number", IsNumber(part), part.args \in Seq(S)
    PROVE  Meant(S, part)
<1>1. PICK length \in Lengths, numeral \in Numerals :
        /\ part.bits = length[2] /\ part.base = numeral[2] /\ part.signed = numeral[3]
        /\ part.prefix = <<>> /\ part.value \in Int /\ part.precision \in Nat
        /\ \/ /\ part.precision = 0 /\ part.args = <<part.value>>
              /\ part.directive = <<PERCENT>> \o length[1] \o <<numeral[1]>>
           \/ /\ part.args = <<part.precision, part.value>>
              /\ part.directive = <<PERCENT, POINT, STAR>> \o length[1] \o <<numeral[1]>>
  BY Zenon DEF IsNumber
<1>2. PICK ls, bits : ls = length[1] /\ bits = length[2]
  OBVIOUS
<1>3. ls \in Seq(Nat) /\ bits \in Nat \ {0} /\ Lengthens(ls, bits)
  BY <1>2, EveryLength
<1>4. PICK c, base, signed : c = numeral[1] /\ base = numeral[2] /\ signed = numeral[3]
  OBVIOUS
<1>5. c \in Conversions /\ c \in Nat /\ base \in Bases
  BY <1>4, EveryNumeral
<1>6. part.signed \in BOOLEAN
  <2>1. numeral[3] \in BOOLEAN
    BY EveryNumeral
  <2> QED
    BY <1>1, <2>1, Zenon
<1>7. PICK n, k : n = part.value /\ k = part.precision
  OBVIOUS
<1>8. PICK x : x = Shown(signed, n, bits, base, k)
  OBVIOUS
<1>9. x \in Seq(Chars) /\ SignedNumeral(x, Said(part), base, k)
  <2>1. part.bits \in Nat \ {0} /\ part.value \in Int /\ k \in Nat
    BY <1>1, <1>2, <1>3, <1>7
  <2>2. x = Shown(part.signed, part.value, part.bits, base, k)
    BY <1>1, <1>2, <1>4, <1>7, <1>8
  <2> QED
    BY <1>5, <1>6, <2>1, <2>2, ShownSays
<1>10. Says(x, part)
  <2>1. SignedNumeral(x, Said(part), part.base, part.precision)
    BY <1>1, <1>4, <1>7, <1>9
  <2> QED
    BY <1>1, <2>1 DEF Says
<1>11. CASE k = 0 /\ part.args = <<n>> /\ part.directive = <<PERCENT>> \o ls \o <<c>>
  <2>1. n \in S
    BY <1>11, Arguments1
  <2>2. Makes(No, 6, bits, c, n, x)
    <3>1. Makes(No, 6, bits, numeral[1], n, Shown(numeral[3], n, bits, numeral[2], 0))
      BY NumeralMakes
    <3> QED
      BY <1>4, <1>8, <1>11, <3>1
  <2>3. Prints(S, <<PERCENT>> \o ls \o <<c>>, <<n>>, x)
    BY <1>3, <1>5, <2>1, <2>2, ShortPrints
  <2> QED
    BY <1>9, <1>10, <1>11, <2>3 DEF Meant
<1>12. CASE part.args = <<k, n>> /\ part.directive = <<PERCENT, POINT, STAR>> \o ls \o <<c>>
  <2>1. k \in S /\ n \in S
    BY <1>12, Arguments2
  <2>2. Makes(Yes, k, bits, c, n, x)
    <3>1. Makes(Yes, k, bits, numeral[1], n, Shown(numeral[3], n, bits, numeral[2], k))
      BY NumeralMakes
    <3> QED
      BY <1>4, <1>8, <3>1
  <2>3. Prints(S, <<PERCENT, POINT, STAR>> \o ls \o <<c>>, <<k, n>>, x)
    BY <1>3, <1>5, <2>1, <2>2, StarPrints
  <2> QED
    BY <1>9, <1>10, <1>12, <2>3 DEF Meant
<1> QED
  BY <1>1, <1>2, <1>4, <1>7, <1>11, <1>12

\* A pointer: no width of its own, and so that of the conversions
LEMMA PointerSays ==
    ASSUME NEW part, IsPointer(part), NEW w, w = unsigned_number_to_string(part.value, 16, 0)
    PROVE  w \in Seq(Chars) /\ SignedNumeral(w, Said(part), 16, 0)
<1>1. PICK n \in Int : n = part.value
  BY DEF IsPointer
<1>2. part.bits = LongBits /\ part.signed = FALSE
  BY DEF IsPointer
<1>3. 16 \in Bases /\ 0 \in Nat
  BY DEF Bases
<1>4. PICK u \in Nat : /\ u = Unsigned(n, IntBits) /\ u \in 0..(Power(2, IntBits) - 1)
                       /\ Congruent(u, n, Power(2, IntBits))
  BY WidthsAre, UnsignedIs
<1>5. Reads(w, u, 16, 0)
  BY <1>1, <1>3, <1>4, UnsignedWrites
<1>6. Said(part) = u
  <2>1. Bits(part.bits) = IntBits
    BY <1>2, WidthsAre DEF Bits
  <2>2. u \in Span(part.signed, Bits(part.bits))
    BY <1>2, <1>4, <2>1 DEF Span
  <2>3. u \in Int /\ part.value \in Int /\ part.bits \in Nat \ {0}
    BY <1>1, <1>2, WidthsAre
  <2>4. part.signed \in BOOLEAN
    BY <1>2, Zenon
  <2>5. Congruent(u, part.value, Power(2, Bits(part.bits)))
    BY <1>1, <1>4, <2>1
  <2> QED
    BY <2>2, <2>3, <2>4, <2>5, SaidIs
<1>7. ~(u < 0) /\ u \in Int /\ u = IF u < 0 THEN -u ELSE u
  OBVIOUS
<1>8. Minus(w, u) = w
  BY <1>7 DEF Minus
<1>9. w \in Seq(Chars) /\ SignedNumeral(w, u, 16, 0)
  BY <1>3, <1>5, <1>7, <1>8, SignedReads
<1> QED
  BY <1>6, <1>9

\* A text and the prefix in front of it
LEMMA PrefixCut ==
    ASSUME NEW S, NEW a \in Seq(S), NEW b \in Seq(S)
    PROVE  /\ a \o b \in Seq(S) /\ IsPrefix(a, a \o b)
           /\ SubSeq(a \o b, Len(a) + 1, Len(a \o b)) = b
<1> DEFINE s == a \o b
<1>1. PICK m \in Nat, n \in Nat : m = Len(a) /\ n = Len(b)
  OBVIOUS
<1>2. /\ s \in Seq(S) /\ Len(s) = m + n
      /\ \A i \in 1..(m + n) : s[i] = IF i <= m THEN a[i] ELSE b[i - m]
  BY <1>1, ConcatProperties
<1>8. s = a \o b
  OBVIOUS
<1> HIDE DEF s
<1>3. \A i \in 1..n : s[(m + 1) + i - 1] = b[i]
  <2>1. ASSUME NEW i \in 1..n PROVE s[(m + 1) + i - 1] = b[i]
    <3>1. (m + 1) + i - 1 \in 1..(m + n) /\ ~((m + 1) + i - 1 <= m) /\ ((m + 1) + i - 1) - m = i
      OBVIOUS
    <3> QED
      BY <1>2, <3>1
  <2> QED
    BY <2>1
<1>4. \A i \in 1..m : s[1 + i - 1] = a[i] /\ a[1 + i - 1] = a[i]
  <2>1. ASSUME NEW i \in 1..m PROVE s[1 + i - 1] = a[i] /\ a[1 + i - 1] = a[i]
    <3>1. 1 + i - 1 = i /\ i \in 1..(m + n) /\ i <= m
      OBVIOUS
    <3> QED
      BY <1>2, <3>1
  <2> QED
    BY <2>1
<1>5. SubSeq(s, m + 1, m + n) = b
  <2>1. PICK l \in Int, h \in Int : l = m + 1 /\ h = m + n /\ h - l + 1 = n
    OBVIOUS
  <2>2. h - l + 1 = Len(b) /\ \A i \in 1..Len(b) : s[l + i - 1] = b[i]
    BY <1>1, <1>3, <2>1
  <2>3. SubSeq(s, l, h) = b
    BY <2>2, PieceIs
  <2> QED
    BY <2>1, <2>3
<1>6. SubSeq(s, 1, m) = a /\ SubSeq(a, 1, m) = a
  <2>1. 1 \in Int /\ m \in Int /\ m - 1 + 1 = m
    OBVIOUS
  <2> QED
    BY <1>1, <1>4, <2>1, PieceIs
<1>7. IsPrefix(a, s)
  <2>1. m <= m + n
    OBVIOUS
  <2> QED
    BY <1>1, <1>2, <1>6, <2>1 DEF IsPrefix
<1> QED
  BY <1>1, <1>2, <1>5, <1>7, <1>8

LEMMA PointerMeant ==
    ASSUME NEW S, NEW part, part.kind = "number", IsPointer(part), part.args \in Seq(S)
    PROVE  Meant(S, part)
<1>1. PICK n : n = part.value
  OBVIOUS
<1>2. PICK w \in Seq(Chars) : /\ w = unsigned_number_to_string(n, 16, 0)
                              /\ SignedNumeral(w, Said(part), 16, 0)
  BY <1>1, PointerSays
<1>3. PICK a \in Seq(Chars) : a = <<ZERO, LetterX>> /\ Len(a) = 2 /\ a # <<>>
  <2>1. ZERO \in Chars /\ LetterX \in Chars
    BY CharsKnown DEF ZERO
  <2>2. <<ZERO, LetterX>> \in Seq(Chars) /\ Len(<<ZERO, LetterX>>) = 2
    BY <2>1, TwoIn, PairIs
  <2> QED
    BY <2>2, EmptySeq
<1>4. PICK x : x = a \o w
  OBVIOUS
<1>5. x \in Seq(Chars) /\ IsPrefix(a, x) /\ SubSeq(x, Len(a) + 1, Len(x)) = w
  <2>1. /\ a \o w \in Seq(Chars) /\ IsPrefix(a, a \o w)
        /\ SubSeq(a \o w, Len(a) + 1, Len(a \o w)) = w
    BY PrefixCut
  <2> QED
    BY <1>4, <2>1
<1>6. /\ part.prefix = a /\ part.base = 16 /\ part.precision = 0
      /\ part.directive = <<PERCENT, LetterP>> /\ part.args = <<n>>
  BY <1>1, <1>3 DEF IsPointer
<1>7. Says(x, part)
  BY <1>2, <1>3, <1>5, <1>6 DEF Says
<1>8. x = ConversionText(Inside(0, 0, No, 6), LetterP, n)
  BY <1>2, <1>3, <1>4, ConversionIs DEF PointerText
<1>9. n \in S
  BY <1>6, Arguments1
<1>10. Prints(S, <<PERCENT, LetterP>>, <<n>>, x)
  BY <1>8, <1>9, LettersConvert, LetterPrints
<1> QED
  BY <1>5, <1>6, <1>7, <1>10 DEF Meant

LEMMA FractionPrints ==
    ASSUME NEW S, NEW k \in S, NEW v \in S, NEW x, x = fnumber_to_string(v.p, v.q, Ten, k)
    PROVE  Prints(S, <<PERCENT, POINT, STAR, LetterF>>, <<k, v>>, x)
<1> SUFFICES ASSUME NEW r \in Seq(S), NEW t \in Seq(Chars)
             PROVE  Leads(State(Fresh, <<k, v>> \o r, t), <<PERCENT, POINT, STAR, LetterF>>,
                          State(Fresh, r, t \o x))
  BY DEF Prints
<1>1. PICK s : s = State(Fresh, <<k, v>> \o r, t)
  OBVIOUS
<1>2. PICK u : u = State(Inside(0, 0, Yes, k), <<v>> \o r, t)
  OBVIOUS
<1>3. Leads(s, <<PERCENT, POINT, STAR, LetterF>>,
            Step(Step(Step(Step(s, PERCENT), POINT), STAR), LetterF))
  BY LeadsFour
<1>4. Step(Step(Step(s, PERCENT), POINT), STAR) = u
  BY <1>1, <1>2, StarSteps
<1>5. ConversionText(Inside(0, 0, Yes, k), LetterF, v) = x
  <2>1. Inside(0, 0, Yes, k).precision = k
    BY InsideIs
  <2> QED
    BY <2>1, ConversionIs DEF FloatText, Ten
<1>6. Step(u, LetterF) = State(Fresh, r, t \o x)
  BY <1>2, <1>5, LettersConvert, Finishes
<1> QED
  BY <1>1, <1>3, <1>4, <1>6

LEMMA FractionMeant ==
    ASSUME NEW S, NEW part, part.kind = "fraction", IsFraction(part), part.args \in Seq(S)
    PROVE  Meant(S, part)
<1>1. PICK p \in Nat, q \in Nat \ {0}, k \in Nat \ {0} :
         /\ p = part.p /\ q = part.q /\ k = part.precision
         /\ part.directive = <<PERCENT, POINT, STAR, LetterF>>
         /\ part.args = <<k, [p |-> p, q |-> q]>>
  BY DEF IsFraction
<1> DEFINE v == [p |-> p, q |-> q]
<1>2. v.p = p /\ v.q = q
  OBVIOUS
<1>9. part.args = <<k, v>>
  BY <1>1
<1> HIDE DEF v
<1>3. Kept(p, q, k) = 0 \/ Kept(p, q, k) >= Power(Ten, k - 1)
  BY <1>1 DEF IsFraction, Kept, Ten
<1>4. PICK x : x = fnumber_to_string(p, q, Ten, k)
  OBVIOUS
<1>5. x \in Seq(Chars) /\ Fraction(x, part)
  BY <1>1, <1>3, <1>4, FractionSays
<1>6. Says(x, part)
  BY <1>5 DEF Says
<1>7. k \in S /\ v \in S
  <2>1. <<k, v>> \in Seq(S)
    BY <1>9
  <2> QED
    BY <2>1, Arguments2
<1>8. Prints(S, <<PERCENT, POINT, STAR, LetterF>>, <<k, v>>, x)
  BY <1>2, <1>4, <1>7, FractionPrints
<1> QED
  BY <1>1, <1>5, <1>6, <1>8, <1>9 DEF Meant

\* What a message hands over
Passed == (Int \union Seq(Chars)) \union [p : Nat, q : Nat]

LEMMA AreInts ==
    ASSUME NEW s \in Seq(Chars)
    PROVE  s \in Seq(Nat) /\ s \in Seq(Passed) /\ <<s>> \in Seq(Passed)
<1>1. PICK n \in Nat : n = Len(s) /\ DOMAIN s = 1..n /\ s = [i \in 1..n |-> s[i]]
  BY LenProperties
<1>2. \A i \in 1..n : s[i] \in Chars
  BY <1>1, ElementOfSeq
<1>3. \A i \in 1..n : s[i] \in Nat
  BY <1>2, CharsKnown
<1>4. \A i \in 1..n : s[i] \in Passed
  <2>1. Nat \subseteq Int
    OBVIOUS
  <2>2. Int \subseteq Passed
    BY DEF Passed
  <2> QED
    BY <1>3, <2>1, <2>2
<1>5. s \in Seq(Nat)
  <2>1. [i \in 1..n |-> s[i]] \in Seq(Nat)
    BY <1>3, IsASeq
  <2> QED
    BY <1>1, <2>1
<1>6. s \in Seq(Passed)
  <2>1. [i \in 1..n |-> s[i]] \in Seq(Passed)
    BY <1>4, IsASeq
  <2> QED
    BY <1>1, <2>1
<1>7. <<s>> \in Seq(Passed)
  <2>1. s \in Passed
    BY DEF Passed
  <2> QED
    BY <2>1, OneIn
<1> QED
  BY <1>5, <1>6, <1>7

\* Well formed: codes to read, and things to hand over
Formed(part) == part.directive \in Seq(Nat) /\ part.args \in Seq(Passed)

LEMMA TextFormed ==
    ASSUME NEW part, IsText(part)
    PROVE  Formed(part)
<1>1. PICK s \in Seq(Chars) : s = part.chars
  BY DEF IsText
<1>2. PICK d, a : d = part.directive /\ a = part.args
  OBVIOUS
<1>3. <<>> \in Seq(Passed)
  BY EmptySeq
<1>4. s \in Seq(Nat) /\ s \in Seq(Passed) /\ <<s>> \in Seq(Passed)
  BY AreInts
<1>5. /\ <<PERCENT, LetterS>> \in Seq(Nat) /\ <<PERCENT, LetterC>> \in Seq(Nat)
      /\ <<PERCENT, PERCENT>> \in Seq(Nat)
  BY CodesAre, TwoIn
<1>6. \A c \in 48..57 : <<PERCENT, POINT, c>> \in Seq(Nat)
  <2>1. ASSUME NEW c \in 48..57 PROVE <<PERCENT, POINT, c>> \in Seq(Nat)
    BY CodesAre
  <2> QED
    BY <2>1
<1>7. \/ d = s /\ a = <<>>
      \/ d = <<PERCENT, LetterS>> /\ a = <<s>>
      \/ d = <<PERCENT, LetterC>> /\ a = s
      \/ d = <<PERCENT, PERCENT>> /\ a = <<>>
      \/ (\E c \in 48..57 : d = <<PERCENT, POINT, c>>) /\ a = <<>>
  BY <1>1, <1>2 DEF IsText
<1>8. d \in Seq(Nat) /\ a \in Seq(Passed)
  BY <1>3, <1>4, <1>5, <1>6, <1>7
<1> QED
  BY <1>2, <1>8 DEF Formed

LEMMA NumbersArePassed ==
    ASSUME NEW n \in Int, NEW k \in Int
    PROVE  <<n>> \in Seq(Passed) /\ <<k, n>> \in Seq(Passed)
<1>1. n \in Passed /\ k \in Passed
  BY DEF Passed
<1> QED
  BY <1>1, OneIn, TwoIn

LEMMA NumberFormed ==
    ASSUME NEW part, IsNumber(part)
    PROVE  Formed(part)
<1>1. PICK length \in Lengths, numeral \in Numerals :
        /\ part.value \in Int /\ part.precision \in Nat
        /\ \/ /\ part.args = <<part.value>>
              /\ part.directive = <<PERCENT>> \o length[1] \o <<numeral[1]>>
           \/ /\ part.args = <<part.precision, part.value>>
              /\ part.directive = <<PERCENT, POINT, STAR>> \o length[1] \o <<numeral[1]>>
  BY Zenon DEF IsNumber
<1>2. PICK ls \in Seq(Nat) : ls = length[1]
  BY EveryLength
<1>3. PICK c \in Nat : c = numeral[1]
  BY EveryNumeral
<1>4. PICK n \in Int, k \in Int : n = part.value /\ k = part.precision
  BY <1>1
<1>5. <<n>> \in Seq(Passed) /\ <<k, n>> \in Seq(Passed)
  BY NumbersArePassed
<1>6. \A pre \in Seq(Nat) : pre \o ls \o <<c>> \in Seq(Nat)
  <2>1. ASSUME NEW pre \in Seq(Nat) PROVE pre \o ls \o <<c>> \in Seq(Nat)
    <3>1. PICK u \in Seq(Nat) : u = pre \o ls
      BY ConcatProperties
    <3> QED
      BY <3>1, OneMore
  <2> QED
    BY <2>1
<1>7. <<PERCENT>> \in Seq(Nat) /\ <<PERCENT, POINT, STAR>> \in Seq(Nat)
  BY CodesAre, OneIn, ThreeCodes
<1>8. /\ <<PERCENT>> \o ls \o <<c>> \in Seq(Nat)
      /\ <<PERCENT, POINT, STAR>> \o ls \o <<c>> \in Seq(Nat)
  BY <1>6, <1>7
<1>9. part.args \in Seq(Passed)
  BY <1>1, <1>4, <1>5
<1>10. part.directive \in Seq(Nat)
  BY <1>1, <1>2, <1>3, <1>8
<1> QED
  BY <1>9, <1>10 DEF Formed

LEMMA PointerFormed ==
    ASSUME NEW part, IsPointer(part)
    PROVE  Formed(part)
<1>1. PICK n \in Int : n = part.value
  BY DEF IsPointer
<1>2. <<n>> \in Seq(Passed)
  BY NumbersArePassed
<1>3. <<PERCENT, LetterP>> \in Seq(Nat)
  BY CodesAre, TwoIn
<1>4. part.directive = <<PERCENT, LetterP>> /\ part.args = <<n>>
  BY <1>1 DEF IsPointer
<1> QED
  BY <1>2, <1>3, <1>4 DEF Formed

LEMMA FractionFormed ==
    ASSUME NEW part, IsFraction(part)
    PROVE  Formed(part)
<1>1. PICK p \in Nat, q \in Nat, k \in Nat :
         /\ part.directive = <<PERCENT, POINT, STAR, LetterF>>
         /\ part.args = <<k, [p |-> p, q |-> q]>>
  BY DEF IsFraction
<1>2. [p |-> p, q |-> q] \in Passed
  BY DEF Passed
<1>3. k \in Passed
  BY DEF Passed
<1>4. <<k, [p |-> p, q |-> q]>> \in Seq(Passed)
  BY <1>2, <1>3, TwoIn
<1>5. <<PERCENT, POINT, STAR, LetterF>> \in Seq(Nat)
  BY CodesAre
<1> QED
  BY <1>1, <1>4, <1>5 DEF Formed

LEMMA PartMeant ==
    ASSUME NEW part, IsPart(part)
    PROVE  Formed(part) /\ Meant(Passed, part)
<1>1. CASE part.kind = "text" /\ IsText(part)
  <2>1. Formed(part)
    BY <1>1, TextFormed
  <2> QED
    BY <1>1, <2>1, TextMeant DEF Formed
<1>2. CASE part.kind = "number" /\ IsNumber(part)
  <2>1. Formed(part)
    BY <1>2, NumberFormed
  <2> QED
    BY <1>2, <2>1, NumberMeant DEF Formed
<1>3. CASE part.kind = "number" /\ IsPointer(part)
  <2>1. Formed(part)
    BY <1>3, PointerFormed
  <2> QED
    BY <1>3, <2>1, PointerMeant DEF Formed
<1>4. CASE part.kind = "fraction" /\ IsFraction(part)
  <2>1. Formed(part)
    BY <1>4, FractionFormed
  <2> QED
    BY <1>4, <2>1, FractionMeant DEF Formed
<1> QED
  BY <1>1, <1>2, <1>3, <1>4 DEF IsPart
-----------------------------------------------------------------------------
(* Pieces strung together *)

\* What FlattenSeq computes, up to N
Flattened(f, N, q) == f = [i \in 1..N |-> IF i = 1 THEN q[i] ELSE f[i - 1] \o q[i]]

LEMMA FlattenedAt ==
    ASSUME NEW f, NEW N \in Nat, NEW q, Flattened(f, N, q)
    PROVE  \A i \in 1..N : f[i] = IF i = 1 THEN q[i] ELSE f[i - 1] \o q[i]
<1>1. f = [i \in 1..N |-> IF i = 1 THEN q[i] ELSE f[i - 1] \o q[i]]
  BY DEF Flattened
<1> QED
  BY <1>1

LEMMA FlattenedExists ==
    ASSUME NEW q
    PROVE  \A N \in Nat : \E f : Flattened(f, N, q)
<1> DEFINE S == {N \in Nat : \E f : Flattened(f, N, q)}
<1>1. 0 \in S
  <2>1. Flattened([i \in 1..0 |-> q], 0, q)
    BY DEF Flattened
  <2> QED
    BY <2>1
<1>2. ASSUME NEW N \in S PROVE N + 1 \in S
  <2>1. PICK f : Flattened(f, N, q)
    OBVIOUS
  <2>2. N \in Nat /\ \A i \in 1..N : f[i] = IF i = 1 THEN q[i] ELSE f[i - 1] \o q[i]
    BY <2>1, FlattenedAt
  <2>3. PICK last : last = IF N + 1 = 1 THEN q[N + 1] ELSE f[N] \o q[N + 1]
    OBVIOUS
  <2> DEFINE g == [i \in 1..(N + 1) |-> IF i = N + 1 THEN last ELSE f[i]]
  <2>4. \A i \in 1..(N + 1) : g[i] = IF i = N + 1 THEN last ELSE f[i]
    OBVIOUS
  <2>5. g = [i \in 1..(N + 1) |-> g[i]]
    OBVIOUS
  <2> HIDE DEF g, S
  <2>6. ASSUME NEW i \in 1..(N + 1)
        PROVE  g[i] = IF i = 1 THEN q[i] ELSE g[i - 1] \o q[i]
    <3>1. CASE i = N + 1 /\ i # 1
      <4>1. g[i] = last /\ i - 1 = N /\ N \in 1..(N + 1) /\ N # N + 1
        BY <2>2, <2>4, <3>1
      <4>2. g[i - 1] = f[N]
        BY <2>4, <4>1
      <4> QED
        BY <2>3, <3>1, <4>1, <4>2
    <3>2. CASE i = N + 1 /\ i = 1
      BY <2>3, <2>4, <3>2
    <3>3. CASE i # N + 1 /\ i # 1
      <4>1. i \in 1..N /\ i - 1 \in 1..(N + 1) /\ i - 1 # N + 1
        BY <2>2, <3>3
      <4>2. g[i] = f[i] /\ g[i - 1] = f[i - 1]
        BY <2>4, <3>3, <4>1
      <4> QED
        BY <2>2, <3>3, <4>1, <4>2
    <3>4. CASE i # N + 1 /\ i = 1
      <4>1. i \in 1..N
        BY <2>2, <3>4
      <4>2. g[i] = f[i]
        BY <2>4, <3>4, <4>1
      <4> QED
        BY <2>2, <3>4, <4>1, <4>2
    <3> QED
      BY <3>1, <3>2, <3>3, <3>4
  <2>7. Flattened(g, N + 1, q)
    BY <2>5, <2>6 DEF Flattened
  <2> QED
    BY <2>2, <2>7 DEF S
<1> HIDE DEF S
<1>3. \A N \in Nat : N \in S
  <2>1. S \in SUBSET Nat
    BY DEF S
  <2> QED
    BY <1>1, <1>2, <2>1, InductionOn
<1> QED
  BY <1>3 DEF S

\* F strings the pieces of q together, one after the other.
Strings(S, F, q) ==
    /\ F[0] = <<>> /\ \A i \in 1..Len(q) : F[i] = F[i - 1] \o q[i]
    /\ \A i \in 0..Len(q) : F[i] \in Seq(S)

LEMMA FlattenStrings ==
    ASSUME NEW S, NEW q \in Seq(Seq(S))
    PROVE  \E F : Strings(S, F, q) /\ FlattenSeq(q) = F[Len(q)]
<1>1. PICK N \in Nat : N = Len(q)
  OBVIOUS
<1>2. PICK f : f = CHOOSE h : Flattened(h, N, q)
  OBVIOUS
<1>3. Flattened(f, N, q)
  BY <1>2, FlattenedExists
<1>4. \A i \in 1..N : f[i] = IF i = 1 THEN q[i] ELSE f[i - 1] \o q[i]
  BY <1>3, FlattenedAt
<1>5. FlattenSeq(q) = IF N = 0 THEN q ELSE f[N]
  BY <1>1, <1>2 DEF FlattenSeq, Flattened
<1>6. \A i \in 1..N : q[i] \in Seq(S)
  BY <1>1, ElementOfSeq
<1> DEFINE F == [i \in 0..N |-> IF i = 0 THEN <<>> ELSE f[i]]
<1>7. F[0] = <<>> /\ \A i \in 1..N : F[i] = f[i]
  OBVIOUS
<1> HIDE DEF F
<1>8. \A i \in 1..N : F[i] = F[i - 1] \o q[i]
  <2>1. ASSUME NEW i \in 1..N PROVE F[i] = F[i - 1] \o q[i]
    <3>1. CASE i = 1
      <4>1. i - 1 = 0 /\ F[i] = q[i]
        BY <1>4, <1>7, <3>1
      <4>2. <<>> \o q[i] = q[i]
        BY <1>6, ConcatEmptySeq
      <4> QED
        BY <1>7, <4>1, <4>2
    <3>2. CASE i # 1
      <4>1. i - 1 \in 1..N
        BY <3>2
      <4> QED
        BY <1>4, <1>7, <3>2, <4>1
    <3> QED
      BY <3>1, <3>2
  <2> QED
    BY <2>1
<1>9. \A i \in 0..N : F[i] \in Seq(S)
  <2> DEFINE T == {i \in Nat : i <= N => F[i] \in Seq(S)}
  <2>1. 0 \in T
    BY <1>7, EmptySeq
  <2>2. ASSUME NEW i \in T PROVE i + 1 \in T
    <3>1. CASE i + 1 <= N
      <4>1. i + 1 \in 1..N /\ (i + 1) - 1 = i /\ i <= N
        BY <3>1
      <4>2. F[i] \in Seq(S) /\ q[i + 1] \in Seq(S) /\ F[i + 1] = F[i] \o q[i + 1]
        BY <1>6, <1>8, <4>1
      <4>3. F[i + 1] \in Seq(S)
        BY <4>2, ConcatProperties
      <4> QED
        BY <4>3
    <3> QED
      BY <3>1
  <2>3. T \in SUBSET Nat
    OBVIOUS
  <2> HIDE DEF T
  <2>4. \A i \in Nat : i \in T
    BY <2>1, <2>2, <2>3, InductionOn
  <2> QED
    BY <2>4 DEF T
<1>10. FlattenSeq(q) = F[N]
  <2>1. CASE N = 0
    <3>1. q = <<>>
      BY <1>1, <2>1, EmptySeq
    <3> QED
      BY <1>5, <1>7, <2>1, <3>1
  <2>2. CASE N # 0
    BY <1>5, <1>7, <2>2
  <2> QED
    BY <2>1, <2>2
<1>11. Strings(S, F, q)
  BY <1>1, <1>7, <1>8, <1>9 DEF Strings
<1> QED
  BY <1>1, <1>10, <1>11
-----------------------------------------------------------------------------
(* A text cut into what its parts mean *)

\* Where the text s can be cut behind the parts of m, up to N
CutTo(f, N, s, m) ==
    f = [n \in 0..N |-> IF n = 0 THEN {0}
                        ELSE {j \in 0..Len(s) : \E i \in f[n - 1] :
                                  i <= j /\ Says(SubSeq(s, i + 1, j), m[n])}]

\* and behind one more
After(cuts, s, part) == {j \in 0..Len(s) : \E i \in cuts : i <= j /\ Says(SubSeq(s, i + 1, j), part)}

LEMMA CutToIs ==
    ASSUME NEW f, NEW N, NEW s, NEW m
    PROVE  CutTo(f, N, s, m) <=> f = [n \in 0..N |-> IF n = 0 THEN {0} ELSE After(f[n - 1], s, m[n])]
BY DEF CutTo, After

LEMMA CutAt ==
    ASSUME NEW f, NEW N \in Nat, NEW s, NEW m, CutTo(f, N, s, m)
    PROVE  f[0] = {0} /\ \A n \in 1..N : f[n] = After(f[n - 1], s, m[n])
<1>1. f = [n \in 0..N |-> IF n = 0 THEN {0} ELSE After(f[n - 1], s, m[n])]
  BY CutToIs
<1>2. \A n \in 0..N : f[n] = IF n = 0 THEN {0} ELSE After(f[n - 1], s, m[n])
  BY <1>1
<1>3. 0 \in 0..N /\ \A n \in 1..N : n \in 0..N /\ n # 0
  OBVIOUS
<1>4. f[0] = {0}
  BY <1>2, <1>3
<1>5. ASSUME NEW n \in 1..N PROVE f[n] = After(f[n - 1], s, m[n])
  BY <1>2, <1>3
<1> QED
  BY <1>4, <1>5

LEMMA CutExists ==
    ASSUME NEW s, NEW m
    PROVE  \A N \in Nat : \E f : CutTo(f, N, s, m)
<1> DEFINE S == {N \in Nat : \E f : CutTo(f, N, s, m)}
<1>1. 0 \in S
  <2> DEFINE g == [n \in 0..0 |-> {0}]
  <2>1. g = [n \in 0..0 |-> IF n = 0 THEN {0} ELSE After(g[n - 1], s, m[n])]
    OBVIOUS
  <2> HIDE DEF g
  <2>2. CutTo(g, 0, s, m)
    BY <2>1, CutToIs
  <2> QED
    BY <2>2
<1>2. ASSUME NEW N \in S PROVE N + 1 \in S
  <2>1. PICK f : CutTo(f, N, s, m)
    OBVIOUS
  <2>2. N \in Nat /\ f[0] = {0} /\ \A n \in 1..N : f[n] = After(f[n - 1], s, m[n])
    BY <2>1, CutAt
  <2>3. PICK last : last = After(f[N], s, m[N + 1])
    OBVIOUS
  <2> DEFINE g == [n \in 0..(N + 1) |-> IF n = N + 1 THEN last ELSE f[n]]
  <2>4. \A n \in 0..(N + 1) : g[n] = IF n = N + 1 THEN last ELSE f[n]
    OBVIOUS
  <2>5. g = [n \in 0..(N + 1) |-> g[n]]
    OBVIOUS
  <2> HIDE DEF g, S
  <2>6. ASSUME NEW n \in 0..(N + 1)
        PROVE  g[n] = IF n = 0 THEN {0} ELSE After(g[n - 1], s, m[n])
    <3>1. CASE n = N + 1
      <4>1. g[n] = last /\ n # 0 /\ n - 1 = N /\ N \in 0..(N + 1) /\ N # N + 1
        BY <2>2, <2>4, <3>1
      <4>2. g[n - 1] = f[N]
        BY <2>4, <4>1
      <4> QED
        BY <2>3, <3>1, <4>1, <4>2
    <3>2. CASE n # N + 1 /\ n # 0
      <4>1. n \in 1..N /\ n - 1 \in 0..(N + 1) /\ n - 1 # N + 1
        BY <2>2, <3>2
      <4>2. g[n] = f[n] /\ g[n - 1] = f[n - 1]
        BY <2>4, <3>2, <4>1
      <4> QED
        BY <2>2, <3>2, <4>1, <4>2
    <3>3. CASE n = 0
      BY <2>2, <2>4, <3>3
    <3> QED
      BY <3>1, <3>2, <3>3
  <2>7. g = [n \in 0..(N + 1) |-> IF n = 0 THEN {0} ELSE After(g[n - 1], s, m[n])]
    BY <2>5, <2>6
  <2>8. CutTo(g, N + 1, s, m)
    BY <2>7, CutToIs
  <2> QED
    BY <2>2, <2>8 DEF S
<1> HIDE DEF S
<1>3. \A N \in Nat : N \in S
  <2>1. S \in SUBSET Nat
    BY DEF S
  <2> QED
    BY <1>1, <1>2, <2>1, InductionOn
<1> QED
  BY <1>3 DEF S

\* Two sequences of known lengths
LEMMA JoinIs ==
    ASSUME NEW S, NEW a \in Seq(S), NEW b \in Seq(S), NEW m \in Nat, m = Len(a),
           NEW n \in Nat, n = Len(b)
    PROVE  /\ a \o b \in Seq(S) /\ Len(a \o b) = m + n
           /\ \A i \in 1..(m + n) : (a \o b)[i] = IF i <= m THEN a[i] ELSE b[i - m]
BY ConcatProperties

\* A piece in the middle
LEMMA MiddleIs ==
    ASSUME NEW S, NEW a \in Seq(S), NEW b \in Seq(S), NEW c \in Seq(S)
    PROVE  /\ SubSeq((a \o b) \o c, Len(a) + 1, Len(a \o b)) = b
           /\ Len(a) <= Len(a \o b) /\ Len(a \o b) <= Len((a \o b) \o c)
<1>1. PICK l \in Nat, m \in Nat, n \in Nat : l = Len(a) /\ m = Len(b) /\ n = Len(c)
  OBVIOUS
<1>2. PICK u \in Seq(S) : u = a \o b /\ Len(u) = l + m
                          /\ \A i \in 1..(l + m) : u[i] = IF i <= l THEN a[i] ELSE b[i - l]
  <2>1. /\ a \o b \in Seq(S) /\ Len(a \o b) = l + m
        /\ \A i \in 1..(l + m) : (a \o b)[i] = IF i <= l THEN a[i] ELSE b[i - l]
    BY <1>1, JoinIs
  <2> QED
    BY <2>1
<1>3. PICK w \in Seq(S) : w = u \o c /\ Len(w) = (l + m) + n
                          /\ \A i \in 1..((l + m) + n) : w[i] = IF i <= l + m THEN u[i]
                                                                ELSE c[i - (l + m)]
  <2>1. PICK v \in Nat : v = l + m /\ v = Len(u)
    BY <1>2
  <2>2. /\ u \o c \in Seq(S) /\ Len(u \o c) = v + n
        /\ \A i \in 1..(v + n) : (u \o c)[i] = IF i <= v THEN u[i] ELSE c[i - v]
    <3>1. v = Len(u)
      BY <2>1
    <3>2. n = Len(c)
      BY <1>1
    <3> QED
      BY <3>1, <3>2, JoinIs
  <2> QED
    BY <2>1, <2>2
<1>4. \A i \in 1..m : w[(l + 1) + i - 1] = b[i]
  <2>1. ASSUME NEW i \in 1..m PROVE w[(l + 1) + i - 1] = b[i]
    <3>1. PICK j : /\ j = (l + 1) + i - 1 /\ j \in 1..((l + m) + n) /\ j <= l + m
                   /\ j \in 1..(l + m) /\ ~(j <= l) /\ j - l = i
      OBVIOUS
    <3> QED
      BY <1>2, <1>3, <3>1
  <2> QED
    BY <2>1
<1>5. PICK x \in Int, y \in Int : x = l + 1 /\ y = l + m /\ y - x + 1 = m
  OBVIOUS
<1>6. y - x + 1 = Len(b) /\ \A i \in 1..Len(b) : w[x + i - 1] = b[i]
  BY <1>1, <1>4, <1>5
<1>7. SubSeq(w, x, y) = b
  BY <1>6, PieceIs
<1>8. l <= l + m /\ l + m <= (l + m) + n
  OBVIOUS
<1> QED
  BY <1>1, <1>2, <1>3, <1>5, <1>7, <1>8

\* The pieces strung together so far begin what they all make.
LEMMA Begins ==
    ASSUME NEW S, NEW q \in Seq(Seq(S)), NEW F, Strings(S, F, q), NEW n \in 0..Len(q)
    PROVE  \E r \in Seq(S) : F[Len(q)] = F[n] \o r
<1>1. PICK N \in Nat : N = Len(q)
  OBVIOUS
<1>2. /\ \A i \in 1..N : F[i] = F[i - 1] \o q[i]
      /\ \A i \in 0..N : F[i] \in Seq(S)
      /\ \A i \in 1..N : q[i] \in Seq(S)
  BY <1>1, ElementOfSeq DEF Strings
<1> DEFINE T == {k \in Nat : k <= N => \E r \in Seq(S) : F[N] = F[N - k] \o r}
<1>3. 0 \in T
  <2>1. PICK w \in Seq(S) : w = F[N] /\ N - 0 = N
    BY <1>2
  <2>2. PICK e \in Seq(S) : e = <<>>
    BY EmptySeq
  <2>3. w \o e = w
    BY <2>2, ConcatEmptySeq
  <2>4. \E r \in Seq(S) : F[N] = F[N - 0] \o r
    BY <2>1, <2>3
  <2> QED
    BY <2>4
<1>4. ASSUME NEW k \in T PROVE k + 1 \in T
  <2>1. k \in Nat /\ k + 1 \in Nat
    OBVIOUS
  <2>2. ASSUME k + 1 <= N PROVE \E r \in Seq(S) : F[N] = F[N - (k + 1)] \o r
    <3>1. PICK i \in 1..N : i = N - k /\ i - 1 = N - (k + 1) /\ i - 1 \in 0..N
      BY <2>1, <2>2
    <3>2. k <= N
      BY <2>1, <2>2
    <3>3. PICK r \in Seq(S) : F[N] = F[i] \o r
      BY <3>1, <3>2
    <3> HIDE DEF T
    <3>4. PICK a \in Seq(S), b \in Seq(S) : a = F[i - 1] /\ b = q[i]
      BY <1>2, <3>1
    <3>5. F[i] = a \o b
      BY <1>2, <3>4
    <3>6. PICK u \in Seq(S) : u = b \o r
      BY ConcatProperties
    <3>7. Regroups(a, b, r)
      BY Associates DEF ThreeIn
    <3>8. F[N] = a \o u
      BY <3>3, <3>5, <3>6, <3>7 DEF Regroups
    <3> QED
      BY <3>1, <3>4, <3>8
  <2> QED
    BY <2>1, <2>2
<1>5. T \in SUBSET Nat
  OBVIOUS
<1> HIDE DEF T
<1>6. \A k \in Nat : k \in T
  BY <1>3, <1>4, <1>5, InductionOn
<1>9. n \in 0..N
  BY <1>1
<1>7. PICK k \in Nat : k = N - n /\ k <= N /\ N - k = n
  BY <1>9
<1>8. k \in T
  BY <1>6
<1> QED
  BY <1>1, <1>7, <1>8 DEF T
-----------------------------------------------------------------------------
(* A message *)

\* What may be given to debug
IsMessage(m) == m \in Seq(ToSet(m)) /\ \A part \in ToSet(m) : IsPart(part)

\* The texts x are what vkprint makes of the parts of m, one after the other.
Renders(x, m) ==
    /\ x \in Seq(Seq(Chars)) /\ Len(x) = Len(m)
    /\ \A i \in 1..Len(m) : /\ x[i] \in Seq(Chars) /\ Says(x[i], m[i])
                            /\ Prints(Passed, m[i].directive, m[i].args, x[i])

LEMMA PartsAre ==
    ASSUME NEW m, IsMessage(m)
    PROVE  /\ Len(m) \in Nat /\ DOMAIN m = 1..Len(m)
           /\ \A i \in 1..Len(m) : IsPart(m[i])
<1>1. m \in Seq(ToSet(m))
  BY DEF IsMessage
<1>2. Len(m) \in Nat /\ DOMAIN m = 1..Len(m)
  BY <1>1
<1>3. ASSUME NEW i \in 1..Len(m) PROVE IsPart(m[i])
  <2>1. m[i] \in ToSet(m)
    BY <1>1, ElementOfSeq
  <2> QED
    BY <2>1 DEF IsMessage
<1> QED
  BY <1>2, <1>3

LEMMA RenderExists ==
    ASSUME NEW m, IsMessage(m)
    PROVE  \E x : Renders(x, m)
<1>1. PICK N \in Nat : N = Len(m)
  BY PartsAre
<1> DEFINE Of(text, i) == /\ text \in Seq(Chars) /\ Says(text, m[i])
                          /\ Prints(Passed, m[i].directive, m[i].args, text)
           x == [i \in 1..N |-> CHOOSE text : Of(text, i)]
<1>2. ASSUME NEW i \in 1..N PROVE \E text : Of(text, i)
  <2>1. Meant(Passed, m[i])
    BY <1>1, PartsAre, PartMeant
  <2> QED
    BY <2>1 DEF Meant
<1>3. ASSUME NEW i \in 1..N PROVE x[i] = CHOOSE text : Of(text, i)
  OBVIOUS
<1> HIDE DEF Of
<1>4. ASSUME NEW i \in 1..N PROVE Of(x[i], i)
  BY <1>2, <1>3
<1>5. \A i \in 1..N : Of(x[i], i)
  BY <1>4
<1>6. x = [i \in 1..N |-> x[i]]
  OBVIOUS
<1> HIDE DEF x
<1>7. \A i \in 1..N : x[i] \in Seq(Chars)
  BY <1>5 DEF Of
<1>8. x \in Seq(Seq(Chars)) /\ Len(x) = N
  <2>1. [i \in 1..N |-> x[i]] \in Seq(Seq(Chars)) /\ Len([i \in 1..N |-> x[i]]) = N
    BY <1>7, IsASeq
  <2> QED
    BY <1>6, <2>1
<1> QED
  BY <1>1, <1>5, <1>8 DEF Renders, Of

\* The texts can be cut out again.
LEMMA StrungMeans ==
    ASSUME NEW m, IsMessage(m), NEW x, Renders(x, m)
    PROVE  FlattenSeq(x) \in Seq(Chars) /\ Means(FlattenSeq(x), m)
<1>1. PICK N \in Nat : N = Len(m)
  BY PartsAre
<1>2. /\ x \in Seq(Seq(Chars)) /\ Len(x) = N
      /\ \A i \in 1..N : x[i] \in Seq(Chars) /\ Says(x[i], m[i])
  BY <1>1 DEF Renders
<1>3. PICK F : Strings(Chars, F, x) /\ FlattenSeq(x) = F[N]
  BY <1>2, FlattenStrings
<1>12. \A n \in 0..Len(x) : \E r \in Seq(Chars) : F[Len(x)] = F[n] \o r
  <2>1. x \in Seq(Seq(Chars))
    BY <1>2
  <2>2. Strings(Chars, F, x)
    BY <1>3
  <2> QED
    BY <2>1, <2>2, Begins
<1>4. /\ F[0] = <<>> /\ \A i \in 1..N : F[i] = F[i - 1] \o x[i]
      /\ \A i \in 0..N : F[i] \in Seq(Chars)
  BY <1>2, <1>3 DEF Strings
<1>5. PICK s \in Seq(Chars) : s = F[N]
  BY <1>4
<1>6. PICK f : f = CHOOSE g : CutTo(g, N, s, m)
  OBVIOUS
<1>7. CutTo(f, N, s, m)
  BY <1>6, CutExists
<1>8. f[0] = {0} /\ \A n \in 1..N : f[n] = After(f[n - 1], s, m[n])
  BY <1>7, CutAt
<1>9. ASSUME NEW n \in 1..N, Len(F[n - 1]) \in f[n - 1]
      PROVE  Len(F[n]) \in f[n]
  <2>1. n \in 0..N /\ n - 1 \in 0..N
    OBVIOUS
  <2>2. PICK a \in Seq(Chars), b \in Seq(Chars) : a = F[n - 1] /\ b = x[n] /\ Says(b, m[n])
    BY <1>2, <1>4, <2>1
  <2>3. PICK r \in Seq(Chars) : F[N] = F[n] \o r
    <3>1. n \in 0..Len(x)
      BY <1>2, <2>1
    <3> QED
      BY <1>2, <1>12, <3>1
  <2>4. F[n] = a \o b /\ s = (a \o b) \o r
    BY <1>4, <1>5, <2>2, <2>3
  <2>5. /\ SubSeq((a \o b) \o r, Len(a) + 1, Len(a \o b)) = b
        /\ Len(a) <= Len(a \o b) /\ Len(a \o b) <= Len((a \o b) \o r)
    BY MiddleIs
  <2>6. PICK i \in Nat, j \in Nat : i = Len(a) /\ j = Len(F[n])
    BY <1>4, <2>1
  <2>7. i <= j /\ j \in 0..Len(s) /\ SubSeq(s, i + 1, j) = b
    BY <2>4, <2>5, <2>6
  <2>8. j \in After(f[n - 1], s, m[n])
    BY <1>9, <2>2, <2>6, <2>7 DEF After
  <2> QED
    BY <1>8, <2>6, <2>8
<1>10. Len(F[N]) \in f[N]
  <2> DEFINE T == {n \in Nat : n <= N => Len(F[n]) \in f[n]}
  <2>1. 0 \in T
    BY <1>4, <1>8, EmptySeq
  <2>2. ASSUME NEW n \in T PROVE n + 1 \in T
    <3>1. CASE n + 1 <= N
      <4>1. n + 1 \in 1..N /\ (n + 1) - 1 = n /\ n <= N
        BY <3>1
      <4>2. Len(F[n + 1]) \in f[n + 1]
        BY <1>9, <4>1
      <4> QED
        BY <4>2
    <3> QED
      BY <3>1
  <2>3. T \in SUBSET Nat
    OBVIOUS
  <2> HIDE DEF T
  <2>4. \A n \in Nat : n \in T
    BY <2>1, <2>2, <2>3, InductionOn
  <2> QED
    BY <2>4 DEF T
<1>11. Means(s, m)
  <2>1. Means(s, m) <=> Len(s) \in f[N]
    BY <1>1, <1>6 DEF Means, CutTo
  <2> QED
    BY <1>5, <1>10, <2>1
<1> QED
  BY <1>3, <1>5, <1>11

LEMMA PiecesAre ==
    ASSUME NEW m, IsMessage(m), NEW N \in Nat, N = Len(m)
    PROVE  /\ \E d \in Seq(Seq(Nat)) : /\ Len(d) = N /\ Format(m) = FlattenSeq(d)
                                       /\ \A i \in 1..N : d[i] = m[i].directive /\ d[i] \in Seq(Nat)
           /\ \E a \in Seq(Seq(Passed)) : /\ Len(a) = N /\ Arguments(m) = FlattenSeq(a)
                                          /\ \A i \in 1..N : a[i] = m[i].args /\ a[i] \in Seq(Passed)
<1>1. DOMAIN m = 1..N
  BY PartsAre
<1>2. \A i \in 1..N : m[i].directive \in Seq(Nat) /\ m[i].args \in Seq(Passed)
  BY PartsAre, PartMeant DEF Formed
<1> DEFINE d == [i \in 1..N |-> m[i].directive]
           a == [i \in 1..N |-> m[i].args]
<1>3. d \in Seq(Seq(Nat)) /\ Len(d) = N
  BY <1>2, IsASeq
<1>4. a \in Seq(Seq(Passed)) /\ Len(a) = N
  BY <1>2, IsASeq
<1>5. \A i \in 1..N : d[i] = m[i].directive /\ a[i] = m[i].args
  OBVIOUS
<1>6. Format(m) = FlattenSeq(d) /\ Arguments(m) = FlattenSeq(a)
  BY <1>1 DEF Format, Arguments
<1> HIDE DEF d, a
<1>7. \A i \in 1..N : d[i] \in Seq(Nat) /\ a[i] \in Seq(Passed)
  BY <1>2, <1>5
<1> QED
  BY <1>3, <1>4, <1>5, <1>6, <1>7

\* One part more is printed, whatever comes behind it.
LEMMA OnePartMore ==
    ASSUME NEW f0 \in Seq(Nat), NEW f1 \in Seq(Nat), NEW a0 \in Seq(Passed), NEW a1 \in Seq(Passed),
           NEW t0 \in Seq(Chars), NEW t1,
           \A r \in Seq(Passed) : Leads(State(Fresh, a0 \o r, <<>>), f0, State(Fresh, r, t0)),
           Prints(Passed, f1, a1, t1)
    PROVE  \A r \in Seq(Passed) : Leads(State(Fresh, (a0 \o a1) \o r, <<>>), f0 \o f1,
                                        State(Fresh, r, t0 \o t1))
<1> SUFFICES ASSUME NEW r \in Seq(Passed)
             PROVE  Leads(State(Fresh, (a0 \o a1) \o r, <<>>), f0 \o f1, State(Fresh, r, t0 \o t1))
  OBVIOUS
<1>1. PICK w \in Seq(Passed) : w = a1 \o r
  BY ConcatProperties
<1>2. (a0 \o a1) \o r = a0 \o w
  <2>1. Regroups(a0, a1, r)
    BY Associates DEF ThreeIn
  <2> QED
    BY <1>1, <2>1 DEF Regroups
<1>3. PICK s : s = State(Fresh, a0 \o w, <<>>)
  OBVIOUS
<1>4. Leads(s, f0, State(Fresh, w, t0))
  BY <1>3
<1>5. Leads(State(Fresh, w, t0), f1, State(Fresh, r, t0 \o t1))
  BY <1>1 DEF Prints
<1>6. Leads(s, f0 \o f1, State(Fresh, r, t0 \o t1))
  BY <1>4, <1>5, LeadsOn
<1> QED
  BY <1>2, <1>3, <1>6

\* vkprint makes of a message the texts of its parts, one after the other.
LEMMA vkprintStrings ==
    ASSUME NEW m, IsMessage(m), NEW x, Renders(x, m)
    PROVE  vkprint(Format(m), Arguments(m)) = FlattenSeq(x)
<1>1. PICK N \in Nat : N = Len(m)
  BY PartsAre
<1>2. PICK d \in Seq(Seq(Nat)) : /\ Len(d) = N /\ Format(m) = FlattenSeq(d)
                                 /\ \A i \in 1..N : d[i] = m[i].directive /\ d[i] \in Seq(Nat)
  BY <1>1, PiecesAre
<1>3. PICK a \in Seq(Seq(Passed)) : /\ Len(a) = N /\ Arguments(m) = FlattenSeq(a)
                                    /\ \A i \in 1..N : a[i] = m[i].args /\ a[i] \in Seq(Passed)
  BY <1>1, PiecesAre
<1>4. /\ x \in Seq(Seq(Chars)) /\ Len(x) = N
      /\ \A i \in 1..N : Prints(Passed, m[i].directive, m[i].args, x[i])
  BY <1>1 DEF Renders
<1>5. PICK F : Strings(Nat, F, d) /\ Format(m) = F[N]
  BY <1>2, FlattenStrings
<1>6. PICK A : Strings(Passed, A, a) /\ Arguments(m) = A[N]
  BY <1>3, FlattenStrings
<1>7. PICK T : Strings(Chars, T, x) /\ FlattenSeq(x) = T[N]
  BY <1>4, FlattenStrings
<1>8. /\ F[0] = <<>> /\ \A i \in 1..N : F[i] = F[i - 1] \o d[i]
      /\ \A i \in 0..N : F[i] \in Seq(Nat)
  BY <1>2, <1>5 DEF Strings
<1>9. /\ A[0] = <<>> /\ \A i \in 1..N : A[i] = A[i - 1] \o a[i]
      /\ \A i \in 0..N : A[i] \in Seq(Passed)
  BY <1>3, <1>6 DEF Strings
<1>10. /\ T[0] = <<>> /\ \A i \in 1..N : T[i] = T[i - 1] \o x[i]
       /\ \A i \in 0..N : T[i] \in Seq(Chars)
  BY <1>4, <1>7 DEF Strings
<1> DEFINE Printed(n) == \A r \in Seq(Passed) :
                             Leads(State(Fresh, A[n] \o r, <<>>), F[n], State(Fresh, r, T[n]))
<1>11. Printed(0)
  <2>1. ASSUME NEW r \in Seq(Passed)
        PROVE  Leads(State(Fresh, A[0] \o r, <<>>), F[0], State(Fresh, r, T[0]))
    <3>1. A[0] \o r = r
      BY <1>9, ConcatEmptySeq
    <3>2. Leads(State(Fresh, r, <<>>), <<>>, State(Fresh, r, <<>>))
      BY LeadsNowhere
    <3> QED
      BY <1>8, <1>10, <3>1, <3>2
  <2> QED
    BY <2>1
<1>12. ASSUME NEW n \in 1..N, Printed(n - 1) PROVE Printed(n)
  <2>1. n \in 0..N /\ n - 1 \in 0..N
    OBVIOUS
  <2>2. PICK f0 \in Seq(Nat), f1 \in Seq(Nat) : f0 = F[n - 1] /\ f1 = d[n] /\ F[n] = f0 \o f1
    BY <1>2, <1>8, <2>1
  <2>3. PICK a0 \in Seq(Passed), a1 \in Seq(Passed) :
           a0 = A[n - 1] /\ a1 = a[n] /\ A[n] = a0 \o a1
    BY <1>3, <1>9, <2>1
  <2>4. PICK t0 \in Seq(Chars) : t0 = T[n - 1]
    BY <1>10, <2>1
  <2>5. PICK t1 : t1 = x[n] /\ T[n] = t0 \o t1
    BY <1>10, <2>4
  <2>6. \A r \in Seq(Passed) : Leads(State(Fresh, a0 \o r, <<>>), f0, State(Fresh, r, t0))
    BY <1>12, <2>2, <2>3, <2>4
  <2>7. Prints(Passed, f1, a1, t1)
    BY <1>2, <1>3, <1>4, <2>2, <2>3, <2>5
  <2>8. \A r \in Seq(Passed) : Leads(State(Fresh, (a0 \o a1) \o r, <<>>), f0 \o f1,
                                     State(Fresh, r, t0 \o t1))
    BY <2>6, <2>7, OnePartMore
  <2> QED
    BY <2>2, <2>3, <2>5, <2>8
<1> HIDE DEF Printed
<1>13. Printed(N)
  <2> DEFINE K == {n \in Nat : n <= N => Printed(n)}
  <2>1. 0 \in K
    BY <1>11
  <2>2. ASSUME NEW n \in K PROVE n + 1 \in K
    <3>1. CASE n + 1 <= N
      <4>1. n + 1 \in 1..N /\ (n + 1) - 1 = n /\ n <= N
        BY <3>1
      <4>2. Printed(n + 1)
        BY <1>12, <4>1
      <4> QED
        BY <4>2
    <3> QED
      BY <3>1
  <2>3. K \in SUBSET Nat
    OBVIOUS
  <2> HIDE DEF K
  <2>4. \A n \in Nat : n \in K
    BY <2>1, <2>2, <2>3, InductionOn
  <2> QED
    BY <2>4 DEF K
<1>14. Leads(State(Fresh, A[N], <<>>), F[N], State(Fresh, <<>>, T[N]))
  <2>1. <<>> \in Seq(Passed)
    BY EmptySeq
  <2>2. Leads(State(Fresh, A[N] \o <<>>, <<>>), F[N], State(Fresh, <<>>, T[N]))
    BY <1>13, <2>1 DEF Printed
  <2>3. A[N] \o <<>> = A[N]
    BY <1>9, ConcatEmptySeq
  <2> QED
    BY <2>2, <2>3
<1>15. Len(F[N]) \in Nat
  BY <1>8
<1>16. vkprint(F[N], A[N]) = State(Fresh, <<>>, T[N]).text
  BY <1>14, <1>15, vkprintIs
<1>17. State(Fresh, <<>>, T[N]).text = T[N]
  BY StateIs
<1> QED
  BY <1>5, <1>6, <1>7, <1>16, <1>17

\* What vkprint hands to putchar are characters, and they say what the message means.
LEMMA MessageSaid ==
    ASSUME NEW m, IsMessage(m)
    PROVE  /\ vkprint(Format(m), Arguments(m)) \in Seq(Chars)
           /\ Means(vkprint(Format(m), Arguments(m)), m)
<1>1. PICK x : Renders(x, m)
  BY RenderExists
<1>2. vkprint(Format(m), Arguments(m)) = FlattenSeq(x)
  BY <1>1, vkprintStrings
<1> QED
  BY <1>1, <1>2, StrungMeans

\* What has been printed of a message and what has yet to be, together, say what it means.
Printing ==
    /\ line \in Seq(Chars) /\ todo \in Seq(Chars)
    /\ Means(line \o todo, message)

LEMMA NothingMeans == Means(<<>>, <<>>)
<1>1. IsMessage(<<>>)
  <2>1. <<>> \in Seq(ToSet(<<>>)) /\ ToSet(<<>>) = {}
    BY EmptySeq DEF ToSet
  <2> QED
    BY <2>1 DEF IsMessage
<1>2. Renders(<<>>, <<>>)
  <2>1. PICK e : e = <<>> /\ e \in Seq(Seq(Chars)) /\ Len(e) = 0
    BY EmptySeq
  <2>2. Renders(e, e)
    BY <2>1 DEF Renders
  <2> QED
    BY <2>1, <2>2
<1>3. FlattenSeq(<<>>) = <<>>
  <2>1. Len(<<>>) = 0
    BY EmptySeq
  <2> QED
    BY <2>1 DEF FlattenSeq
<1> QED
  BY <1>1, <1>2, <1>3, StrungMeans

LEMMA InitPrinting == DebugInit => Printing
<1> SUFFICES ASSUME line = <<>>, todo = <<>>, message = <<>> PROVE Printing
  BY DEF DebugInit
<1>1. <<>> \in Seq(Chars)
  BY EmptySeq
<1>2. <<>> \o <<>> = <<>>
  BY <1>1, ConcatEmptySeq
<1>3. Means(<<>> \o <<>>, <<>>)
  BY <1>2, NothingMeans
<1> QED
  BY <1>1, <1>3 DEF Printing

LEMMA debugPrints ==
    ASSUME NEW m \in Messages \union Openings, debug(m)
    PROVE  Printing'
<1>1. IsMessage(m)
  BY MessagesAssumption DEF IsMessage
<1>2. PICK w \in Seq(Chars) : w = vkprint(Format(m), Arguments(m)) /\ Means(w, m)
  BY <1>1, MessageSaid
<1>3. todo' = w /\ line' = <<>> /\ message' = m
  BY <1>2 DEF debug
<1>4. <<>> \in Seq(Chars) /\ <<>> \o w = w
  BY EmptySeq, ConcatEmptySeq
<1> QED
  BY <1>2, <1>3, <1>4 DEF Printing

LEMMA PutcharPrints ==
    ASSUME Printing, Putchar
    PROVE  Printing'
<1>1. PICK s \in Seq(Chars), t \in Seq(Chars) : s = line /\ t = todo /\ t # <<>>
  BY DEF Printing, Putchar
<1>2. PICK c, r : c = Head(t) /\ r = Tail(t) /\ c \in Chars /\ r \in Seq(Chars)
  <2>1. Head(t) \in Chars /\ Tail(t) \in Seq(Chars)
    BY <1>1, HeadTailProperties
  <2> QED
    BY <2>1
<1>3. line' = Append(s, c) /\ todo' = r /\ message' = message
  BY <1>1, <1>2 DEF Putchar
<1>4. PICK o \in Seq(Chars) : o = <<c>>
  BY <1>2, OneIn
<1>5. Append(s, c) = s \o o /\ s \o o \in Seq(Chars)
  BY <1>2, <1>4, AppendIsConcat, ConcatProperties
<1>6. t = o \o r
  BY <1>1, <1>2, <1>4
<1>7. Regroups(s, o, r)
  BY <1>2, Associates DEF ThreeIn
<1>8. (s \o o) \o r = s \o t
  BY <1>6, <1>7 DEF Regroups
<1>9. Means(s \o t, message)
  BY <1>1 DEF Printing
<1> QED
  BY <1>2, <1>3, <1>5, <1>8, <1>9 DEF Printing

LEMMA NextPrinting ==
    ASSUME Printing, [DebugNext]_debugVars
    PROVE  Printing'
<1>1. ASSUME NEW m \in Messages \union Openings, debug(m) PROVE Printing'
  BY <1>1, debugPrints
<1>2. CASE Putchar
  BY <1>2, PutcharPrints
<1>3. CASE UNCHANGED <<message, todo, line>>
  BY <1>3 DEF Printing
<1> QED
  BY <1>1, <1>2, <1>3 DEF DebugNext, debugVars
-----------------------------------------------------------------------------
(* The theorems about the log *)

\* The strengthened invariant, of the buffer and the wire and of the message: whatever
\* vkprint makes of a message are characters, which is what serialPrint can tell from
\* the end of the buffer.
THEOREM Inductive == DebugSpec => [](IInv /\ Printing)
<1>1. Printing => Printable
  BY DEF Printing, Printable
<1> QED
  BY <1>1, InitIInv, NextIInv, InitPrinting, NextPrinting, PTL DEF DebugSpec

\* For buffers and messages of any size, what is printed is what is sent and
\* what waits, in order, as long as the terminator behind a full buffer hits nothing;
\* and it is written there only if a line is as long as the buffer.
THEOREM LogIsPrinted == DebugSpec => []LogInv
<1>1. IInv => LogInv
  BY WireIsLog DEF IInv, LogInv
<1> QED
  BY <1>1, Inductive, PTL

\* And whatever the messages, of any parts and at any widths, when debug returns
\* the characters it has printed can be cut into pieces that say what the parts
\* mean: text as it stands, and numerals whose value is that of the argument at the
\* width of the directive, or of the conversions if that is less.
THEOREM MessagesMeant == DebugSpec => []DebugInv
<1>1. IInv /\ Printing => DebugInv
  <2>1. IInv => LogInv
    BY WireIsLog DEF IInv, LogInv
  <2>2. Printing => Printable
    BY DEF Printing, Printable
  <2>3. Printing => MessageMeant
    <3> SUFFICES ASSUME Printing, todo = <<>> PROVE Means(line, message)
      BY DEF MessageMeant
    <3>1. line \in Seq(Chars) /\ Means(line \o <<>>, message)
      BY DEF Printing
    <3>2. line \o <<>> = line
      BY <3>1, ConcatEmptySeq
    <3> QED
      BY <3>1, <3>2
  <2> QED
    BY <2>1, <2>2, <2>3 DEF DebugInv
<1> QED
  BY <1>1, Inductive, PTL
-----------------------------------------------------------------------------
(* Clock *)


\* A value is held by the register of field f in a second of the call.
Held(f, v) == \E k \in called..now : v = Register(k, f)

\* Where GetTime is, what it has read, and from which seconds.
ReadSoFar ==
    /\ stage \in {"idle", "sleeping"} => values = <<>>
    /\ \A f \in 1..Len(values) : values[f] \in Glitch \/ Held(f, values[f])

\* A call that has not slept takes everything from the second it was made in,
\* because the clock, which had announced nothing, does not get to change.
OneSecond ==
    /\ stage = "sleeping" => slept
    /\ Prompt => phase # "changing" /\ now = called
    /\ ~slept => \A f \in 1..Len(values) : values[f] = Register(called, f)

Results == stage \in Over => Len(values) = 7 /\ dt = [f \in Fields |-> Converted(f, values[f])]

Astray == stage = "astray" => dt[MonthAt] \notin 1..12 \/ dt[WeekDayAt] \notin WeekDays

ClockRuns == phase # "steady" => now < Len(Calendar)

ClockIInv == ClockTypeOK /\ ReadSoFar /\ OneSecond /\ Results /\ Astray /\ ClockRuns
-----------------------------------------------------------------------------
(* The conversions *)

LEMMA CalendarFields ==
    ASSUME NEW k \in 1..Len(Calendar), NEW f \in Fields
    PROVE  /\ Calendar[k][f] \in 0..99
           /\ f = WeekDayAt => Calendar[k][f] \in 1..7
           /\ f = MonthAt => Calendar[k][f] \in 1..12
<1>1. k \in DOMAIN Calendar /\ Calendar[k] \in [Fields -> 0..99]
  BY ClockAssumption
<1> QED
  BY <1>1, ClockAssumption

\* BCD to binary undoes binary to BCD, and leaves a single digit alone.
LEMMA BcdInverse ==
    ASSUME NEW v \in 0..99
    PROVE  /\ BinToBcd(v) \in 0..153 /\ BcdToBin(BinToBcd(v)) = v
           /\ v < 10 => BinToBcd(v) = v
<1>1. PICK t \in 0..9, u \in 0..9 : v = 10 * t + u
  <2> DEFINE Tens(t) == v - 10 * t \in 0..9
  <2>1. Tens(0) \/ Tens(1) \/ Tens(2) \/ Tens(3) \/ Tens(4) \/ Tens(5) \/ Tens(6) \/ Tens(7)
        \/ Tens(8) \/ Tens(9)
    OBVIOUS
  <2>2. \A n \in {0, 1, 2, 3, 4, 5, 6, 7, 8, 9} : n \in 0..9
    OBVIOUS
  <2> HIDE DEF Tens
  <2>3. PICK t \in 0..9 : Tens(t)
    BY <2>1, <2>2
  <2>4. v - 10 * t \in 0..9 /\ v = 10 * t + (v - 10 * t)
    BY <2>3 DEF Tens
  <2> QED
    BY <2>4
<1>2. v \div 10 = t /\ v % 10 = u
  BY <1>1
<1>3. BinToBcd(v) = 16 * t + u
  BY <1>2 DEF BinToBcd
<1>4. (16 * t + u) % 16 = u /\ (16 * t + u) \div 16 = t
  OBVIOUS
<1>5. BcdToBin(16 * t + u) = v
  BY <1>1, <1>4 DEF BcdToBin
<1> QED
  BY <1>1, <1>3, <1>5

LEMMA RegisterByte ==
    ASSUME NEW k \in 1..Len(Calendar), NEW f \in Fields
    PROVE  Register(k, f) \in 0..255
<1> DEFINE v == Calendar[k][f]
           h == IF v % 12 = 0 THEN 12 ELSE v % 12
<1>1. v \in 0..99 /\ h \in 0..12
  <2>1. v \in 0..99
    BY CalendarFields
  <2> HIDE DEF v
  <2>2. v % 12 \in 0..11
    BY <2>1
  <2> QED
    BY <2>1, <2>2
<1>2. BinToBcd(v) \in 0..153
  BY <1>1, BcdInverse
<1>3. BinToBcd(h) \in 0..18
  <2> HIDE DEF h
  <2>1. CASE h < 10
    <3>1. h \in 0..99
      BY <1>1
    <3>2. BinToBcd(h) = h
      BY <2>1, <3>1, BcdInverse
    <3> QED
      BY <1>1, <2>1, <3>2
  <2>2. CASE ~(h < 10)
    <3>1. h = 10 \/ h = 11 \/ h = 12
      BY <1>1, <2>2
    <3>2. BinToBcd(10) = 16 /\ BinToBcd(11) = 17 /\ BinToBcd(12) = 18
      BY DEF BinToBcd
    <3> QED
      BY <3>1, <3>2
  <2> QED
    BY <2>1, <2>2
<1>4. Register(k, f) = IF f = HourAt /\ ~hours24
                       THEN (IF binary THEN h ELSE BinToBcd(h)) + (IF v >= 12 THEN 128 ELSE 0)
                       ELSE (IF binary THEN v ELSE BinToBcd(v))
  BY DEF Register, Hour12
<1> HIDE DEF v, h
<1>5. CASE f = HourAt /\ ~hours24
  <2> DEFINE a == IF binary THEN h ELSE BinToBcd(h)
             b == IF v >= 12 THEN 128 ELSE 0
  <2>1. a \in 0..18
    BY <1>1, <1>3
  <2>2. b \in 0..128
    OBVIOUS
  <2>3. Register(k, f) = a + b
    BY <1>4, <1>5
  <2> HIDE DEF a, b
  <2> QED
    BY <2>1, <2>2, <2>3
<1>6. CASE ~(f = HourAt /\ ~hours24)
  BY <1>1, <1>2, <1>4, <1>6
<1> QED
  BY <1>5, <1>6

\* Converting what a register holds gives the field of that second, but for the
\* hour of a clock that counts by 12.
LEMMA ConvertedIsField ==
    ASSUME NEW k \in 1..Len(Calendar), NEW f \in Fields, hours24 \/ f # HourAt
    PROVE  Converted(f, Register(k, f)) = Reading(k)[f]
<1> DEFINE v == Calendar[k][f]
<1>1. /\ v \in 0..99 /\ (f = WeekDayAt => v \in 1..7)
      /\ BcdToBin(BinToBcd(v)) = v /\ (v < 10 => BinToBcd(v) = v)
  BY CalendarFields, BcdInverse
<1>2. Register(k, f) = IF binary THEN v ELSE BinToBcd(v)
  BY DEF Register
<1>3. Reading(k)[f] = CASE f = YearAt -> v + 2000
                        [] f = WeekDayAt -> v - 1
                        [] OTHER -> v
  BY DEF Reading
<1> HIDE DEF v
<1>4. CASE f = WeekDayAt
  <2>1. Register(k, f) = v /\ (v - 1) % 256 = v - 1
    BY <1>1, <1>2, <1>4
  <2> QED
    BY <1>3, <1>4, <2>1 DEF Converted, YearAt, WeekDayAt
<1>5. CASE f # WeekDayAt
  <2>1. Converted(f, Register(k, f)) = v + (IF f = YearAt THEN 2000 ELSE 0)
    BY <1>1, <1>2, <1>5 DEF Converted
  <2>2. Reading(k)[f] = IF f = YearAt THEN v + 2000 ELSE v
    BY <1>3, <1>5
  <2> QED
    BY <1>1, <2>1, <2>2
<1> QED
  BY <1>4, <1>5
-----------------------------------------------------------------------------
\* What a register may hold.
AnyByte == 0..255

LEMMA ConvertedByte ==
    ASSUME NEW f \in Fields, NEW v \in AnyByte
    PROVE  /\ f = YearAt => Converted(f, v) \in 2000..2255
           /\ f # YearAt => Converted(f, v) \in 0..255
<1>1. BcdToBin(v) \in 0..255
  <2>1. v % 16 \in 0..15 /\ v \div 16 \in 0..15
    BY DEF AnyByte
  <2> QED
    BY <2>1 DEF BcdToBin
<1>2. (v - 1) % 256 \in 0..255
  BY DEF AnyByte
<1> QED
  BY <1>1, <1>2 DEF Converted, YearAt, WeekDayAt, AnyByte

LEMMA ClockInitIInv == ClockInit => ClockIInv
<1> SUFFICES ASSUME ClockInit PROVE ClockIInv
  OBVIOUS
<1>1. Len(Calendar) \in Nat \ {0}
  BY ClockAssumption
<1>2. values = <<>> /\ stage = "idle" /\ phase = "steady"
  BY DEF ClockInit
<1>3. ClockTypeOK
  <2>1. now \in 1..Len(Calendar) /\ called \in 1..now
    BY <1>1 DEF ClockInit
  <2>2. values \in Seq(0..255) /\ Len(values) <= 7
    BY <1>2
  <2>3. since \in 0..SleepTicks
    BY ClockAssumption DEF ClockInit
  <2>4. binary \in BOOLEAN /\ hours24 \in BOOLEAN /\ slept \in BOOLEAN
    BY Zenon DEF ClockInit
  <2>5. stage \notin Over
    BY <1>2 DEF Over
  <2> QED
    BY <1>2, <2>1, <2>2, <2>3, <2>4, <2>5, Zenon DEF ClockTypeOK
<1> QED
  BY <1>2, <1>3 DEF ClockIInv, ReadSoFar, OneSecond, Prompt, Results, Astray, ClockRuns, Over

\* Steps after which the values read and their seconds are what they were.
LEMMA ValuesStay ==
    ASSUME ClockIInv, UNCHANGED <<values, called, binary, hours24>>, now' \in Nat, now' >= now
    PROVE  /\ (\A f \in 1..Len(values) : values[f] \in Glitch \/ Held(f, values[f]))'
           /\ \A f \in Fields : \A k : Register(k, f)' = Register(k, f)
<1>1. ASSUME NEW k, NEW f PROVE Register(k, f)' = Register(k, f)
  BY DEF Register, Hour12, BinToBcd
<1>2. \A k \in called..now : k \in called..now'
  BY DEF ClockIInv, ClockTypeOK
<1>3. ASSUME NEW f \in 1..Len(values), Held(f, values[f]) PROVE Held(f, values[f])'
  BY <1>1, <1>2, <1>3 DEF Held
<1>4. (\A f \in 1..Len(values) : values[f] \in Glitch \/ Held(f, values[f]))'
  BY <1>3 DEF ClockIInv, ReadSoFar
<1> QED
  BY <1>1, <1>4

LEMMA CheckUpdateKeeps == ASSUME ClockIInv, CheckUpdate PROVE ClockIInv'
<1>1. /\ stage = "idle" /\ called' = now /\ since' = 0 /\ UNCHANGED <<rtc, values, dt>>
      /\ stage' \in {"sleeping", "reading"} /\ values = <<>>
  BY DEF CheckUpdate, ClockIInv, ReadSoFar
<1>2. /\ slept' \in BOOLEAN /\ (stage' = "sleeping" => slept')
      /\ (~slept' => phase = "steady")
  BY Zenon DEF CheckUpdate, UIP
<1>3. ClockTypeOK'
  <2>1. called' \in 1..now' /\ since' \in 0..SleepTicks /\ now' \in 1..Len(Calendar)
    BY <1>1, ClockAssumption DEF ClockIInv, ClockTypeOK, rtc
  <2>2. stage' \notin Over
    BY <1>1 DEF Over
  <2> QED
    BY <1>1, <1>2, <2>1, <2>2 DEF ClockIInv, ClockTypeOK, rtc
<1>4. ReadSoFar' /\ Results' /\ Astray' /\ ClockRuns'
  BY <1>1 DEF ClockIInv, ReadSoFar, Results, Astray, ClockRuns, Over, rtc
<1>5. OneSecond'
  BY <1>1, <1>2 DEF OneSecond, Prompt, rtc
<1> QED
  BY <1>3, <1>4, <1>5 DEF ClockIInv

LEMMA WakeKeeps == ASSUME ClockIInv, Wake PROVE ClockIInv'
<1>1. /\ stage = "sleeping" /\ stage' = "reading"
      /\ UNCHANGED <<rtc, since, values, called, slept, dt>>
  BY DEF Wake
<1>2. ClockTypeOK'
  BY <1>1 DEF ClockIInv, ClockTypeOK, rtc, Over
<1>3. ReadSoFar'
  BY <1>1, ValuesStay DEF ClockIInv, ClockTypeOK, ReadSoFar, rtc
<1>4. OneSecond'
  BY <1>1 DEF ClockIInv, OneSecond, Prompt, rtc
<1> QED
  BY <1>1, <1>2, <1>3, <1>4 DEF ClockIInv, Results, Astray, ClockRuns, Over, rtc

LEMMA RtcReadKeeps == ASSUME ClockIInv, RtcRead PROVE ClockIInv'
<1>1. /\ stage = "reading" /\ Len(values) < 7 /\ UNCHANGED <<rtc, stage, since, called, slept, dt>>
  BY DEF RtcRead
<1> DEFINE next == Len(values) + 1
<1>2. PICK v \in IF phase = "changing" THEN Glitch ELSE {Register(now, next)} :
        values' = Append(values, v)
  BY DEF RtcRead
<1>3. /\ values \in Seq(0..255) /\ Len(values) \in Nat /\ next \in Fields
      /\ now \in 1..Len(Calendar) /\ called \in 1..now
  BY <1>1 DEF ClockIInv, ClockTypeOK, Fields
<1>4. v \in 0..255
  <2>1. CASE phase = "changing"
    BY <1>2, <2>1, ClockAssumption
  <2>2. CASE phase # "changing"
    <3>1. v = Register(now, next)
      BY <1>2, <2>2
    <3> QED
      BY <1>3, <3>1, RegisterByte
  <2> QED
    BY <2>1, <2>2
<1>5. /\ values' \in Seq(0..255) /\ Len(values') = next /\ values'[next] = v
      /\ \A f \in 1..Len(values) : values'[f] = values[f]
  BY <1>2, <1>3, <1>4
<1>6. ClockTypeOK'
  <2>1. Len(values') <= 7
    BY <1>1, <1>3, <1>5
  <2> QED
    BY <1>1, <1>5, <2>1 DEF ClockIInv, ClockTypeOK, rtc, Over
<1>7. ASSUME NEW k, NEW f PROVE Register(k, f)' = Register(k, f)
  BY <1>1 DEF Register, Hour12, BinToBcd, rtc
<1>8. ASSUME NEW f, NEW x, Held(f, x) PROVE Held(f, x)'
  BY <1>1, <1>7, <1>8 DEF Held, rtc
<1>9. ASSUME NEW f \in 1..next PROVE f = next \/ f \in 1..Len(values)
  BY <1>3
<1>10. ReadSoFar'
  <2>1. v \in Glitch \/ Held(next, v)
    BY <1>2, <1>3 DEF Held
  <2>2. ASSUME NEW f \in 1..next PROVE (values[f] \in Glitch \/ Held(f, values[f]))'
    <3>1. CASE f = next
      BY <1>5, <1>8, <2>1, <3>1
    <3>2. CASE f \in 1..Len(values)
      BY <1>5, <1>8, <3>2 DEF ClockIInv, ReadSoFar
    <3> QED
      BY <1>9, <3>1, <3>2
  <2> QED
    BY <1>1, <1>5, <2>2 DEF ReadSoFar
<1>11. OneSecond'
  <2>1. ASSUME ~slept PROVE phase # "changing" /\ now = called /\ v = Register(called, next)
    BY <1>1, <1>2, <2>1 DEF ClockIInv, OneSecond, Prompt
  <2>2. ASSUME ~slept, NEW f \in 1..next PROVE values'[f] = Register(called, f)
    <3>1. CASE f = next
      BY <1>5, <2>1, <2>2, <3>1
    <3>2. CASE f \in 1..Len(values)
      BY <1>5, <2>2, <3>2 DEF ClockIInv, OneSecond
    <3> QED
      BY <1>9, <3>1, <3>2
  <2>3. (~slept => \A f \in 1..Len(values) : values[f] = Register(called, f))'
    BY <1>1, <1>5, <1>7, <2>2
  <2> QED
    BY <1>1, <2>1, <2>3 DEF OneSecond, Prompt, rtc
<1> QED
  BY <1>1, <1>6, <1>10, <1>11 DEF ClockIInv, Results, Astray, ClockRuns, Over, rtc

LEMMA ConvertKeeps == ASSUME ClockIInv, Convert PROVE ClockIInv'
<1>1. /\ stage = "reading" /\ Len(values) = 7 /\ stage' = "done"
      /\ dt' = [f \in Fields |-> Converted(f, values[f])]
      /\ UNCHANGED <<rtc, since, values, called, slept>>
  BY DEF Convert
<1>2. \A f \in Fields : values[f] \in 0..255
  <2>1. values \in Seq(0..255)
    BY DEF ClockIInv, ClockTypeOK
  <2>2. \A f \in 1..Len(values) : values[f] \in 0..255
    BY <2>1, ElementOfSeq
  <2> QED
    BY <1>1, <2>2 DEF Fields
<1>3. /\ \A f \in Fields \ {YearAt} : dt'[f] \in 0..255
      /\ dt'[YearAt] \in 2000..2255
  <2>1. ASSUME NEW f \in Fields
        PROVE  /\ f = YearAt => dt'[f] \in 2000..2255
               /\ f # YearAt => dt'[f] \in 0..255
    <3>1. PICK v \in AnyByte : dt'[f] = Converted(f, v)
      BY <1>1, <1>2 DEF AnyByte
    <3>2. /\ f = YearAt => Converted(f, v) \in 2000..2255
          /\ f # YearAt => Converted(f, v) \in 0..255
      BY ConvertedByte
    <3> QED
      BY <3>1, <3>2
  <2>2. YearAt \in Fields
    BY DEF YearAt, Fields
  <2> QED
    BY <2>1, <2>2
<1>4. ClockTypeOK'
  <2>1. stage' = "done" /\ UNCHANGED <<rtc, since, values, called, slept>>
    BY <1>1
  <2> QED
    BY <1>3, <2>1 DEF ClockIInv, ClockTypeOK, rtc, Over
<1>5. ReadSoFar'
  BY <1>1, ValuesStay DEF ClockIInv, ClockTypeOK, ReadSoFar, rtc
<1>6. OneSecond'
  BY <1>1 DEF ClockIInv, OneSecond, Prompt, Register, Hour12, BinToBcd, rtc
<1>7. Results'
  <2>1. \A f, x : Converted(f, x)' = Converted(f, x)
    BY <1>1 DEF Converted, BcdToBin, rtc
  <2> QED
    BY <1>1, <2>1 DEF Results
<1> QED
  BY <1>1, <1>4, <1>5, <1>6, <1>7 DEF ClockIInv, Astray, ClockRuns, rtc

LEMMA FormatTimeKeeps == ASSUME ClockIInv, FormatTime PROVE ClockIInv'
<1>1. /\ stage = "done" /\ stage' \in {"printed", "astray"}
      /\ UNCHANGED <<rtc, since, values, called, slept, dt>>
  BY DEF FormatTime
<1>2. ClockTypeOK'
  BY <1>1 DEF ClockIInv, ClockTypeOK, rtc, Over
<1>3. ReadSoFar'
  BY <1>1, ValuesStay DEF ClockIInv, ClockTypeOK, ReadSoFar, rtc
<1>4. OneSecond'
  BY <1>1 DEF ClockIInv, OneSecond, Prompt, Register, Hour12, BinToBcd, rtc
<1>5. Results'
  BY <1>1 DEF ClockIInv, Results, Over, Converted, BcdToBin, rtc
<1>6. Astray'
  BY <1>1 DEF FormatTime, Astray, Months
<1> QED
  BY <1>1, <1>2, <1>3, <1>4, <1>5, <1>6 DEF ClockIInv, ClockRuns, rtc
-----------------------------------------------------------------------------
(* The clock *)

LEMMA ClockKeeps == ASSUME ClockIInv, Announce \/ Change \/ Updated PROVE ClockIInv'
<1>1. /\ UNCHANGED <<binary, hours24, stage, values, called, slept, dt>>
      /\ now \in 1..Len(Calendar) /\ called \in 1..now /\ Len(Calendar) \in Nat
      /\ now' = now \/ (now' = now + 1 /\ phase = "changing")
  BY ClockAssumption DEF Announce, Change, Updated, call, ClockIInv, ClockTypeOK
<1>2. ClockTypeOK'
  <2>1. now' \in 1..Len(Calendar) /\ called' \in 1..now'
    BY <1>1 DEF ClockIInv, ClockRuns
  <2>2. phase' \in {"steady", "announced", "changing"} /\ since' \in 0..SleepTicks
    BY ClockAssumption DEF Announce, Change, Updated, call, ClockIInv, ClockTypeOK
  <2> QED
    BY <1>1, <2>1, <2>2 DEF ClockIInv, ClockTypeOK
<1>3. ReadSoFar'
  BY <1>1, ValuesStay DEF ClockIInv, ReadSoFar
<1>4. OneSecond'
  <2>1. Prompt => (Prompt' => phase' # "changing" /\ now' = called')
    BY <1>1 DEF Announce, Change, Updated, ClockIInv, OneSecond, Prompt
  <2>2. (~slept => \A f \in 1..Len(values) : values[f] = Register(called, f))'
    BY <1>1 DEF ClockIInv, OneSecond, Register, Hour12, BinToBcd
  <2> QED
    BY <1>1, <2>1, <2>2 DEF ClockIInv, OneSecond, Prompt
<1>5. Results' /\ Astray'
  BY <1>1 DEF ClockIInv, Results, Astray, Over, Converted, BcdToBin
<1>6. ClockRuns'
  BY DEF Announce, Change, Updated, ClockIInv, ClockRuns
<1> QED
  BY <1>2, <1>3, <1>4, <1>5, <1>6 DEF ClockIInv

LEMMA ClockNextIInv == ASSUME ClockIInv, [ClockNext]_clockVars PROVE ClockIInv'
<1>1. CASE UNCHANGED clockVars
  <2>1. ClockTypeOK'
    BY <1>1 DEF ClockIInv, ClockTypeOK, clockVars, rtc, call, Over
  <2>2. ReadSoFar'
    BY <1>1, ValuesStay DEF ClockIInv, ClockTypeOK, ReadSoFar, clockVars, rtc, call
  <2>3. OneSecond' /\ Results'
    BY <1>1 DEF ClockIInv, OneSecond, Results, Prompt, Register, Hour12, BinToBcd, Over, Converted,
                BcdToBin, clockVars, rtc, call
  <2> QED
    BY <1>1, <2>1, <2>2, <2>3 DEF ClockIInv, Astray, ClockRuns, clockVars, rtc, call
<1> QED
  BY <1>1, CheckUpdateKeeps, WakeKeeps, RtcReadKeeps, ConvertKeeps, FormatTimeKeeps, ClockKeeps
     DEF ClockNext, GetTime, Stops

LEMMA ClockInductive == ClockSpec => []ClockIInv
<1>1. ClockInit => ClockIInv
  BY ClockInitIInv
<1>2. ClockIInv /\ [ClockNext]_clockVars => ClockIInv'
  BY ClockNextIInv
<1> QED
  BY <1>1, <1>2, PTL DEF ClockSpec
-----------------------------------------------------------------------------
\* A call that does not sleep, of a clock that counts hours by 24, returns one
\* second of the calendar: never the minute of one with the hour of another.
THEOREM TimeOfOneInstant == ClockSpec => []OneInstant
<1>1. ASSUME ClockIInv, stage \in Over, hours24, ~slept PROVE dt = Reading(called)
  <2>1. /\ dt = [f \in Fields |-> Converted(f, values[f])] /\ 1..Len(values) = Fields
        /\ called \in 1..Len(Calendar)
    <3>1. dt = [f \in Fields |-> Converted(f, values[f])] /\ Len(values) = 7
      BY <1>1 DEF ClockIInv, Results
    <3>2. called \in 1..now /\ now \in 1..Len(Calendar) /\ Len(Calendar) \in Nat
      BY <1>1, ClockAssumption DEF ClockIInv, ClockTypeOK
    <3> QED
      BY <3>1, <3>2 DEF Fields
  <2>2. ASSUME NEW f \in Fields PROVE Converted(f, values[f]) = Reading(called)[f]
    <3>1. values[f] = Register(called, f)
      BY <1>1, <2>1 DEF ClockIInv, OneSecond
    <3> QED
      BY <1>1, <2>1, <3>1, ConvertedIsField
  <2> QED
    BY <2>1, <2>2 DEF Reading
<1>2. ClockIInv => OneInstant
  <2> SUFFICES ASSUME ClockIInv, stage \in Over, hours24, ~slept
               PROVE  \E k \in called..now : dt = Reading(k)
    BY DEF OneInstant
  <2>1. called \in called..now
    BY DEF ClockIInv, ClockTypeOK
  <2> QED
    BY <1>1, <2>1
<1> QED
  BY <1>2, ClockInductive, PTL

\* With the sleep, too, every field is that of some second of the call, and the
\* names of the month and of the day are found, unless a register was read while
\* it changed.
THEOREM FieldsAndNames == ClockSpec => []ClockInv
<1>1. ASSUME ClockIInv, stage \in Over, NEW f \in Fields, hours24 \/ f # HourAt,
             values[f] \notin Glitch
      PROVE  \E k \in called..now : dt[f] = Reading(k)[f]
  <2>1. dt[f] = Converted(f, values[f]) /\ f \in 1..Len(values)
    BY <1>1 DEF ClockIInv, Results, Fields
  <2>2. PICK k \in called..now : values[f] = Register(k, f)
    BY <1>1, <2>1 DEF ClockIInv, ReadSoFar, Held
  <2>3. k \in 1..Len(Calendar)
    BY <1>1, ClockAssumption DEF ClockIInv, ClockTypeOK
  <2> QED
    BY <1>1, <2>1, <2>2, <2>3, ConvertedIsField
<1>2. ClockIInv => FieldsAreReal
  BY <1>1 DEF FieldsAreReal
<1>3. MonthAt \in Fields /\ WeekDayAt \in Fields /\ MonthAt # HourAt /\ WeekDayAt # HourAt
  BY DEF MonthAt, WeekDayAt, HourAt, Fields
<1>4. ASSUME ClockIInv, NEW k \in called..now
      PROVE  Reading(k)[MonthAt] \in 1..12 /\ Reading(k)[WeekDayAt] \in WeekDays
  <2>1. k \in 1..Len(Calendar)
    BY <1>4, ClockAssumption DEF ClockIInv, ClockTypeOK
  <2>2. /\ Calendar[k][MonthAt] \in 1..12 /\ Calendar[k][WeekDayAt] \in 1..7
        /\ Reading(k)[MonthAt] = Calendar[k][MonthAt]
        /\ Reading(k)[WeekDayAt] = Calendar[k][WeekDayAt] - 1
    BY <1>3, <2>1, CalendarFields DEF Reading, MonthAt, WeekDayAt, YearAt
  <2> QED
    BY <2>2 DEF WeekDays
<1>5. ClockIInv => NamesExist
  <2> SUFFICES ASSUME ClockIInv, stage \in {"printed", "astray"} PROVE NamesExist
    BY DEF NamesExist
  <2>1. \A f \in {MonthAt, WeekDayAt} :
           values[f] \in Glitch \/ \E k \in called..now : dt[f] = Reading(k)[f]
    BY <1>1, <1>3 DEF Over
  <2> QED
    BY <1>4, <2>1 DEF NamesExist, ClockIInv, Astray
<1> QED
  <2>1. ClockIInv => ClockInv
    BY <1>2, <1>5 DEF ClockIInv, ClockInv
  <2> QED
    BY <2>1, ClockInductive, PTL
=============================================================================
