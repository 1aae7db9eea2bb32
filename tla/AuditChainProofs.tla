-------------------------- MODULE AuditChainProofs --------------------------
(***************************************************************************)
(* What holds of AuditChain for any number of calls, anchors, days, events *)
(* and faults.                                                             *)
(***************************************************************************)
EXTENDS AuditChain, SequenceTheorems, FiniteSetTheorems, WellFoundedInduction, TLAPS

-----------------------------------------------------------------------------
(* Type correctness.                                                       *)

\* The ways in which a step changes the record of a call.
LEMMA CallFields ==
    ASSUME NEW c \in Call, NEW p \in Stages, NEW n \in Nat
    PROVE  /\ [c EXCEPT !.pc = p] \in Call
           /\ [c EXCEPT !.prev = n, !.pc = p] \in Call
           /\ [c EXCEPT !.gseq = n, !.pc = p] \in Call
           /\ [c EXCEPT !.seq = n, !.pc = p] \in Call
           /\ \A b \in BOOLEAN : [c EXCEPT !.first = b, !.pc = p] \in Call
           /\ \A d \in Days : [c EXCEPT !.pc = p, !.day = d, !.id = n] \in Call
    BY Zenon DEF Call

LEMMA CallUpdate ==
    ASSUME call \in [Writers -> Call], NEW w \in Writers, NEW c \in Call,
           call' = [call EXCEPT ![w] = c]
    PROVE  call' \in [Writers -> Call]
    OBVIOUS

\* Idle is a call, and so is a call with one of its fields replaced.
LEMMA IdleIsCall == Idle \in Call
    BY BoundsAssumption DEF Idle, Call, Stages, Window, Days

LEMMA TypeInductive == TypeOK /\ [Next]_vars => TypeOK'
<1> SUFFICES ASSUME TypeOK, [Next]_vars PROVE TypeOK'
    OBVIOUS
<1>1. ASSUME NEW w \in Writers, Start(w) PROVE TypeOK'
  <2>1. [Idle EXCEPT !.pc = "tip", !.day = today, !.id = started + 1] \in Call
    <3>1. "tip" \in Stages /\ today \in Days /\ started + 1 \in Nat
        BY DEF TypeOK, Stages, Window
    <3> QED
        BY <3>1, IdleIsCall, CallFields
  <2> QED
      BY <1>1, <2>1, CallUpdate DEF Start, TypeOK, Incidents, redis
<1>2. ASSUME NEW w \in Writers, ReadTip(w) PROVE TypeOK'
  <2>1. call' = [call EXCEPT ![w] = [call[w] EXCEPT !.prev = tip,
                                                    !.pc = "gseq"]]
      BY <1>2 DEF ReadTip
  <2>2. call' \in [Writers -> Call]
    <3>1. [call[w] EXCEPT !.prev = tip, !.pc = "gseq"] \in Call
        BY CallFields DEF TypeOK, Stages, Window
    <3> QED
        BY <2>1, <3>1, CallUpdate DEF TypeOK
  <2> QED
      BY <1>2, <2>2 DEF ReadTip, TypeOK, redis, ghosts
<1>3. ASSUME NEW w \in Writers, IncrGseq(w) PROVE TypeOK'
  <2>1. call' = [call EXCEPT ![w] = [call[w] EXCEPT !.gseq = gseq + 1,
                                                    !.pc = "seq"]]
      BY <1>3 DEF IncrGseq
  <2>2. call' \in [Writers -> Call]
    <3>1. "seq" \in Stages /\ gseq + 1 \in Nat /\ call[w] \in Call
        BY DEF TypeOK, Stages, Window
    <3>2. [call[w] EXCEPT !.gseq = gseq + 1, !.pc = "seq"] \in Call
        BY <3>1, CallFields
    <3> QED
        BY <2>1, <3>2, CallUpdate DEF TypeOK
  <2> QED
      BY <1>3, <2>2 DEF IncrGseq, TypeOK, dayKeys, ghosts
<1>4. ASSUME NEW w \in Writers, IncrSeq(w) PROVE TypeOK'
  <2>1. call[w].day \in Days /\ daySeq[call[w].day] + 1 \in Nat
      BY DEF TypeOK, Call
  <2>2. call' = [call EXCEPT ![w] = [call[w] EXCEPT
                    !.seq = daySeq[call[w].day] + 1, !.pc = "genesis"]]
      BY <1>4 DEF IncrSeq
  <2>3. call' \in [Writers -> Call]
      BY <2>1, <2>2, CallFields, CallUpdate DEF TypeOK, Stages, Window
  <2> QED
      BY <1>4, <2>1, <2>3 DEF IncrSeq, TypeOK, ghosts
<1>5. ASSUME NEW w \in Writers, ReadGenesis(w) PROVE TypeOK'
  <2> DEFINE b == dayGenesis[call[w].day] = Absent
             c == [call[w] EXCEPT !.first = b, !.pc = "exec"]
  <2>1. c \in Call
      BY CallFields DEF TypeOK, Stages, Window
  <2>2. call' = [call EXCEPT ![w] = c]
      BY <1>5 DEF ReadGenesis
  <2> HIDE DEF c
  <2>3. call' \in [Writers -> Call]
      BY <2>1, <2>2, CallUpdate DEF TypeOK
  <2> QED
      BY <1>5, <2>3 DEF ReadGenesis, TypeOK, redis, ghosts
<1>6. ASSUME NEW w \in Writers, Exec(w) PROVE TypeOK'
  <2>1. /\ call[w] \in Call
        /\ call[w].day \in Days /\ call[w].prev \in Nat /\ call[w].id \in Nat
        /\ call[w].gseq \in Nat /\ call[w].seq \in Nat
      BY DEF TypeOK, Call
  <2>2. call' = [call EXCEPT ![w] = [call[w] EXCEPT !.pc = "mirror"]]
      BY <1>6 DEF Exec
  <2>7. call' \in [Writers -> Call]
      BY <2>1, <2>2, CallFields, CallUpdate DEF TypeOK, Stages
  <2>3. dayLog' \in [Days -> Seq(Entry)]
    <3>1. dayLog \in [Days -> Seq(Entry)]
        BY DEF TypeOK
    <3>2. PICK x \in Entry : dayLog' = [dayLog EXCEPT ![call[w].day] = Append(@, x)]
        BY <1>6, <2>1 DEF Exec, Entry
    <3>3. Append(dayLog[call[w].day], x) \in Seq(Entry)
        BY <2>1, <3>1, <3>2
    <3> QED
        BY <2>1, <3>1, <3>2, <3>3
  <2>4. history' \in Seq(Logged)
      BY <1>6, <2>1 DEF Exec, TypeOK, Logged
  <2>5. dayMark' \in [Days -> [seq : Nat, hash : Nat] \cup {Absent}]
      BY <1>6, <2>1 DEF Exec, TypeOK
  <2>6. dayGenesis' \in [Days -> Nat \cup {Absent}]
      BY <1>6, <2>1 DEF Exec, TypeOK
  <2> QED
      BY <1>6, <2>1, <2>3, <2>4, <2>5, <2>6, <2>7 DEF Exec, TypeOK
<1>7. ASSUME NEW w \in Writers, NEW ok \in SUBSET Anchors, Mirror(w, ok)
      PROVE TypeOK'
  <2>1. [seq |-> call[w].gseq, hash |-> call[w].id, prev |-> call[w].prev]
           \in Row
      BY DEF TypeOK, Call, Row
  <2>2. rows' \in [Anchors -> SUBSET Row]
      BY <1>7, <2>1 DEF Mirror, AnchorAppend, TypeOK
  <2>3. call' \in [Writers -> Call]
      BY <1>7, IdleIsCall, CallUpdate DEF Mirror, TypeOK
  <2> QED
      BY <1>7, <2>2, <2>3 DEF Mirror, TypeOK, redis
<1>8. ASSUME NEW w \in Writers, Interrupt(w) PROVE TypeOK'
  <2>1. call' \in [Writers -> Call]
      BY <1>8, IdleIsCall, CallUpdate DEF Interrupt, TypeOK
  <2> QED
      BY <1>8, <2>1 DEF Interrupt, TypeOK, Incidents, redis
<1>9. CASE NextDay
    BY <1>9, BoundsAssumption DEF NextDay, TypeOK, Days, redis, ghosts
<1>10. ASSUME NEW d \in Days, Expire(d) PROVE TypeOK'
    BY <1>10 DEF Expire, TypeOK, ghosts
<1>11. CASE UNCHANGED vars
    BY <1>11 DEF TypeOK, vars, redis, ghosts
<1> QED
    BY <1>1, <1>2, <1>3, <1>4, <1>5, <1>6, <1>7, <1>8, <1>9, <1>10, <1>11
    DEF Next, Step
\* Every variable keeps its type, whatever the interleaving of the calls.
THEOREM TypeCorrect == Spec => []TypeOK
<1>1. Init => TypeOK
    BY BoundsAssumption, IdleIsCall
    DEF Init, TypeOK, Days, Genesis, Entry, Logged
<1> QED
    BY <1>1, TypeInductive, PTL DEF Spec

-----------------------------------------------------------------------------
(* The sequence numbers of the anchors.                                    *)

TookGseq(w) == call[w].pc \in {"seq", "genesis", "exec", "mirror"}

\* Every seq an anchor holds and every seq a call carries was given out by
\* gseq, to one call only, and no anchor holds one that is still carried.
GseqInv ==
    /\ \A w \in Writers : TookGseq(w) => call[w].gseq <= gseq
    /\ \A v, w \in Writers :
          TookGseq(v) /\ TookGseq(w) /\ v # w => call[v].gseq # call[w].gseq
    /\ \A a \in Anchors : \A r \in rows[a] : r.seq <= gseq
    /\ \A w \in Writers, a \in Anchors :
          TookGseq(w) => \A r \in rows[a] : r.seq # call[w].gseq

LEMMA GseqInductive == TypeOK /\ GseqInv /\ [Next]_vars => GseqInv'
<1> SUFFICES ASSUME TypeOK, GseqInv, [Next]_vars PROVE GseqInv'
    OBVIOUS
<1>0. /\ gseq \in Nat
      /\ \A w \in Writers : call[w].gseq \in Nat
      /\ \A a \in Anchors : \A r \in rows[a] : r.seq \in Nat
    BY DEF TypeOK, Call, Row
<1>1. ASSUME NEW w \in Writers, Start(w) PROVE GseqInv'
    BY <1>0, <1>1 DEF Start, TypeOK, GseqInv, TookGseq, Idle, redis
<1>2. ASSUME NEW w \in Writers, ReadTip(w) PROVE GseqInv'
    BY <1>0, <1>2 DEF ReadTip, TypeOK, GseqInv, TookGseq, redis
<1>3. ASSUME NEW w \in Writers, IncrGseq(w) PROVE GseqInv'
  <2>1. /\ gseq' = gseq + 1
        /\ rows' = rows
        /\ call[w].pc = "gseq"
        /\ call'[w].gseq = gseq + 1
        /\ \A v \in Writers \ {w} : call'[v] = call[v]
      BY <1>3 DEF IncrGseq, TypeOK
  <2>2. \A v \in Writers \ {w} : TookGseq(v)' => TookGseq(v)
      BY <2>1 DEF TookGseq
  <2> QED
      BY <1>0, <2>1, <2>2 DEF GseqInv
<1>4. ASSUME NEW w \in Writers, IncrSeq(w) PROVE GseqInv'
    BY <1>0, <1>4 DEF IncrSeq, TypeOK, GseqInv, TookGseq
<1>5. ASSUME NEW w \in Writers, ReadGenesis(w) PROVE GseqInv'
    BY <1>0, <1>5 DEF ReadGenesis, TypeOK, GseqInv, TookGseq, redis
<1>6. ASSUME NEW w \in Writers, Exec(w) PROVE GseqInv'
  <2>1. gseq' = gseq /\ rows' = rows
      BY <1>6 DEF Exec
  <2>2. \A v \in Writers : /\ call'[v].gseq = call[v].gseq
                           /\ TookGseq(v)' <=> TookGseq(v)
    <3>1. /\ call \in [Writers -> Call] /\ call[w] \in Call /\ call[w].pc = "exec"
          /\ call' = [call EXCEPT ![w] = [call[w] EXCEPT !.pc = "mirror"]]
        BY <1>6 DEF Exec, TypeOK
    <3>2. /\ call'[w].pc = "mirror" /\ call'[w].gseq = call[w].gseq
          /\ \A v \in Writers \ {w} : call'[v] = call[v]
        BY <3>1 DEF Call
    <3> QED
        BY <3>1, <3>2 DEF TookGseq
  <2> QED
      BY <2>1, <2>2 DEF GseqInv
<1>7. ASSUME NEW w \in Writers, NEW ok \in SUBSET Anchors, Mirror(w, ok)
      PROVE GseqInv'
  <2>1. /\ gseq' = gseq
        /\ TookGseq(w)
        /\ ~TookGseq(w)'
        /\ \A v \in Writers \ {w} : call'[v] = call[v]
      BY <1>7 DEF Mirror, TypeOK, TookGseq, Idle, redis
  <2>2. \A v \in Writers : TookGseq(v)' => v # w /\ TookGseq(v)
      BY <2>1 DEF TookGseq
  <2>3. \A a \in Anchors : \A r \in rows'[a] :
            r \in rows[a] \/ r.seq = call[w].gseq
      BY <1>7 DEF Mirror, AnchorAppend
  <2> QED
      BY <1>0, <2>1, <2>2, <2>3 DEF GseqInv
<1>8. ASSUME NEW w \in Writers, Interrupt(w) PROVE GseqInv'
    BY <1>0, <1>8 DEF Interrupt, TypeOK, GseqInv, TookGseq, Idle, redis
<1>9. CASE NextDay
    BY <1>9 DEF NextDay, GseqInv, TookGseq, redis
<1>10. ASSUME NEW d \in Days, Expire(d) PROVE GseqInv'
    BY <1>10 DEF Expire, GseqInv, TookGseq
<1>11. CASE UNCHANGED vars
    BY <1>11 DEF vars, redis, GseqInv, TookGseq
<1> QED
    BY <1>1, <1>2, <1>3, <1>4, <1>5, <1>6, <1>7, <1>8, <1>9, <1>10, <1>11
    DEF Next, Step

\* However many calls overlap, are cut short or miss an anchor, no record
\* is ever refused for a sequence number that is taken.
THEOREM RowsAccepted == Spec => []NoRowRefused
<1>1. Init => GseqInv
    BY DEF Init, GseqInv, TookGseq, Idle
<1>2. GseqInv => NoRowRefused
    BY DEF GseqInv, NoRowRefused, TookGseq
<1> QED
    BY <1>1, <1>2, TypeCorrect, GseqInductive, PTL DEF Spec

-----------------------------------------------------------------------------
(* The chain.                                                              *)

\* One call at a time in the window, holding the tip it has read.
TurnInv ==
    "overlap" \notin incidents =>
        /\ \A v, w \in Writers : InWindow(v) /\ InWindow(w) => v = w
        /\ \A w \in Writers :
              InWindow(w) /\ call[w].pc # "tip" => call[w].prev = tip

\* The tip is the last entry that was chained.
ChainInv ==
    /\ TurnInv
    /\ tip = LastHash(Genesis, history)
    /\ "overlap" \notin incidents => Linked(Genesis, history)

\* Appending an entry that links to the last one keeps a chain linked and
\* makes the entry its last.
LEMMA LinkedAppend ==
    ASSUME NEW T, NEW log \in Seq(T), NEW e \in T, NEW start
    PROVE  /\ LastHash(start, Append(log, e)) = e.hash
           /\ Linked(start, log) /\ e.prev = LastHash(start, log)
                 => Linked(start, Append(log, e))
<1> DEFINE longer == Append(log, e)
<1>1. /\ longer # <<>>
      /\ Len(longer) = Len(log) + 1
      /\ longer[Len(longer)] = e
      /\ \A i \in 1..Len(log) : longer[i] = log[i]
    OBVIOUS
<1>2. LastHash(start, longer) = e.hash
    BY <1>1 DEF LastHash
<1>3. ASSUME Linked(start, log), e.prev = LastHash(start, log),
             NEW i \in 1..Len(longer)
      PROVE  longer[i].prev = IF i = 1 THEN start ELSE longer[i - 1].hash
  <2>1. CASE i \in 1..Len(log)
    <3>1. i # 1 => i - 1 \in 1..Len(log)
        BY <2>1
    <3> QED
        BY <1>1, <1>3, <2>1, <3>1 DEF Linked
  <2>2. CASE i = Len(log) + 1
    <3>1. CASE log = <<>>
        BY <1>1, <1>3, <2>2, <3>1 DEF LastHash
    <3>2. CASE log # <<>>
      <4>1. Len(log) \in 1..Len(log) /\ i # 1
          BY <2>2, <3>2
      <4> QED
          BY <1>1, <1>3, <2>2, <3>2, <4>1 DEF LastHash
    <3> QED
        BY <3>1, <3>2
  <2> QED
      BY <1>1, <1>3, <2>1, <2>2
<1> QED
    BY <1>2, <1>3 DEF Linked

\* A step that does not write the tip keeps TurnInv if no other call enters
\* the window and no call forgets the tip it has read.
LEMMA TurnFrame ==
    ASSUME TurnInv, tip' = tip, incidents \subseteq incidents',
           \A w \in Writers : InWindow(w)' => InWindow(w),
           \A w \in Writers : InWindow(w)' /\ call'[w].pc # "tip" =>
               \/ call[w].pc # "tip" /\ call'[w].prev = call[w].prev
               \/ call'[w].prev = tip
    PROVE  TurnInv'
    BY DEF TurnInv

LEMMA TurnInductive == TypeOK /\ TurnInv /\ [Next]_vars => TurnInv'
<1> SUFFICES ASSUME TypeOK, TurnInv, [Next]_vars PROVE TurnInv'
    OBVIOUS
<1>1. ASSUME NEW w \in Writers, Start(w) PROVE TurnInv'
  <2>1. /\ tip' = tip
        /\ \A v \in Writers \ {w} : call'[v] = call[v]
        /\ call'[w].pc = "tip" /\ ~InWindow(w)
        /\ "overlap" \notin incidents' =>
              "overlap" \notin incidents /\ \A v \in Writers : ~InWindow(v)
      BY <1>1 DEF Start, TypeOK, InWindow, Window, Idle, redis
  <2> QED
      BY <2>1 DEF TurnInv, InWindow
<1>2. ASSUME NEW w \in Writers, ReadTip(w) PROVE TurnInv'
    BY <1>2, TurnFrame
    DEF ReadTip, TypeOK, InWindow, Window, redis, ghosts
<1>3. ASSUME NEW w \in Writers, IncrGseq(w) PROVE TurnInv'
    BY <1>3, TurnFrame DEF IncrGseq, TypeOK, InWindow, Window, ghosts
<1>4. ASSUME NEW w \in Writers, IncrSeq(w) PROVE TurnInv'
    BY <1>4, TurnFrame DEF IncrSeq, TypeOK, InWindow, Window, ghosts
<1>5. ASSUME NEW w \in Writers, ReadGenesis(w) PROVE TurnInv'
    BY <1>5, TurnFrame
    DEF ReadGenesis, TypeOK, InWindow, Window, redis, ghosts
<1>6. ASSUME NEW w \in Writers, Exec(w) PROVE TurnInv'
  <2>1. /\ InWindow(w) /\ incidents' = incidents /\ ~InWindow(w)'
        /\ \A v \in Writers \ {w} : call'[v] = call[v]
      BY <1>6 DEF Exec, TypeOK, InWindow, Window
  <2>2. "overlap" \notin incidents => \A v \in Writers : ~InWindow(v)'
      BY <2>1 DEF TurnInv, InWindow
  <2> QED
      BY <2>1, <2>2 DEF TurnInv
<1>7. ASSUME NEW w \in Writers, NEW ok \in SUBSET Anchors, Mirror(w, ok)
      PROVE TurnInv'
    BY <1>7, TurnFrame DEF Mirror, TypeOK, InWindow, Window, Idle, redis
<1>8. ASSUME NEW w \in Writers, Interrupt(w) PROVE TurnInv'
    BY <1>8, TurnFrame DEF Interrupt, TypeOK, InWindow, Window, Idle, redis
<1>9. CASE NextDay
    BY <1>9, TurnFrame DEF NextDay, InWindow, redis, ghosts
<1>10. ASSUME NEW d \in Days, Expire(d) PROVE TurnInv'
    BY <1>10, TurnFrame DEF Expire, InWindow, ghosts
<1>11. CASE UNCHANGED vars
    BY <1>11, TurnFrame DEF vars, redis, ghosts, InWindow
<1> QED
    BY <1>1, <1>2, <1>3, <1>4, <1>5, <1>6, <1>7, <1>8, <1>9, <1>10, <1>11
    DEF Next, Step

\* Only a pipeline moves the tip or the history, and no incident is forgotten.
LEMMA ChainSteps ==
    ASSUME [Next]_vars
    PROVE  /\ incidents \subseteq incidents'
           /\ \/ \E w \in Writers : Exec(w)
              \/ tip' = tip /\ history' = history
    BY DEF Next, Step, Start, ReadTip, IncrGseq, IncrSeq, ReadGenesis, Exec, Mirror,
           Interrupt, NextDay, Expire, vars, redis, ghosts, dayKeys

LEMMA ChainInductive == TypeOK /\ ChainInv /\ [Next]_vars => ChainInv'
<1> SUFFICES ASSUME TypeOK, ChainInv, [Next]_vars PROVE ChainInv'
    OBVIOUS
<1>1. TurnInv'
    BY TurnInductive DEF ChainInv
<1>2. CASE tip' = tip /\ history' = history
    BY <1>1, <1>2, ChainSteps DEF ChainInv
<1>3. ASSUME NEW w \in Writers, Exec(w) PROVE ChainInv'
  <2> DEFINE c == call[w]
             e == [hash |-> c.id, prev |-> c.prev, gseq |-> c.gseq,
                   day |-> c.day]
  <2>1. /\ InWindow(w) /\ c.pc # "tip"
        /\ tip' = c.id
        /\ history' = Append(history, e)
        /\ incidents' = incidents
      BY <1>3 DEF Exec, InWindow, Window
  <2>2. history \in Seq(Logged) /\ e \in Logged
      BY DEF TypeOK, Call, Logged
  <2>3. e.hash = c.id /\ e.prev = c.prev
      OBVIOUS
  <2> HIDE DEF e
  <2>4. tip' = LastHash(Genesis, history')
      BY <2>1, <2>2, <2>3, LinkedAppend
  <2>5. ASSUME "overlap" \notin incidents
        PROVE  Linked(Genesis, history')
    <3>1. Linked(Genesis, history) /\ e.prev = LastHash(Genesis, history)
        BY <2>1, <2>3, <2>5 DEF ChainInv, TurnInv
    <3> QED
        BY <2>1, <2>2, <3>1, LinkedAppend
  <2> QED
      BY <1>1, <2>1, <2>4, <2>5 DEF ChainInv
<1> QED
    BY <1>2, <1>3, ChainSteps

\* While calls take turns the entries form one chain, whatever is cut short.
THEOREM TurnsKeepOneChain == Spec => []OneChain
<1>1. Init => ChainInv
    BY DEF Init, ChainInv, TurnInv, LastHash, Linked, InWindow, Window, Idle
<1>2. ChainInv => OneChain
    BY DEF ChainInv, OneChain
<1> QED
    BY <1>1, <1>2, TypeCorrect, ChainInductive, PTL DEF Spec

-----------------------------------------------------------------------------
(* The days.                                                               *)

Clean == incidents \cap {"overlap", "gapSeq"} = {}
TookSeq(w) == call[w].pc \in {"genesis", "exec"}

\* No day is written ahead of time, a day has a genesis once it has an
\* entry, and a call that found one will still find it.
CalendarInv ==
    /\ \A d \in Days : d > today => dayLog[d] = <<>>
    /\ \A w \in Writers : InWindow(w) => call[w].day <= today
    /\ \A d \in Days : dayGenesis[d] = Absent <=> dayLog[d] = <<>>
    /\ \A w \in Writers : call[w].pc = "exec" /\ ~call[w].first =>
          dayGenesis[call[w].day] # Absent

\* While calls take turns: a call in the window is at the latest day that
\* has entries; the day that can be written next ends in the tip; the day's
\* counter counts its list and the call that has bumped it; and the days
\* verify.
DayInv ==
    Clean =>
      /\ \A w \in Writers, d \in Days :
            InWindow(w) /\ d > call[w].day => dayLog[d] = <<>>
      /\ \A d \in Days :
            /\ dayLog[d] # <<>>
            /\ d = today \/ \E w \in Writers : InWindow(w) /\ call[w].day = d
            => dayLog[d][Len(dayLog[d])].hash = tip
      /\ \A w \in Writers : TookSeq(w) =>
            /\ call[w].seq = Len(dayLog[call[w].day]) + 1
            /\ daySeq[call[w].day] = Len(dayLog[call[w].day]) + 1
      /\ \A d \in Days :
            (\A w \in Writers : TookSeq(w) => call[w].day # d)
                => daySeq[d] = Len(dayLog[d])
      /\ \A w \in Writers : call[w].pc = "exec" =>
            (call[w].first <=> dayGenesis[call[w].day] = Absent)
      /\ \A d \in Days : DayVerifies(d)

LEMMA FirstField ==
    ASSUME NEW c \in Call, NEW b \in BOOLEAN, NEW p \in Stages
    PROVE  LET e == [c EXCEPT !.first = b, !.pc = p]
           IN  /\ e.first = b /\ e.pc = p /\ e.day = c.day
               /\ e.seq = c.seq /\ e.prev = c.prev
    BY Zenon DEF Call

LEMMA ReadGenesisEffect ==
    ASSUME TypeOK, NEW w \in Writers, ReadGenesis(w)
    PROVE  /\ call'[w].pc = "exec"
           /\ call'[w].first <=> dayGenesis[call[w].day] = Absent
           /\ call'[w].day = call[w].day
           /\ call'[w].seq = call[w].seq
           /\ \A v \in Writers \ {w} : call'[v] = call[v]
<1> DEFINE b == dayGenesis[call[w].day] = Absent
           c == [call[w] EXCEPT !.first = b, !.pc = "exec"]
<1>1. call' = [call EXCEPT ![w] = c]
    BY DEF ReadGenesis
<1>2. /\ c.first = b /\ c.pc = "exec" /\ c.day = call[w].day
      /\ c.seq = call[w].seq
  <2>1. call[w] \in Call /\ b \in BOOLEAN /\ "exec" \in Stages
      BY DEF TypeOK, Stages, Window
  <2> HIDE DEF b
  <2> QED
      BY <2>1, FirstField
<1> HIDE DEF c
<1> QED
    BY <1>1, <1>2 DEF TypeOK

LEMMA CalendarInductive ==
    TypeOK /\ CalendarInv /\ [Next]_vars => CalendarInv'
<1> SUFFICES ASSUME TypeOK, CalendarInv, [Next]_vars PROVE CalendarInv'
    OBVIOUS
<1>0. /\ today \in Int
      /\ \A d \in Days : d \in Int
      /\ \A w \in Writers : call[w].day \in Days /\ call[w].prev \in Nat
    BY DEF TypeOK, Call, Days
<1>1. ASSUME NEW w \in Writers, Start(w) PROVE CalendarInv'
    BY <1>0, <1>1 DEF Start, TypeOK, CalendarInv, InWindow, Window, Idle, redis
<1>2. ASSUME NEW w \in Writers, ReadTip(w) PROVE CalendarInv'
    BY <1>2 DEF ReadTip, TypeOK, CalendarInv, InWindow, Window, redis
<1>3. ASSUME NEW w \in Writers, IncrGseq(w) PROVE CalendarInv'
    BY <1>3 DEF IncrGseq, TypeOK, CalendarInv, InWindow, Window, dayKeys
<1>4. ASSUME NEW w \in Writers, IncrSeq(w) PROVE CalendarInv'
    BY <1>4 DEF IncrSeq, TypeOK, CalendarInv, InWindow, Window
<1>5. ASSUME NEW w \in Writers, ReadGenesis(w) PROVE CalendarInv'
  <2>1. /\ InWindow(w)
        /\ today' = today /\ dayLog' = dayLog /\ dayGenesis' = dayGenesis
      BY <1>5 DEF ReadGenesis, InWindow, Window, redis
  <2>2. \A v \in Writers : InWindow(v)' => InWindow(v)
      BY <1>5, <2>1, ReadGenesisEffect DEF InWindow
  <2> QED
      BY <1>5, <2>1, <2>2, ReadGenesisEffect DEF CalendarInv
<1>6. ASSUME NEW w \in Writers, Exec(w) PROVE CalendarInv'
  <2> DEFINE d0 == call[w].day
  <2>0. LET e == [hash |-> call[w].id, prev |-> call[w].prev]
        IN  dayLog' = [dayLog EXCEPT ![d0] = Append(@, e)] /\ e \in Entry
      BY <1>6 DEF Exec, TypeOK, Call, Entry
  <2>8. Append(dayLog[d0], [hash |-> call[w].id, prev |-> call[w].prev])
            # <<>>
      BY <1>0, <2>0 DEF TypeOK
  <2>9. /\ dayLog'[d0] # <<>>
        /\ \A d \in Days \ {d0} : dayLog'[d] = dayLog[d]
      BY <1>0, <2>0, <2>8 DEF TypeOK
  <2>1. /\ today' = today
        /\ call[w].pc = "exec" /\ InWindow(w)
        /\ \A d \in Days \ {d0} : dayGenesis'[d] = dayGenesis[d]
        /\ dayGenesis'[d0] = IF call[w].first THEN call[w].prev
                             ELSE dayGenesis[d0]
        /\ call'[w].pc = "mirror"
        /\ \A v \in Writers \ {w} : call'[v] = call[v]
      BY <1>0, <1>6 DEF Exec, TypeOK, InWindow, Window
  <2>2. dayGenesis'[d0] # Absent
      BY <1>0, <2>1, AbsentAssumption DEF CalendarInv
  <2>3. d0 \in Days /\ d0 <= today
      BY <1>0, <2>1 DEF CalendarInv
  <2>4. \A v \in Writers : InWindow(v)' => InWindow(v) /\ call'[v] = call[v]
      BY <2>1 DEF InWindow, Window
  <2>5. \A d \in Days : d > today => dayLog'[d] = <<>>
      BY <1>0, <2>1, <2>9, <2>3 DEF CalendarInv
  <2>6. \A d \in Days : dayGenesis'[d] = Absent <=> dayLog'[d] = <<>>
      BY <2>1, <2>9, <2>2, <2>3 DEF CalendarInv
  <2>7. \A v \in Writers : call'[v].pc = "exec" /\ ~call'[v].first =>
            dayGenesis'[call'[v].day] # Absent
      BY <1>0, <2>1, <2>2 DEF CalendarInv
  <2> QED
      BY <2>1, <2>4, <2>5, <2>6, <2>7 DEF CalendarInv
<1>7. ASSUME NEW w \in Writers, NEW ok \in SUBSET Anchors, Mirror(w, ok)
      PROVE CalendarInv'
    BY <1>7 DEF Mirror, TypeOK, CalendarInv, InWindow, Window, Idle, redis
<1>8. ASSUME NEW w \in Writers, Interrupt(w) PROVE CalendarInv'
    BY <1>8 DEF Interrupt, TypeOK, CalendarInv, InWindow, Window, Idle, redis
<1>9. CASE NextDay
    BY <1>0, <1>9 DEF NextDay, CalendarInv, InWindow, redis
<1>10. ASSUME NEW d \in Days, Expire(d) PROVE CalendarInv'
    BY <1>0, <1>10 DEF Expire, TypeOK, CalendarInv, InWindow, Window
<1>11. CASE UNCHANGED vars
    BY <1>11 DEF vars, redis, CalendarInv, InWindow
<1> QED
    BY <1>1, <1>2, <1>3, <1>4, <1>5, <1>6, <1>7, <1>8, <1>9, <1>10, <1>11
    DEF Next, Step

\* A step that writes no key of a day keeps DayInv if no call enters the
\* window or bumps a day's counter, a call that has bumped it leaves only
\* with an incident, and what a call learns of the genesis is true.
LEMMA DayFrame ==
    ASSUME DayInv, today' = today, tip' = tip, dayLog' = dayLog,
           daySeq' = daySeq, dayMark' = dayMark, dayGenesis' = dayGenesis,
           incidents \subseteq incidents',
           \A w \in Writers : InWindow(w)' =>
               InWindow(w) /\ call'[w].day = call[w].day,
           \A w \in Writers : TookSeq(w)' =>
               TookSeq(w) /\ call'[w].seq = call[w].seq
                          /\ call'[w].day = call[w].day,
           Clean' => \A w \in Writers : TookSeq(w) =>
               TookSeq(w)' /\ call'[w].day = call[w].day,
           \A w \in Writers : call'[w].pc = "exec" =>
               \/ /\ call[w].pc = "exec"
                  /\ call'[w].first = call[w].first
                  /\ call'[w].day = call[w].day
               \/ call'[w].first <=> dayGenesis[call'[w].day] = Absent
    PROVE  DayInv'
<1> SUFFICES ASSUME Clean' PROVE DayInv'
    BY DEF DayInv
<1>1. Clean
    BY DEF Clean
<1>2. \A d \in Days : DayVerifies(d)'
    BY <1>1 DEF DayInv, DayVerifies, VerifyDay, Linked, LastHash, DayStart
<1> QED
    BY <1>1, <1>2 DEF DayInv

\* The pipeline, when calls take turns: it links to the tail of its day, or
\* opens the day with the tip as genesis.
LEMMA DayExec ==
    ASSUME TypeOK, TurnInv, CalendarInv, DayInv, Clean,
           NEW w \in Writers, Exec(w)
    PROVE  DayInv'
<1> DEFINE c == call[w]
           d0 == call[w].day
           e == [hash |-> c.id, prev |-> c.prev]
<1>1. /\ d0 \in Days /\ c.id \in Nat /\ c.prev \in Nat /\ c.seq \in Nat
      /\ today \in Int /\ \A d \in Days : d \in Int
    BY DEF TypeOK, Call, Days
<1>2. /\ e \in Entry /\ e.hash = c.id /\ e.prev = c.prev
      /\ dayLog[d0] \in Seq(Entry)
    BY <1>1 DEF Entry, TypeOK
<1>3. /\ c.pc = "exec" /\ InWindow(w) /\ TookSeq(w)
      /\ today' = today /\ tip' = c.id /\ daySeq' = daySeq
      /\ incidents' = incidents
      /\ call'[w].pc = "mirror"
      /\ \A v \in Writers \ {w} : call'[v] = call[v]
    BY DEF Exec, TypeOK, InWindow, Window, TookSeq
<1>4. /\ dayLog' = [dayLog EXCEPT ![d0] = Append(@, e)]
      /\ dayMark' = [dayMark EXCEPT ![d0] = [seq |-> c.seq, hash |-> c.id]]
      /\ dayGenesis' = IF c.first THEN [dayGenesis EXCEPT ![d0] = c.prev]
                       ELSE dayGenesis
    BY DEF Exec
<1> HIDE DEF e
<1>5. /\ dayLog'[d0] = Append(dayLog[d0], e)
      /\ dayMark'[d0] = [seq |-> c.seq, hash |-> c.id]
      /\ dayGenesis'[d0] = IF c.first THEN c.prev ELSE dayGenesis[d0]
      /\ \A d \in Days \ {d0} : /\ dayLog'[d] = dayLog[d]
                                /\ dayMark'[d] = dayMark[d]
                                /\ dayGenesis'[d] = dayGenesis[d]
    BY <1>1, <1>4 DEF TypeOK
<1>6. /\ dayLog'[d0] # <<>>
      /\ Len(dayLog'[d0]) = Len(dayLog[d0]) + 1
      /\ dayLog'[d0][Len(dayLog'[d0])] = e
    BY <1>2, <1>5
<1>7. /\ \A v \in Writers : InWindow(v) => v = w
      /\ c.prev = tip
    BY <1>3 DEF TurnInv, Clean
<1>8. \A v \in Writers : ~InWindow(v)' /\ ~TookSeq(v)' /\ call'[v].pc # "exec"
    BY <1>3, <1>7 DEF InWindow, Window, TookSeq
<1>9. ASSUME NEW d \in Days, dayLog'[d] # <<>>,
             d = today' \/ \E v \in Writers : InWindow(v)' /\ call'[v].day = d
      PROVE  dayLog'[d][Len(dayLog'[d])].hash = tip'
  <2>1. d = today /\ d0 <= today
      BY <1>3, <1>8, <1>9 DEF CalendarInv
  <2>2. CASE d = d0
      BY <1>2, <1>3, <1>6, <2>2
  <2>3. CASE d # d0
    <3>1. d > d0
      <4>1. d \in Int /\ d0 \in Int
          BY <1>1
      <4> QED
          BY <2>1, <2>3, <4>1
    <3>2. dayLog[d] = <<>>
        BY <1>3, <3>1 DEF DayInv
    <3> QED
        BY <1>5, <1>9, <2>3, <3>2
  <2> QED
      BY <2>2, <2>3
<1>10. ASSUME NEW d \in Days PROVE daySeq'[d] = Len(dayLog'[d])
  <2>1. CASE d = d0
      BY <1>3, <1>6, <2>1 DEF DayInv
  <2>2. CASE d # d0
    <3>1. \A v \in Writers : TookSeq(v) => call[v].day # d
        BY <1>7, <2>2 DEF TookSeq, InWindow, Window
    <3> QED
        BY <1>3, <1>5, <2>2, <3>1 DEF DayInv
  <2> QED
      BY <2>1, <2>2
<1>11. ASSUME NEW d \in Days, d = d0 PROVE DayVerifies(d)'
  <2> DEFINE start == DayStart(dayGenesis'[d0])
  <2>1. Linked(start, dayLog[d0]) /\ c.prev = LastHash(start, dayLog[d0])
    <3>1. CASE c.first
      <4>1. dayLog[d0] = <<>>
          BY <1>1, <1>3, <3>1 DEF DayInv, CalendarInv
      <4>2. start = c.prev
          BY <1>1, <1>5, <3>1, AbsentAssumption DEF DayStart
      <4> HIDE DEF start
      <4> QED
          BY <4>1, <4>2 DEF Linked, LastHash
    <3>2. CASE ~c.first
      <4>1. dayGenesis[d0] # Absent /\ dayLog[d0] # <<>>
          BY <1>1, <1>3, <3>2 DEF DayInv, CalendarInv
      <4>2. start = DayStart(dayGenesis[d0])
          BY <1>5, <3>2
      <4>3. Linked(start, dayLog[d0])
          BY <1>1, <4>2 DEF DayInv, DayVerifies, VerifyDay
      <4>4. dayLog[d0][Len(dayLog[d0])].hash = tip
          BY <1>1, <1>3, <4>1 DEF DayInv
      <4> QED
          BY <1>7, <4>1, <4>3, <4>4 DEF LastHash
    <3> QED
        BY <3>1, <3>2
  <2>2. /\ LastHash(start, dayLog'[d0]) = c.id
        /\ Linked(start, dayLog'[d0])
      BY <1>2, <1>5, <2>1, LinkedAppend
  <2>3. dayMark'[d0].seq = Len(dayLog'[d0]) /\ dayMark'[d0].hash = c.id
      BY <1>3, <1>5, <1>6 DEF DayInv
  <2> QED
      BY <1>11, <2>2, <2>3 DEF DayVerifies, VerifyDay
<1>12. ASSUME NEW d \in Days, d # d0 PROVE DayVerifies(d)'
    BY <1>5, <1>12 DEF DayInv, DayVerifies, VerifyDay
<1> QED
    BY <1>8, <1>9, <1>10, <1>11, <1>12 DEF DayInv

LEMMA DayInductive ==
    TypeOK /\ TurnInv /\ CalendarInv /\ DayInv /\ [Next]_vars => DayInv'
<1> SUFFICES ASSUME TypeOK, TurnInv, CalendarInv, DayInv, [Next]_vars
             PROVE  DayInv'
    OBVIOUS
<1>0. /\ today \in Int /\ \A d \in Days : d \in Int
      /\ \A w \in Writers : call[w].day \in Days
    BY DEF TypeOK, Call, Days
<1>1. ASSUME NEW w \in Writers, Start(w), Clean' PROVE DayInv'
  <2>1. Clean /\ \A v \in Writers : ~InWindow(v)
      BY <1>1 DEF Start, Clean
  <2>2. /\ today' = today /\ tip' = tip /\ dayLog' = dayLog
        /\ daySeq' = daySeq /\ dayMark' = dayMark /\ dayGenesis' = dayGenesis
        /\ call'[w].pc = "tip" /\ call'[w].day = today
        /\ \A v \in Writers \ {w} : call'[v] = call[v]
      BY <1>1 DEF Start, TypeOK, Idle, redis
  <2>3. \A v \in Writers : /\ InWindow(v)' => v = w
                           /\ ~TookSeq(v)' /\ ~TookSeq(v)
                           /\ call'[v].pc # "exec"
      BY <2>1, <2>2 DEF InWindow, Window, TookSeq
  <2>4. \A d \in Days : DayVerifies(d)'
      BY <2>1, <2>2
      DEF DayInv, DayVerifies, VerifyDay, Linked, LastHash, DayStart
  <2> QED
      BY <1>0, <2>1, <2>2, <2>3, <2>4 DEF DayInv, CalendarInv
<1>2. ASSUME NEW w \in Writers, ReadTip(w) PROVE DayInv'
    BY <1>2, DayFrame
    DEF ReadTip, TypeOK, InWindow, Window, TookSeq, redis, ghosts
<1>3. ASSUME NEW w \in Writers, IncrGseq(w) PROVE DayInv'
    BY <1>3, DayFrame
    DEF IncrGseq, TypeOK, InWindow, Window, TookSeq, dayKeys, ghosts
<1>4. ASSUME NEW w \in Writers, IncrSeq(w), Clean' PROVE DayInv'
  <2>1. /\ incidents' = incidents /\ InWindow(w) /\ call[w].pc = "seq"
        /\ today' = today /\ tip' = tip /\ dayLog' = dayLog
        /\ dayMark' = dayMark /\ dayGenesis' = dayGenesis
        /\ \A d \in Days \ {call[w].day} : daySeq'[d] = daySeq[d]
        /\ daySeq'[call[w].day] = daySeq[call[w].day] + 1
        /\ call'[w].pc = "genesis" /\ call'[w].day = call[w].day
        /\ call'[w].seq = daySeq[call[w].day] + 1
        /\ \A v \in Writers \ {w} : call'[v] = call[v]
      BY <1>0, <1>4 DEF IncrSeq, TypeOK, InWindow, Window, ghosts
  <2>2. Clean /\ \A v \in Writers : InWindow(v) => v = w
      BY <1>4, <2>1 DEF Clean, TurnInv
  <2>3. \A v \in Writers : /\ ~TookSeq(v)
                           /\ InWindow(v)' => v = w
                           /\ TookSeq(v)' <=> v = w
                           /\ call'[v].pc # "exec"
      BY <2>1, <2>2 DEF TookSeq, InWindow, Window
  <2>4. \A d \in Days : daySeq[d] = Len(dayLog[d])
      BY <2>2, <2>3 DEF DayInv
  <2>5. \A d \in Days : DayVerifies(d)'
      BY <2>1, <2>2
      DEF DayInv, DayVerifies, VerifyDay, Linked, LastHash, DayStart
  <2>6. \A v \in Writers, d \in Days : InWindow(v)' /\ d > call'[v].day => dayLog'[d] = <<>>
      BY <2>1, <2>2, <2>3 DEF DayInv
  <2>7. \A d \in Days :
            dayLog'[d] # <<>> /\ (d = today' \/ \E v \in Writers : InWindow(v)' /\ call'[v].day = d)
            => dayLog'[d][Len(dayLog'[d])].hash = tip'
      BY <2>1, <2>2, <2>3 DEF DayInv
  <2>8. \A v \in Writers : TookSeq(v)' =>
            /\ call'[v].seq = Len(dayLog'[call'[v].day]) + 1
            /\ daySeq'[call'[v].day] = Len(dayLog'[call'[v].day]) + 1
    <3>1. call[w].day \in Days
        BY <1>0
    <3>2. daySeq[call[w].day] = Len(dayLog[call[w].day])
        BY <2>4, <3>1
    <3> QED
        BY <2>1, <2>3, <3>2
  <2>9. \A d \in Days :
            (\A v \in Writers : TookSeq(v)' => call'[v].day # d) => daySeq'[d] = Len(dayLog'[d])
      BY <2>1, <2>3, <2>4
  <2> QED
      BY <2>3, <2>5, <2>6, <2>7, <2>8, <2>9 DEF DayInv
<1>5. ASSUME NEW w \in Writers, ReadGenesis(w) PROVE DayInv'
  <2>1. /\ today' = today /\ tip' = tip /\ dayLog' = dayLog
        /\ daySeq' = daySeq /\ dayMark' = dayMark /\ dayGenesis' = dayGenesis
        /\ incidents' = incidents
        /\ call[w].pc = "genesis"
      BY <1>5 DEF ReadGenesis, redis, ghosts
  <2>2. /\ InWindow(w) /\ TookSeq(w) /\ InWindow(w)' /\ TookSeq(w)'
        /\ \A v \in Writers \ {w} : call'[v] = call[v]
      BY <1>5, <2>1, ReadGenesisEffect DEF InWindow, Window, TookSeq
  <2> QED
      BY <1>5, <2>1, <2>2, ReadGenesisEffect, DayFrame DEF InWindow, TookSeq
<1>6. ASSUME NEW w \in Writers, Exec(w), Clean' PROVE DayInv'
  <2>1. Clean
      BY <1>6 DEF Exec, Clean
  <2> QED
      BY <1>6, <2>1, DayExec
<1>7. ASSUME NEW w \in Writers, NEW ok \in SUBSET Anchors, Mirror(w, ok)
      PROVE DayInv'
    BY <1>7, DayFrame
    DEF Mirror, TypeOK, InWindow, Window, TookSeq, Idle, redis
<1>8. ASSUME NEW w \in Writers, Interrupt(w) PROVE DayInv'
    BY <1>8, DayFrame
    DEF Interrupt, TypeOK, InWindow, Window, TookSeq, Clean, Idle, redis
<1>9. CASE NextDay
  <2>1. /\ today' = today + 1 /\ tip' = tip /\ dayLog' = dayLog
        /\ daySeq' = daySeq /\ dayMark' = dayMark /\ dayGenesis' = dayGenesis
        /\ call' = call /\ incidents' = incidents
      BY <1>9 DEF NextDay, redis, ghosts
  <2>2. \A d \in Days : d = today' => dayLog'[d] = <<>>
      BY <1>0, <2>1 DEF CalendarInv
  <2>3. Clean' => \A d \in Days : DayVerifies(d)'
      BY <2>1
      DEF DayInv, Clean, DayVerifies, VerifyDay, Linked, LastHash, DayStart
  <2> QED
      BY <2>1, <2>2, <2>3 DEF DayInv, Clean, InWindow, TookSeq
<1>10. ASSUME NEW d \in Days, Expire(d), Clean' PROVE DayInv'
  <2>1. /\ today' = today /\ tip' = tip /\ call' = call
        /\ incidents' = incidents
        /\ dayLog'[d] = <<>> /\ daySeq'[d] = 0
        /\ dayMark'[d] = Absent /\ dayGenesis'[d] = Absent
        /\ \A o \in Days \ {d} :
              /\ dayLog'[o] = dayLog[o] /\ daySeq'[o] = daySeq[o]
              /\ dayMark'[o] = dayMark[o] /\ dayGenesis'[o] = dayGenesis[o]
        /\ \A w \in Writers : InWindow(w) => call[w].day # d
      BY <1>10 DEF Expire, TypeOK, ghosts
  <2>2. Clean
      BY <1>10, <2>1 DEF Clean
  <2>3. \A w \in Writers :
            TookSeq(w) \/ call[w].pc = "exec" => InWindow(w)
      BY DEF InWindow, TookSeq, Window
  <2>4. ASSUME NEW o \in Days PROVE DayVerifies(o)'
    <3>1. CASE o = d
        BY <2>1, <3>1 DEF DayVerifies, VerifyDay, Linked
    <3>2. CASE o # d
        BY <2>1, <2>2, <3>2 DEF DayInv, DayVerifies, VerifyDay
    <3> QED
        BY <3>1, <3>2
  <2>5. Len(dayLog'[d]) = 0
      BY <2>1
  <2> QED
      BY <1>0, <2>1, <2>2, <2>3, <2>4, <2>5 DEF DayInv, InWindow, TookSeq
<1>11. CASE UNCHANGED vars
    BY <1>11, DayFrame DEF vars, redis, ghosts, InWindow, TookSeq
<1>12. ~Clean' => DayInv'
    BY DEF DayInv
<1> QED
    BY <1>1, <1>2, <1>3, <1>4, <1>5, <1>6, <1>7, <1>8, <1>9, <1>10, <1>11,
       <1>12
    DEF Next, Step

\* Every day of the log verifies as long as calls take turns and none is cut
\* short past its day counter: across midnights, expiries, lost anchor
\* writes and every other interruption.
THEOREM TurnsKeepDays == Spec => []DaysVerify
<1>1. Init => TurnInv /\ CalendarInv /\ DayInv
  <2> SUFFICES ASSUME Init PROVE TurnInv /\ CalendarInv /\ DayInv
      OBVIOUS
  <2>1. \A w \in Writers : ~InWindow(w) /\ ~TookSeq(w) /\ call[w].pc # "exec"
      BY DEF Init, InWindow, Window, TookSeq, Idle
  <2>2. \A d \in Days : DayVerifies(d)
      BY DEF Init, DayVerifies, VerifyDay, Linked
  <2>3. CalendarInv
      BY <2>1 DEF Init, CalendarInv
  <2>4. DayInv
      BY <2>1, <2>2 DEF Init, DayInv
  <2>5. TurnInv
      BY <2>1 DEF Init, TurnInv
  <2> QED
      BY <2>3, <2>4, <2>5
<1>2. DayInv => DaysVerify
    BY DEF DayInv, Clean, DaysVerify
<1> QED
    BY <1>1, <1>2, TypeCorrect, TurnInductive, CalendarInductive,
       DayInductive, PTL DEF Spec

-----------------------------------------------------------------------------
(* The anchors.                                                            *)

NoGap == incidents \cap {"overlap", "gapGseq"} = {}
Numbered(w) == call[w].pc \in {"seq", "genesis", "exec"}

\* The n-th pipeline wrote an entry with this hash and this link.
Recorded(n, hash, prev) ==
    /\ n \in 1..Len(history)
    /\ history[n].hash = hash
    /\ history[n].prev = prev

\* While calls take turns, gseq counts the history and the call that has
\* bumped it; so the seq of a record is the place of its entry, and what an
\* anchor that missed nothing does not hold yet is on its way.
AnchorInv ==
    NoGap =>
      /\ \A w \in Writers : Numbered(w) =>
            call[w].gseq = Len(history) + 1 /\ gseq = Len(history) + 1
      /\ (\A w \in Writers : ~Numbered(w)) => gseq = Len(history)
      /\ \A w \in Writers : call[w].pc = "mirror" =>
            Recorded(call[w].gseq, call[w].id, call[w].prev)
      /\ \A a \in Anchors : \A r \in rows[a] : Recorded(r.seq, r.hash, r.prev)
      /\ \A a \in Anchors \ missing, i \in 1..Len(history) :
            \/ \E r \in rows[a] : r.seq = i
            \/ \E w \in Writers : call[w].pc = "mirror" /\ call[w].gseq = i

\* A step that touches neither the history, the numbers nor the records keeps
\* AnchorInv if no call takes, drops or mirrors a number.
LEMMA AnchorFrame ==
    ASSUME AnchorInv, history' = history, gseq' = gseq, rows' = rows,
           missing' = missing, NoGap' => NoGap,
           NoGap' => \A v \in Writers :
               /\ Numbered(v)' <=> Numbered(v)
               /\ Numbered(v) => call'[v].gseq = call[v].gseq,
           \A v \in Writers :
               /\ call'[v].pc = "mirror" <=> call[v].pc = "mirror"
               /\ call[v].pc = "mirror" => /\ call'[v].gseq = call[v].gseq
                                          /\ call'[v].id = call[v].id
                                          /\ call'[v].prev = call[v].prev
    PROVE  AnchorInv'
<1> SUFFICES ASSUME NoGap' PROVE AnchorInv'
    BY DEF AnchorInv
<1>1. \A n, h, p : Recorded(n, h, p)' <=> Recorded(n, h, p)
    BY DEF Recorded
<1>2. /\ \A w \in Writers : Numbered(w)' =>
            call'[w].gseq = Len(history') + 1 /\ gseq' = Len(history') + 1
      /\ (\A w \in Writers : ~Numbered(w)') => gseq' = Len(history')
    BY DEF AnchorInv
<1>3. \A w \in Writers : call'[w].pc = "mirror" =>
          Recorded(call'[w].gseq, call'[w].id, call'[w].prev)
    BY DEF AnchorInv
<1>4. \A a \in Anchors : \A r \in rows'[a] : Recorded(r.seq, r.hash, r.prev)
    BY DEF AnchorInv
<1>5. \A a \in Anchors \ missing', i \in 1..Len(history') :
          \/ \E r \in rows'[a] : r.seq = i
          \/ \E w \in Writers : call'[w].pc = "mirror" /\ call'[w].gseq = i
    BY DEF AnchorInv
<1> QED
    BY <1>1, <1>2, <1>3, <1>4, <1>5 DEF AnchorInv, Recorded

LEMMA AnchorInductive ==
    TypeOK /\ GseqInv /\ ChainInv /\ AnchorInv /\ [Next]_vars => AnchorInv'
<1> SUFFICES ASSUME TypeOK, GseqInv, ChainInv, AnchorInv, [Next]_vars
             PROVE  AnchorInv'
    OBVIOUS
<1>0. NoGap => \A v, w \in Writers : InWindow(v) /\ InWindow(w) => v = w
    BY DEF NoGap, ChainInv, TurnInv
<1>1. ASSUME NEW w \in Writers, Start(w) PROVE AnchorInv'
  <2>1. /\ \A v \in Writers \ {w} : call'[v] = call[v]
        /\ call[w].pc = "idle" /\ call'[w].pc = "tip"
        /\ NoGap' => NoGap
      BY <1>1 DEF Start, TypeOK, Idle, NoGap
  <2> QED
      BY <1>1, <2>1, AnchorFrame DEF Start, Numbered, redis
<1>2. ASSUME NEW w \in Writers, ReadTip(w) PROVE AnchorInv'
  <2>1. /\ \A v \in Writers \ {w} : call'[v] = call[v]
        /\ call[w].pc = "tip" /\ call'[w].pc = "gseq"
      BY <1>2 DEF ReadTip, TypeOK
  <2> QED
      BY <1>2, <2>1, AnchorFrame DEF ReadTip, Numbered, NoGap, redis, ghosts
<1>3. ASSUME NEW w \in Writers, IncrGseq(w) PROVE AnchorInv'
  <2> SUFFICES ASSUME NoGap' PROVE AnchorInv'
      BY DEF AnchorInv
  <2>1. /\ NoGap
        /\ gseq' = gseq + 1 /\ rows' = rows
        /\ history' = history /\ missing' = missing
        /\ call[w].pc = "gseq"
        /\ call'[w].gseq = gseq + 1 /\ call'[w].pc = "seq"
        /\ \A v \in Writers \ {w} : call'[v] = call[v]
      BY <1>3 DEF IncrGseq, TypeOK, NoGap, ghosts
  <2>2. \A v \in Writers : ~Numbered(v)
      BY <1>0, <2>1 DEF Numbered, InWindow, Window
  <2>3. gseq = Len(history)
      BY <2>1, <2>2 DEF AnchorInv
  <2>4. \A v \in Writers : Numbered(v)' => v = w
      BY <2>1, <2>2 DEF Numbered
  <2>5. Numbered(w)'
      BY <2>1 DEF Numbered
  <2>6. \A v \in Writers : call'[v].pc = "mirror" =>
            v # w /\ call[v].pc = "mirror" /\ call'[v] = call[v]
      BY <2>1
  <2>7. \A v \in Writers : call[v].pc = "mirror" => call'[v] = call[v]
      BY <2>1
  <2>8. \A n, h, p : Recorded(n, h, p)' <=> Recorded(n, h, p)
      BY <2>1 DEF Recorded
  <2> QED
      BY <2>1, <2>3, <2>4, <2>5, <2>6, <2>7, <2>8 DEF AnchorInv, Recorded
<1>4. ASSUME NEW w \in Writers, IncrSeq(w) PROVE AnchorInv'
  <2>1. /\ \A v \in Writers \ {w} : call'[v] = call[v]
        /\ call[w].pc = "seq" /\ call'[w].pc = "genesis"
        /\ call'[w].gseq = call[w].gseq
      BY <1>4 DEF IncrSeq, TypeOK
  <2> QED
      BY <1>4, <2>1, AnchorFrame DEF IncrSeq, Numbered, NoGap, ghosts
<1>5. ASSUME NEW w \in Writers, ReadGenesis(w) PROVE AnchorInv'
  <2>1. /\ \A v \in Writers \ {w} : call'[v] = call[v]
        /\ call[w].pc = "genesis" /\ call'[w].pc = "exec"
        /\ call'[w].gseq = call[w].gseq
      BY <1>5 DEF ReadGenesis, TypeOK
  <2> QED
      BY <1>5, <2>1, AnchorFrame DEF ReadGenesis, Numbered, NoGap, redis, ghosts
<1>6. ASSUME NEW w \in Writers, Exec(w) PROVE AnchorInv'
  <2> SUFFICES ASSUME NoGap' PROVE AnchorInv'
      BY DEF AnchorInv
  <2> DEFINE c == call[w]
             e == [hash |-> c.id, prev |-> c.prev, gseq |-> c.gseq,
                   day |-> c.day]
  <2>1. /\ NoGap
        /\ gseq' = gseq /\ rows' = rows /\ missing' = missing
        /\ history' = Append(history, e)
        /\ c.pc = "exec"
        /\ \A v \in Writers \ {w} : call'[v] = call[v]
      BY <1>6 DEF Exec, TypeOK, NoGap
  <2>2. /\ call'[w].pc = "mirror" /\ call'[w].gseq = c.gseq
        /\ call'[w].id = c.id /\ call'[w].prev = c.prev
      BY <1>6 DEF Exec, TypeOK
  <2>3. history \in Seq(Logged) /\ e \in Logged
      BY DEF TypeOK, Call, Logged
  <2>4. e.hash = c.id /\ e.prev = c.prev
      OBVIOUS
  <2> HIDE DEF e
  <2>5. /\ Len(history') = Len(history) + 1
        /\ history'[Len(history) + 1] = e
        /\ \A i \in 1..Len(history) : history'[i] = history[i]
      BY <2>1, <2>3
  <2>6. c.gseq = Len(history) + 1 /\ gseq = Len(history) + 1
      BY <2>1 DEF AnchorInv, Numbered
  <2>7. \A v \in Writers : ~Numbered(v)'
    <3>1. \A v \in Writers : Numbered(v) => v = w
        BY <1>0, <2>1 DEF Numbered, InWindow, Window
    <3> QED
        BY <2>1, <2>2, <3>1 DEF Numbered
  <2>8. Len(history) \in Nat
      BY <2>3
  <2>9. \A n, h, p : Recorded(n, h, p) => Recorded(n, h, p)'
      BY <2>5, <2>8 DEF Recorded
  <2>10. /\ c.gseq \in 1..Len(history')
         /\ history'[c.gseq].hash = c.id
         /\ history'[c.gseq].prev = c.prev
      BY <2>4, <2>5, <2>6, <2>8
  <2>11. ASSUME NEW v \in Writers, call'[v].pc = "mirror"
         PROVE  /\ call'[v].gseq \in 1..Len(history')
                /\ history'[call'[v].gseq].hash = call'[v].id
                /\ history'[call'[v].gseq].prev = call'[v].prev
    <3>1. CASE v = w
        BY <2>2, <2>10, <3>1
    <3>2. CASE v # w
      <4>1. call'[v] = call[v]
          BY <2>1, <3>2
      <4>2. Recorded(call[v].gseq, call[v].id, call[v].prev)
          BY <2>1, <2>11, <4>1 DEF AnchorInv
      <4> QED
          BY <2>5, <2>8, <4>1, <4>2 DEF Recorded
    <3> QED
        BY <3>1, <3>2
  <2>12. \A a \in Anchors : \A r \in rows'[a] :
             Recorded(r.seq, r.hash, r.prev)'
      BY <2>1, <2>9 DEF AnchorInv
  <2>13. ASSUME NEW a \in Anchors \ missing', NEW i \in 1..Len(history')
         PROVE  \/ \E r \in rows'[a] : r.seq = i
                \/ \E v \in Writers : call'[v].pc = "mirror"
                                      /\ call'[v].gseq = i
    <3>1. CASE i = Len(history) + 1
        BY <2>2, <2>6, <3>1
    <3>2. CASE i \in 1..Len(history)
      <4>1. \/ \E r \in rows[a] : r.seq = i
            \/ \E v \in Writers : call[v].pc = "mirror" /\ call[v].gseq = i
          BY <2>1, <3>2 DEF AnchorInv
      <4>2. \A v \in Writers : call[v].pc = "mirror" => v # w
          BY <2>1
      <4> QED
          BY <2>1, <4>1, <4>2
    <3> QED
        BY <2>5, <2>8, <2>13, <3>1, <3>2
  <2>14. gseq' = Len(history')
      BY <2>1, <2>5, <2>6
  <2> QED
      BY <2>7, <2>11, <2>12, <2>13, <2>14 DEF AnchorInv, Recorded
<1>7. ASSUME NEW w \in Writers, NEW ok \in SUBSET Anchors, Mirror(w, ok)
      PROVE AnchorInv'
  <2> SUFFICES ASSUME NoGap' PROVE AnchorInv'
      BY DEF AnchorInv
  <2> DEFINE c == call[w]
             row == [seq |-> c.gseq, hash |-> c.id, prev |-> c.prev]
  <2>1. /\ NoGap
        /\ gseq' = gseq /\ history' = history
        /\ c.pc = "mirror" /\ call'[w].pc = "idle"
        /\ missing' = missing \cup (Anchors \ ok)
        /\ \A v \in Writers \ {w} : call'[v] = call[v]
      BY <1>7 DEF Mirror, TypeOK, Idle, NoGap, redis
  <2>2. \A a \in Anchors :
            rows'[a] = IF a \in ok THEN AnchorAppend(rows[a], row) ELSE rows[a]
      BY <1>7 DEF Mirror, TypeOK
  <2>3. row.seq = c.gseq /\ row.hash = c.id /\ row.prev = c.prev
      OBVIOUS
  <2> HIDE DEF row
  <2>4. \A n, h, p : Recorded(n, h, p)' <=> Recorded(n, h, p)
      BY <2>1 DEF Recorded
  <2>5. \A v \in Writers : Numbered(v)' <=> Numbered(v)
      BY <2>1 DEF Numbered
  <2>6. /\ \A v \in Writers : Numbered(v)' =>
              call'[v].gseq = Len(history') + 1 /\ gseq' = Len(history') + 1
        /\ (\A v \in Writers : ~Numbered(v)') => gseq' = Len(history')
    <3>1. \A v \in Writers : Numbered(v) => v # w
        BY <2>1 DEF Numbered
    <3> QED
        BY <2>1, <2>5, <3>1 DEF AnchorInv
  <2>7. \A v \in Writers :
            (call[v].pc = "mirror" =>
                Recorded(call[v].gseq, call[v].id, call[v].prev))'
      BY <2>1, <2>4 DEF AnchorInv
  <2>8. ASSUME NEW a \in Anchors, NEW r \in rows'[a]
        PROVE  Recorded(r.seq, r.hash, r.prev)'
    <3>1. r \in rows[a] \/ r = row
        BY <2>2 DEF AnchorAppend
    <3> QED
        BY <2>1, <2>3, <2>4, <3>1 DEF AnchorInv
  <2>9. ASSUME NEW a \in Anchors \ missing', NEW i \in 1..Len(history')
        PROVE  \/ \E r \in rows'[a] : r.seq = i
               \/ \E v \in Writers : call'[v].pc = "mirror"
                                     /\ call'[v].gseq = i
    <3>1. a \in ok /\ a \in Anchors \ missing /\ i \in 1..Len(history)
        BY <2>1, <2>9
    <3>2. rows[a] \subseteq rows'[a] /\ \E r \in rows'[a] : r.seq = c.gseq
        BY <2>2, <2>3, <3>1 DEF AnchorAppend
    <3>3. \/ \E r \in rows[a] : r.seq = i
          \/ \E v \in Writers : call[v].pc = "mirror" /\ call[v].gseq = i
        BY <2>1, <3>1 DEF AnchorInv
    <3> QED
        BY <2>1, <3>2, <3>3
  <2> QED
      BY <2>6, <2>7, <2>8, <2>9 DEF AnchorInv
<1>8. ASSUME NEW w \in Writers, Interrupt(w) PROVE AnchorInv'
  <2>1. /\ \A v \in Writers \ {w} : call'[v] = call[v]
        /\ call[w].pc # "mirror" /\ call'[w].pc = "idle"
        /\ NoGap' => NoGap /\ ~Numbered(w)
      BY <1>8
      DEF Interrupt, TypeOK, Idle, InWindow, Window, NoGap, Numbered
  <2> QED
      BY <1>8, <2>1, AnchorFrame DEF Interrupt, Numbered, redis
<1>9. CASE NextDay
    BY <1>9, AnchorFrame DEF NextDay, NoGap, Numbered, redis, ghosts
<1>10. ASSUME NEW d \in Days, Expire(d) PROVE AnchorInv'
    BY <1>10, AnchorFrame DEF Expire, NoGap, Numbered, ghosts
<1>11. CASE UNCHANGED vars
    BY <1>11, AnchorFrame DEF vars, redis, ghosts, NoGap, Numbered
<1> QED
    BY <1>1, <1>2, <1>3, <1>4, <1>5, <1>6, <1>7, <1>8, <1>9, <1>10, <1>11
    DEF Next, Step

\* In turns, an anchor that missed nothing verifies once no write is on its way.
LEMMA AnchorsCheckOut == TypeOK /\ ChainInv /\ AnchorInv => AnchorsVerify
<1> SUFFICES ASSUME TypeOK, ChainInv, AnchorInv, NoGap,
                    \A w \in Writers : call[w].pc # "mirror",
                    NEW a \in Anchors \ missing, NEW r \in rows[a]
             PROVE  \/ r.seq = 1 /\ r.prev = Genesis
                    \/ \E p \in rows[a] : r.seq = p.seq + 1 /\ r.prev = p.hash
    BY DEF AnchorsVerify, VerifyRows, NoGap
<1>1. /\ r.seq \in 1..Len(history) /\ history[r.seq].prev = r.prev
      /\ Len(history) \in Nat
    BY DEF AnchorInv, Recorded, TypeOK
<1>2. Linked(Genesis, history)
    BY DEF ChainInv, NoGap
<1>3. CASE r.seq = 1
    BY <1>1, <1>2, <1>3 DEF Linked
<1>4. CASE r.seq # 1
  <2>1. r.seq - 1 \in 1..Len(history)
      BY <1>1, <1>4
  <2>2. PICK p \in rows[a] : p.seq = r.seq - 1
      BY <2>1 DEF AnchorInv
  <2>3. history[r.seq - 1].hash = p.hash
      BY <2>2 DEF AnchorInv, Recorded
  <2>4. r.prev = p.hash
      BY <1>1, <1>2, <1>4, <2>3 DEF Linked
  <2> QED
      BY <1>1, <2>2, <2>4
<1> QED
    BY <1>3, <1>4

\* While calls take turns and none dies with a number, every anchor that took
\* every write verifies once nothing is on its way, in whatever order the
\* calls reach it.
THEOREM TurnsKeepAnchors == Spec => []AnchorsVerify
<1>1. Init => GseqInv /\ ChainInv /\ AnchorInv
  <2> SUFFICES ASSUME Init PROVE GseqInv /\ ChainInv /\ AnchorInv
      OBVIOUS
  <2>1. \A w \in Writers : call[w].pc = "idle"
      BY DEF Init, Idle
  <2>2. GseqInv
      BY <2>1 DEF Init, GseqInv, TookGseq
  <2>3. ChainInv
      BY <2>1 DEF Init, ChainInv, TurnInv, LastHash, Linked, InWindow, Window
  <2>4. AnchorInv
      BY <2>1 DEF Init, AnchorInv, Numbered
  <2> QED
      BY <2>2, <2>3, <2>4
<1> QED
    BY <1>1, AnchorsCheckOut, TypeCorrect, GseqInductive, ChainInductive,
       AnchorInductive, PTL DEF Spec

-----------------------------------------------------------------------------
(* Names and numbers, in any interleaving.                                 *)

\* The well-ordering of the naturals, from the library's theorem on sets.
LEMMA LeastNumber ==
    ASSUME NEW T, T \subseteq Nat, T # {}
    PROVE  \E x \in T : \A y \in T : x <= y
<1> DEFINE R == OpToRel(<, Nat)
<1>1. IsWellFoundedOn(R, Nat)
    BY NatLessThanWellFounded
<1>2. \A x, y \in Nat : y < x => <<y, x>> \in R
    BY DEF OpToRel
<1> HIDE DEF R
<1>3. PICK x \in T : \A y \in T : ~ (<<y, x>> \in R)
    BY <1>1, WFMin
<1>4. ASSUME NEW y \in T PROVE x <= y
  <2>1. ~(y < x)
      BY <1>2, <1>3
  <2> QED
      BY <2>1
<1> QED
    BY <1>4

\* The pipeline of a call wrote the n-th entry.
Wrote(w, n) ==
    /\ n \in 1..Len(history)
    /\ history[n].hash = call[w].id /\ history[n].prev = call[w].prev
    /\ history[n].gseq = call[w].gseq

\* The n-th entry, as an anchor would record it.
Mirrored(r, n) ==
    /\ n \in 1..Len(history)
    /\ history[n].hash = r.hash /\ history[n].prev = r.prev
    /\ history[n].gseq = r.seq

\* Every call has a name of its own, and so has every entry; what an anchor
\* holds, or is about to be given, is an entry that was written.
IdInv ==
    /\ \A w \in Writers : call[w].pc # "idle" => call[w].id \in 1..started
    /\ \A v, w \in Writers : v # w /\ call[v].pc # "idle" /\ call[w].pc # "idle" =>
          call[v].id # call[w].id
    /\ \A i \in 1..Len(history) : history[i].hash \in 1..started
    /\ \A i, j \in 1..Len(history) : history[i].hash = history[j].hash => i = j
    /\ \A w \in Writers : InWindow(w) =>
          \A i \in 1..Len(history) : history[i].hash # call[w].id
    /\ \A w \in Writers : call[w].pc = "mirror" => \E n \in Nat : Wrote(w, n)
    /\ \A a \in Anchors : \A r \in rows[a] : \E n \in Nat : Mirrored(r, n)

\* A step that writes no history and no row keeps IdInv, if no call is given
\* a name or comes to its mirror.
LEMMA IdFrame ==
    ASSUME IdInv, started' = started, history' = history, rows' = rows,
           \A w \in Writers :
               /\ call'[w].pc # "idle" => call[w].pc # "idle" /\ call'[w].id = call[w].id
               /\ InWindow(w)' => InWindow(w)
               /\ call'[w].pc = "mirror" => /\ call[w].pc = "mirror"
                                             /\ call'[w].prev = call[w].prev
                                             /\ call'[w].gseq = call[w].gseq
    PROVE  IdInv'
<1>1. \A w \in Writers : call'[w].pc = "mirror" => \E n \in Nat : Wrote(w, n)'
    BY DEF IdInv, Wrote
<1>2. \A a \in Anchors : \A r \in rows'[a] : \E n \in Nat : Mirrored(r, n)'
    BY DEF IdInv, Mirrored
<1>3. \A w \in Writers : InWindow(w)' =>
          call'[w].id = call[w].id /\ \A i \in 1..Len(history) : history[i].hash # call'[w].id
  <2>1. \A w \in Writers : InWindow(w)' => call'[w].pc # "idle"
      BY DEF InWindow, Window
  <2> QED
      BY <2>1 DEF IdInv
<1>4. /\ \A w \in Writers : call'[w].pc # "idle" => call'[w].id \in 1..started
      /\ \A v, w \in Writers : v # w /\ call'[v].pc # "idle" /\ call'[w].pc # "idle" =>
            call'[v].id # call'[w].id
    BY DEF IdInv
<1>5. /\ \A i \in 1..Len(history) : history[i].hash \in 1..started
      /\ \A i, j \in 1..Len(history) : history[i].hash = history[j].hash => i = j
    BY DEF IdInv
<1> QED
    BY <1>1, <1>2, <1>3, <1>4, <1>5 DEF IdInv

LEMMA IdInductive == TypeOK /\ IdInv /\ [Next]_vars => IdInv'
<1> SUFFICES ASSUME TypeOK, IdInv, [Next]_vars PROVE IdInv'
    OBVIOUS
<1>0. started \in Nat /\ \A w \in Writers : call[w] \in Call /\ call[w].id \in Nat
    BY DEF TypeOK, Call
<1>1. ASSUME NEW w \in Writers, Start(w) PROVE IdInv'
  <2>1. /\ started' = started + 1 /\ history' = history /\ rows' = rows
        /\ call[w].pc = "idle" /\ call'[w].pc = "tip" /\ call'[w].id = started + 1
        /\ \A v \in Writers \ {w} : call'[v] = call[v]
      BY <1>1 DEF Start, TypeOK, Idle
  <2>2. \A i \in 1..Len(history) : history[i].hash \in 1..started
      BY DEF IdInv
  <2>3. \A v \in Writers : call'[v].pc = "mirror" => \E n \in Nat : Wrote(v, n)'
    <3>1. \A v \in Writers : call'[v].pc = "mirror" => call'[v] = call[v]
        BY <2>1
    <3> QED
        BY <2>1, <3>1 DEF IdInv, Wrote
  <2>4. \A a \in Anchors : \A r \in rows'[a] : \E n \in Nat : Mirrored(r, n)'
      BY <2>1 DEF IdInv, Mirrored
  <2>5. \A v \in Writers : call'[v].pc # "idle" => call'[v].id \in 1..started'
      BY <1>0, <2>1 DEF IdInv
  <2>6. \A v, x \in Writers : v # x /\ call'[v].pc # "idle" /\ call'[x].pc # "idle" =>
            call'[v].id # call'[x].id
    <3>1. \A v \in Writers \ {w} : call[v].pc # "idle" => call[v].id <= started
        BY <1>0 DEF IdInv
    <3> QED
        BY <1>0, <2>1, <3>1 DEF IdInv
  <2>7. \A v \in Writers : InWindow(v)' =>
            \A i \in 1..Len(history) : history[i].hash # call'[v].id
    <3>1. \A i \in 1..Len(history) : history[i].hash # started + 1
        BY <1>0, <2>2
    <3>2. \A v \in Writers \ {w} : InWindow(v)' => InWindow(v) /\ call'[v] = call[v]
        BY <2>1 DEF InWindow
    <3> QED
        BY <2>1, <3>1, <3>2 DEF IdInv
  <2> QED
      BY <1>0, <2>1, <2>2, <2>3, <2>4, <2>5, <2>6, <2>7 DEF IdInv
<1>2. ASSUME NEW w \in Writers, ReadTip(w) PROVE IdInv'
    BY <1>0, <1>2, IdFrame DEF ReadTip, TypeOK, InWindow, Window, ghosts
<1>3. ASSUME NEW w \in Writers, IncrGseq(w) PROVE IdInv'
    BY <1>0, <1>3, IdFrame DEF IncrGseq, TypeOK, InWindow, Window, ghosts
<1>4. ASSUME NEW w \in Writers, IncrSeq(w) PROVE IdInv'
    BY <1>0, <1>4, IdFrame DEF IncrSeq, TypeOK, InWindow, Window, ghosts
<1>5. ASSUME NEW w \in Writers, ReadGenesis(w) PROVE IdInv'
  <2> DEFINE b == dayGenesis[call[w].day] = Absent
             c == [call[w] EXCEPT !.first = b, !.pc = "exec"]
  <2>1. /\ call' = [call EXCEPT ![w] = c] /\ call[w].pc = "genesis"
        /\ started' = started /\ history' = history /\ rows' = rows
      BY <1>5 DEF ReadGenesis, ghosts
  <2>2. c.id = call[w].id /\ c.pc = "exec"
    <3>1. call[w] \in Call /\ b \in BOOLEAN /\ "exec" \in Stages
        BY <1>0 DEF Stages, Window
    <3> HIDE DEF b
    <3> QED
        BY <3>1, FirstField
  <2> HIDE DEF c
  <2>3. call'[w] = c /\ \A v \in Writers \ {w} : call'[v] = call[v]
      BY <2>1 DEF TypeOK
  <2> QED
      BY <2>1, <2>2, <2>3, IdFrame DEF InWindow, Window
<1>6. ASSUME NEW w \in Writers, Exec(w) PROVE IdInv'
  <2> DEFINE c == call[w]
             e == [hash |-> c.id, prev |-> c.prev, gseq |-> c.gseq, day |-> c.day]
             n == Len(history) + 1
  <2>1. /\ history' = Append(history, e) /\ rows' = rows /\ started' = started
        /\ c.pc = "exec" /\ InWindow(w)
        /\ call'[w].pc = "mirror" /\ ~InWindow(w)'
        /\ call'[w].id = c.id /\ call'[w].prev = c.prev /\ call'[w].gseq = c.gseq
        /\ \A v \in Writers \ {w} : call'[v] = call[v]
    <3>1. call' = [call EXCEPT ![w] = [call[w] EXCEPT !.pc = "mirror"]] /\ c.pc = "exec"
        BY <1>6 DEF Exec
    <3> QED
        BY <1>0, <1>6, <3>1 DEF Exec, TypeOK, Call, InWindow, Window
  <2>2. e.hash = c.id /\ e.prev = c.prev /\ e.gseq = c.gseq /\ e \in Logged
      BY <1>0 DEF Call, Logged
  <2>3. c.id \in 1..started /\ \A i \in 1..Len(history) : history[i].hash # c.id
      BY <2>1 DEF IdInv
  <2> HIDE DEF e, c
  <2>4. /\ Len(history) \in Nat /\ Len(history') = n /\ history'[n] = e
        /\ \A i \in 1..Len(history) : history'[i] = history[i]
      BY <2>1, <2>2 DEF TypeOK
  <2>5. \A i \in 1..n : i \in 1..Len(history) \/ i = n
      BY <2>4
  <2>6. \A v \in Writers : InWindow(v)' => v # w /\ InWindow(v) /\ call'[v] = call[v]
      BY <2>1 DEF InWindow
  <2>7. \A v \in Writers : call'[v].id = call[v].id /\ (call'[v].pc # "idle" => call[v].pc # "idle")
      BY <2>1 DEF c
  <2>8. /\ \A v \in Writers : call'[v].pc # "idle" => call'[v].id \in 1..started
        /\ \A u, v \in Writers : u # v /\ call'[u].pc # "idle" /\ call'[v].pc # "idle" =>
              call'[u].id # call'[v].id
      BY <2>7 DEF IdInv
  <2>9. \A i \in 1..n : history'[i].hash \in 1..started
      BY <2>2, <2>3, <2>4, <2>5 DEF IdInv
  <2>10. \A i, j \in 1..n : history'[i].hash = history'[j].hash => i = j
      BY <2>2, <2>3, <2>4, <2>5 DEF IdInv
  <2>11. ASSUME NEW v \in Writers, InWindow(v)', NEW i \in 1..n
         PROVE  history'[i].hash # call'[v].id
    <3>1. v # w /\ InWindow(v) /\ call[v].pc # "idle" /\ call'[v].id = call[v].id
        BY <2>6, <2>11 DEF InWindow, Window
    <3>2. call[v].id # c.id
        BY <2>1, <3>1 DEF IdInv, c
    <3> QED
        BY <2>2, <2>4, <2>5, <3>1, <3>2 DEF IdInv
  <2>12. ASSUME NEW v \in Writers, call'[v].pc = "mirror" PROVE \E m \in Nat : Wrote(v, m)'
    <3>1. CASE v = w
      <4>1. \A m \in Nat : m = n => Wrote(w, m)'
          BY <2>1, <2>2, <2>4 DEF Wrote
      <4> QED
          BY <2>4, <3>1, <4>1
    <3>2. CASE v # w
      <4>1. PICK m \in Nat : Wrote(v, m)
          BY <2>1, <2>12, <3>2 DEF IdInv
      <4>2. Wrote(v, m)'
          BY <2>1, <2>4, <3>2, <4>1 DEF Wrote
      <4> QED
          BY <4>2
    <3> QED
        BY <3>1, <3>2
  <2>13. \A a \in Anchors : \A r \in rows'[a] : \E m \in Nat : Mirrored(r, m)'
    <3>1. \A r, m : Mirrored(r, m) => Mirrored(r, m)'
        BY <2>4 DEF Mirrored
    <3> QED
        BY <2>1, <3>1 DEF IdInv
  <2> QED
      BY <2>1, <2>4, <2>8, <2>9, <2>10, <2>11, <2>12, <2>13 DEF IdInv
<1>7. ASSUME NEW w \in Writers, NEW ok \in SUBSET Anchors, Mirror(w, ok) PROVE IdInv'
  <2> DEFINE c == call[w]
             row == [seq |-> c.gseq, hash |-> c.id, prev |-> c.prev]
  <2>1. /\ history' = history /\ started' = started
        /\ c.pc = "mirror" /\ call'[w].pc = "idle"
        /\ \A v \in Writers \ {w} : call'[v] = call[v]
      BY <1>7 DEF Mirror, TypeOK, Idle
  <2>2. \A a \in Anchors : rows'[a] \subseteq rows[a] \cup {row}
      BY <1>7 DEF Mirror, AnchorAppend
  <2>3. \E n \in Nat : Mirrored(row, n)
    <3>1. PICK n \in Nat : Wrote(w, n)
        BY <2>1 DEF IdInv
    <3> QED
        BY <3>1 DEF Wrote, Mirrored
  <2> HIDE DEF row
  <2>4. \A a \in Anchors : \A r \in rows'[a] : \E n \in Nat : Mirrored(r, n)'
    <3>1. \A a \in Anchors : \A r \in rows'[a] : \E n \in Nat : Mirrored(r, n)
        BY <2>2, <2>3 DEF IdInv
    <3> QED
        BY <2>1, <3>1 DEF Mirrored
  <2>5. \A v \in Writers : call'[v].pc # "idle" => v # w /\ call'[v] = call[v]
      BY <2>1
  <2>6. \A v \in Writers : InWindow(v)' => InWindow(v) /\ call'[v] = call[v]
      BY <2>1, <2>5 DEF InWindow, Window
  <2>7. \A v \in Writers : call'[v].pc = "mirror" => \E n \in Nat : Wrote(v, n)'
      BY <2>1, <2>5 DEF IdInv, Wrote
  <2> QED
      BY <2>1, <2>4, <2>5, <2>6, <2>7 DEF IdInv
<1>8. ASSUME NEW w \in Writers, Interrupt(w) PROVE IdInv'
    BY <1>8, IdFrame DEF Interrupt, TypeOK, InWindow, Window, Idle
<1>9. CASE NextDay
    BY <1>9, IdFrame DEF NextDay, InWindow, redis, ghosts
<1>10. ASSUME NEW d \in Days, Expire(d) PROVE IdInv'
    BY <1>10, IdFrame DEF Expire, InWindow, ghosts
<1>11. CASE UNCHANGED vars
    BY <1>11, IdFrame DEF vars, InWindow, ghosts
<1> QED
    BY <1>1, <1>2, <1>3, <1>4, <1>5, <1>6, <1>7, <1>8, <1>9, <1>10, <1>11
    DEF Next, Step

\* Sequence numbers of the anchors, counted from one, are given to one call
\* each, and to one entry.
NumberInv ==
    /\ \A w \in Writers : TookGseq(w) => call[w].gseq \in 1..gseq
    /\ \A i \in 1..Len(history) : history[i].gseq \in 1..gseq
    /\ \A i, j \in 1..Len(history) : history[i].gseq = history[j].gseq => i = j
    /\ \A w \in Writers : call[w].pc \in {"seq", "genesis", "exec"} =>
          \A i \in 1..Len(history) : history[i].gseq # call[w].gseq

LEMMA NumberFrame ==
    ASSUME NumberInv, gseq' = gseq, history' = history,
           \A w \in Writers :
               /\ TookGseq(w)' => TookGseq(w) /\ call'[w].gseq = call[w].gseq
               /\ call'[w].pc \in {"seq", "genesis", "exec"} =>
                     call[w].pc \in {"seq", "genesis", "exec"}
    PROVE  NumberInv'
<1>1. \A w \in Writers : call'[w].pc \in {"seq", "genesis", "exec"} => TookGseq(w)'
    BY DEF TookGseq
<1> QED
    BY <1>1 DEF NumberInv

LEMMA NumberInductive == TypeOK /\ GseqInv /\ NumberInv /\ [Next]_vars => NumberInv'
<1> SUFFICES ASSUME TypeOK, GseqInv, NumberInv, [Next]_vars PROVE NumberInv'
    OBVIOUS
<1>0. gseq \in Nat /\ \A w \in Writers : call[w] \in Call /\ call[w].gseq \in Nat
    BY DEF TypeOK, Call
<1>1. ASSUME NEW w \in Writers, Start(w) PROVE NumberInv'
    BY <1>1, NumberFrame DEF Start, TypeOK, TookGseq, Idle, redis
<1>2. ASSUME NEW w \in Writers, ReadTip(w) PROVE NumberInv'
    BY <1>0, <1>2, NumberFrame DEF ReadTip, TypeOK, TookGseq, redis, ghosts
<1>3. ASSUME NEW w \in Writers, IncrGseq(w) PROVE NumberInv'
  <2>1. /\ gseq' = gseq + 1 /\ history' = history /\ call[w].pc = "gseq"
        /\ call'[w].gseq = gseq + 1
        /\ \A v \in Writers \ {w} : call'[v] = call[v]
      BY <1>3 DEF IncrGseq, TypeOK, ghosts
  <2>2. \A i \in 1..Len(history) : history[i].gseq \in 1..gseq
      BY DEF NumberInv
  <2>3. \A v \in Writers : TookGseq(v)' => call'[v].gseq \in 1..gseq'
      BY <1>0, <2>1 DEF NumberInv, TookGseq
  <2>4. ASSUME NEW v \in Writers, call'[v].pc \in {"seq", "genesis", "exec"},
               NEW i \in 1..Len(history)
        PROVE  history[i].gseq # call'[v].gseq
      BY <1>0, <2>1, <2>2, <2>4 DEF NumberInv
  <2> QED
      BY <1>0, <2>1, <2>2, <2>3, <2>4 DEF NumberInv
<1>4. ASSUME NEW w \in Writers, IncrSeq(w) PROVE NumberInv'
    BY <1>0, <1>4, NumberFrame DEF IncrSeq, TypeOK, TookGseq, ghosts
<1>5. ASSUME NEW w \in Writers, ReadGenesis(w) PROVE NumberInv'
    BY <1>0, <1>5, NumberFrame DEF ReadGenesis, TypeOK, TookGseq, redis, ghosts
<1>6. ASSUME NEW w \in Writers, Exec(w) PROVE NumberInv'
  <2> DEFINE c == call[w]
             e == [hash |-> c.id, prev |-> c.prev, gseq |-> c.gseq, day |-> c.day]
             n == Len(history) + 1
  <2>1. /\ history' = Append(history, e) /\ gseq' = gseq
        /\ c.pc = "exec" /\ TookGseq(w) /\ call'[w].pc = "mirror"
        /\ \A v \in Writers : call'[v].gseq = call[v].gseq
        /\ \A v \in Writers \ {w} : call'[v] = call[v]
      BY <1>6 DEF Exec, TypeOK, TookGseq
  <2>2. e.gseq = c.gseq /\ e \in Logged
      BY <1>0 DEF Call, Logged
  <2>3. c.gseq \in 1..gseq /\ \A i \in 1..Len(history) : history[i].gseq # c.gseq
      BY <2>1 DEF NumberInv
  <2>4. \A v \in Writers : v # w /\ TookGseq(v) => call[v].gseq # c.gseq
      BY <2>1 DEF GseqInv
  <2> HIDE DEF e, c
  <2>5. /\ Len(history) \in Nat /\ Len(history') = n /\ history'[n] = e
        /\ \A i \in 1..Len(history) : history'[i] = history[i]
        /\ \A i \in 1..n : i \in 1..Len(history) \/ i = n
      BY <2>1, <2>2 DEF TypeOK
  <2>6. \A v \in Writers : TookGseq(v)' => TookGseq(v)
      BY <2>1 DEF TookGseq
  <2>7. ASSUME NEW v \in Writers, call'[v].pc \in {"seq", "genesis", "exec"}, NEW i \in 1..n
        PROVE  history'[i].gseq # call'[v].gseq
    <3>1. v # w /\ TookGseq(v) /\ call[v].pc \in {"seq", "genesis", "exec"}
        BY <2>1, <2>7 DEF TookGseq
    <3> QED
        BY <2>1, <2>2, <2>4, <2>5, <3>1 DEF NumberInv
  <2>8. \A v \in Writers : TookGseq(v)' => call'[v].gseq \in 1..gseq
      BY <2>1, <2>6 DEF NumberInv
  <2>9. /\ \A i \in 1..n : history'[i].gseq \in 1..gseq
        /\ \A i, j \in 1..n : history'[i].gseq = history'[j].gseq => i = j
      BY <2>2, <2>3, <2>5 DEF NumberInv
  <2> QED
      BY <2>1, <2>5, <2>7, <2>8, <2>9 DEF NumberInv
<1>7. ASSUME NEW w \in Writers, NEW ok \in SUBSET Anchors, Mirror(w, ok) PROVE NumberInv'
    BY <1>7, NumberFrame DEF Mirror, TypeOK, TookGseq, Idle, redis
<1>8. ASSUME NEW w \in Writers, Interrupt(w) PROVE NumberInv'
    BY <1>8, NumberFrame DEF Interrupt, TypeOK, TookGseq, Idle, redis
<1>9. CASE NextDay
    BY <1>9, NumberFrame DEF NextDay, TookGseq, redis, ghosts
<1>10. ASSUME NEW d \in Days, Expire(d) PROVE NumberInv'
    BY <1>10, NumberFrame DEF Expire, TookGseq, ghosts
<1>11. CASE UNCHANGED vars
    BY <1>11, NumberFrame DEF vars, TookGseq, redis, ghosts
<1> QED
    BY <1>1, <1>2, <1>3, <1>4, <1>5, <1>6, <1>7, <1>8, <1>9, <1>10, <1>11
    DEF Next, Step

\* An anchor that verifies holds every number below any that it holds.
LEMMA VerifiedDownward ==
    ASSUME NEW held \in SUBSET Row, VerifyRows(held), NEW g \in Nat, g >= 1,
           NEW r \in held, r.seq > g
    PROVE  \E p \in held : p.seq = g
<1> DEFINE T == {p.seq : p \in {q \in held : q.seq >= g}}
<1>1. \A p \in held : p.seq \in Nat
    BY DEF Row
<1>2. T \subseteq Nat /\ r.seq \in T
    BY <1>1
<1>3. PICK m \in T : \A n \in T : m <= n
    BY <1>2, LeastNumber
<1>4. PICK p \in held : p.seq = m /\ p.seq >= g
    BY <1>3
<1>5. CASE m = g
    BY <1>4, <1>5
<1>6. CASE m # g
  <2>1. m \in Nat /\ m > g /\ m # 1
      BY <1>1, <1>4, <1>6
  <2>2. PICK q \in held : p.seq = q.seq + 1
      BY <1>4, <2>1 DEF VerifyRows
  <2>3. q.seq \in Nat /\ q.seq >= g /\ q.seq < m
      BY <1>1, <1>4, <2>1, <2>2
  <2>4. q.seq \in T
      BY <2>3
  <2> QED
      BY <1>3, <2>1, <2>3, <2>4
<1> QED
    BY <1>5, <1>6

\* Whatever overlaps or is cut short, an anchor that lacks an entry and holds
\* a later number does not verify.
THEOREM GapsShow == Spec => []GapShows
<1>1. Init => GseqInv /\ IdInv /\ NumberInv
    BY DEF Init, GseqInv, IdInv, NumberInv, TookGseq, InWindow, Window, Idle
<1>2. TypeOK /\ IdInv /\ NumberInv => GapShows
  <2> SUFFICES ASSUME TypeOK, IdInv, NumberInv,
                      NEW a \in Anchors, NEW i \in 1..Len(history),
                      \A r \in rows[a] : r.hash # history[i].hash,
                      NEW r \in rows[a], r.seq > history[i].gseq,
                      VerifyRows(rows[a])
               PROVE  FALSE
      BY DEF GapShows
  <2>1. rows[a] \in SUBSET Row /\ history[i].gseq \in Nat /\ history[i].gseq >= 1
      BY DEF TypeOK, NumberInv
  <2>2. PICK p \in rows[a] : p.seq = history[i].gseq
      BY <2>1, VerifiedDownward
  <2>3. PICK n \in Nat : Mirrored(p, n)
      BY DEF IdInv
  <2>4. n = i
      BY <2>2, <2>3 DEF Mirrored, NumberInv
  <2> QED
      BY <2>3, <2>4 DEF Mirrored
<1> QED
    BY <1>1, <1>2, TypeCorrect, GseqInductive, IdInductive, NumberInductive, PTL DEF Spec

-----------------------------------------------------------------------------
(* What the list of a day holds.                                           *)

LEMMA OnDayFinite ==
    ASSUME NEW d, NEW n \in Nat
    PROVE  IsFiniteSet(OnDay(d, n)) /\ Cardinality(OnDay(d, n)) \in Nat
<1>1. IsFiniteSet(1..n)
    BY FS_Interval
<1>2. OnDay(d, n) \in SUBSET (1..n)
    BY DEF OnDay
<1> QED
    BY <1>1, <1>2, FS_Subset, FS_CardinalityType

\* The place of an entry in its day is not past the day's count.
LEMMA OnDayRank ==
    ASSUME NEW d, NEW n \in Nat, NEW i \in OnDay(d, n)
    PROVE  Cardinality(OnDay(d, i)) \in 1..Cardinality(OnDay(d, n))
<1>1. i \in Nat /\ i <= n /\ OnDay(d, i) \in SUBSET OnDay(d, n) /\ i \in OnDay(d, i)
    BY DEF OnDay
<1>2. /\ IsFiniteSet(OnDay(d, n)) /\ IsFiniteSet(OnDay(d, i))
      /\ Cardinality(OnDay(d, n)) \in Nat /\ Cardinality(OnDay(d, i)) \in Nat
    BY <1>1, OnDayFinite
<1>3. Cardinality(OnDay(d, i)) <= Cardinality(OnDay(d, n))
    BY <1>1, <1>2, FS_Subset
<1>4. Cardinality(OnDay(d, i)) # 0
    BY <1>1, <1>2, FS_EmptySet
<1> QED
    BY <1>2, <1>3, <1>4

Holds(d) ==
    /\ Len(dayLog[d]) = Cardinality(OnDay(d, Len(history)))
    /\ \A i \in OnDay(d, Len(history)) :
          LET e == dayLog[d][Cardinality(OnDay(d, i))]
          IN  e.hash = history[i].hash /\ e.prev = history[i].prev

\* A day without a watermark has an empty list, and was never written or
\* will never be again.
KeptInv ==
    \A d \in Days :
        /\ dayMark[d] # Absent => Holds(d)
        /\ dayMark[d] = Absent =>
              /\ dayLog[d] = <<>>
              /\ \/ OnDay(d, Len(history)) = {}
                 \/ d < today /\ \A w \in Writers : InWindow(w) => call[w].day # d

\* A pipeline that writes to a day adds its entry to the list.
LEMMA HoldsAppend ==
    ASSUME TypeOK, NEW d \in Days, NEW e \in Logged, e.day = d, NEW x \in Entry,
           x.hash = e.hash, x.prev = e.prev,
           history' = Append(history, e), dayLog'[d] = Append(dayLog[d], x), Holds(d)
    PROVE  Holds(d)'
<1> DEFINE n == Len(history)
           c == Cardinality(OnDay(d, n))
<1>1. /\ n \in Nat /\ Len(history') = n + 1 /\ history'[n + 1] = e
      /\ \A i \in 1..n : history'[i] = history[i]
    BY DEF TypeOK
<1>2. /\ dayLog[d] \in Seq(Entry) /\ Len(dayLog'[d]) = Len(dayLog[d]) + 1
      /\ dayLog'[d][Len(dayLog[d]) + 1] = x
      /\ \A k \in 1..Len(dayLog[d]) : dayLog'[d][k] = dayLog[d][k]
    BY DEF TypeOK
<1> HIDE DEF n
<1>3. \A i \in 1..n : OnDay(d, i)' = OnDay(d, i)
    BY <1>1 DEF OnDay
<1>4. \A m : m = n + 1 => OnDay(d, m)' = OnDay(d, n) \cup {m}
    BY <1>1 DEF OnDay
<1>5. IsFiniteSet(OnDay(d, n)) /\ c \in Nat
    BY <1>1, OnDayFinite
<1>6. ASSUME NEW m, m = n + 1
      PROVE  Cardinality(OnDay(d, m)') = c + 1
  <2>1. m \notin OnDay(d, n)
      BY <1>1, <1>6 DEF OnDay
  <2>2. OnDay(d, m)' = OnDay(d, n) \cup {m}
      BY <1>4, <1>6
  <2> QED
      BY <1>5, <2>1, <2>2, FS_AddElement
<1>7. Len(dayLog[d]) = c
    BY DEF Holds, n
<1>8. \A m : m = n + 1 => Len(dayLog'[d]) = Cardinality(OnDay(d, m)')
    BY <1>2, <1>6, <1>7
<1>9. ASSUME NEW m, m = n + 1, NEW i \in OnDay(d, m)'
      PROVE  LET y == dayLog'[d][Cardinality(OnDay(d, i)')]
             IN  y.hash = history'[i].hash /\ y.prev = history'[i].prev
  <2>1. CASE i = m
    <3>1. Cardinality(OnDay(d, i)') = c + 1 /\ history'[i] = e
        BY <1>1, <1>6, <1>9, <2>1
    <3> HIDE DEF c
    <3>2. dayLog'[d][Cardinality(OnDay(d, i)')] = x
        BY <1>2, <1>7, <3>1
    <3> QED
        BY <3>1, <3>2
  <2>2. CASE i \in OnDay(d, n)
    <3>1. i \in 1..n /\ OnDay(d, i)' = OnDay(d, i) /\ history'[i] = history[i]
        BY <1>1, <1>3, <2>2 DEF OnDay
    <3>2. Cardinality(OnDay(d, i)) \in 1..c
        BY <1>1, <2>2, OnDayRank
    <3> HIDE DEF c
    <3>3. dayLog'[d][Cardinality(OnDay(d, i))] = dayLog[d][Cardinality(OnDay(d, i))]
        BY <1>2, <1>7, <3>2
    <3> QED
        BY <2>2, <3>1, <3>3 DEF Holds, n
  <2>3. i = m \/ i \in OnDay(d, n)
    <3>1. i \in OnDay(d, n) \cup {m}
        BY <1>4, <1>9
    <3> QED
        BY <3>1
  <2> QED
      BY <2>1, <2>2, <2>3
<1>10. PICK m : m = n + 1
    OBVIOUS
<1> QED
    BY <1>1, <1>8, <1>9, <1>10 DEF Holds

\* A step that leaves the history and the list of d alone.
LEMMA HoldsSame ==
    ASSUME NEW d \in Days, history' = history, dayLog'[d] = dayLog[d], Holds(d)
    PROVE  Holds(d)'
BY DEF Holds, OnDay

\* An entry of another day.
LEMMA OnDaySame ==
    ASSUME TypeOK, NEW d, NEW e \in Logged, e.day # d, history' = Append(history, e)
    PROVE  /\ OnDay(d, Len(history))' = OnDay(d, Len(history))
           /\ \A i \in 1..Len(history) :
                 OnDay(d, i)' = OnDay(d, i) /\ history'[i] = history[i]
<1>1. /\ Len(history) \in Nat /\ Len(history') = Len(history) + 1
      /\ history'[Len(history) + 1] = e
      /\ \A i \in 1..Len(history) : history'[i] = history[i]
    BY DEF TypeOK
<1>2. ASSUME NEW m, m = Len(history)
      PROVE  /\ OnDay(d, m + 1)' = OnDay(d, m)
             /\ \A i \in 1..m : OnDay(d, i)' = OnDay(d, i)
    BY <1>1, <1>2 DEF OnDay
<1>3. PICK m : m = Len(history)
    OBVIOUS
<1>4. Len(history') = m + 1
    BY <1>1, <1>3
<1> QED
    BY <1>1, <1>2, <1>3, <1>4 DEF OnDay

LEMMA HoldsOther ==
    ASSUME TypeOK, NEW d \in Days, NEW e \in Logged, e.day # d,
           history' = Append(history, e), dayLog'[d] = dayLog[d], Holds(d)
    PROVE  Holds(d)'
<1>1. /\ OnDay(d, Len(history))' = OnDay(d, Len(history))
      /\ \A i \in 1..Len(history) :
            OnDay(d, i)' = OnDay(d, i) /\ history'[i] = history[i]
    BY OnDaySame
<1>2. OnDay(d, Len(history)) \in SUBSET (1..Len(history))
    BY DEF OnDay
<1> QED
    BY <1>1, <1>2 DEF Holds

\* A step that writes no list and no history, and starts no call but on the
\* day that is today.
LEMMA KeptFrame ==
    ASSUME TypeOK, KeptInv, dayLog' = dayLog, dayMark' = dayMark, history' = history,
           today' \in Nat, today <= today',
           \A w \in Writers : InWindow(w)' =>
               \/ InWindow(w) /\ call'[w].day = call[w].day
               \/ call'[w].day = today
    PROVE  KeptInv'
<1>1. \A d \in Days, n \in Nat : OnDay(d, n)' = OnDay(d, n)
    BY DEF OnDay
<1>2. \A d \in Days : Holds(d) => Holds(d)'
    BY HoldsSame
<1>3. Len(history) \in Nat /\ today \in Nat /\ \A d \in Days : d \in Nat
    BY DEF TypeOK, Days
<1>4. ASSUME NEW d \in Days, d < today, \A w \in Writers : InWindow(w) => call[w].day # d
      PROVE  d < today' /\ \A w \in Writers : InWindow(w)' => call'[w].day # d
    BY <1>3, <1>4
<1> QED
    BY <1>1, <1>2, <1>3, <1>4 DEF KeptInv

LEMMA KeptExec ==
    ASSUME TypeOK, KeptInv, NEW w \in Writers, Exec(w)
    PROVE  KeptInv'
<1>0. PICK d0 \in Days : d0 = call[w].day
    BY DEF TypeOK, Call
<1> DEFINE c == call[w]
           x == [hash |-> c.id, prev |-> c.prev]
           e == [hash |-> c.id, prev |-> c.prev, gseq |-> c.gseq, day |-> c.day]
<1>1. /\ d0 \in Days /\ c.id \in Nat /\ c.prev \in Nat /\ c.seq \in Nat /\ c.gseq \in Nat
    BY DEF TypeOK, Call
<1>2. /\ x \in Entry /\ e \in Logged /\ e.day = d0 /\ x.hash = e.hash /\ x.prev = e.prev
    BY <1>0, <1>1 DEF Entry, Logged
<1>3. /\ history' = Append(history, e)
      /\ dayLog' = [dayLog EXCEPT ![d0] = Append(@, x)]
      /\ dayMark' = [dayMark EXCEPT ![d0] = [seq |-> c.seq, hash |-> c.id]]
      /\ today' = today
    BY <1>0 DEF Exec
<1>4. [seq |-> c.seq, hash |-> c.id] # Absent
    BY <1>1, AbsentAssumption
<1> HIDE DEF x, e
<1>5. /\ dayLog'[d0] = Append(dayLog[d0], x) /\ dayMark'[d0] # Absent
      /\ \A d \in Days \ {d0} : dayLog'[d] = dayLog[d] /\ dayMark'[d] = dayMark[d]
    BY <1>1, <1>3, <1>4 DEF TypeOK
<1>6. /\ InWindow(w) /\ \A v \in Writers : InWindow(v)' => InWindow(v) /\ call'[v].day = call[v].day
  <2>1. /\ InWindow(w) /\ call'[w].pc = "mirror"
        /\ \A v \in Writers \ {w} : call'[v] = call[v]
      BY DEF Exec, TypeOK, InWindow, Window
  <2> QED
      BY <2>1 DEF InWindow, Window
<1>7. Holds(d0)
  <2>1. CASE dayMark[d0] # Absent
      BY <1>1, <2>1 DEF KeptInv
  <2>2. CASE dayMark[d0] = Absent
    <3>1. dayLog[d0] = <<>> /\ OnDay(d0, Len(history)) = {}
        BY <1>0, <1>6, <2>2 DEF KeptInv
    <3>2. Len(dayLog[d0]) = 0 /\ Cardinality(OnDay(d0, Len(history))) = 0
        BY <3>1, FS_EmptySet
    <3> QED
        BY <3>1, <3>2 DEF Holds
  <2> QED
      BY <2>1, <2>2
<1>8. Holds(d0)'
    BY <1>1, <1>2, <1>3, <1>5, <1>7, HoldsAppend
<1>9. ASSUME NEW d \in Days, d # d0
      PROVE  Holds(d) => Holds(d)'
    BY <1>2, <1>3, <1>5, <1>9, HoldsOther
<1>10. ASSUME NEW d \in Days, d # d0
       PROVE  OnDay(d, Len(history))' = OnDay(d, Len(history))
    BY <1>2, <1>3, <1>10, OnDaySame
<1> QED
    BY <1>3, <1>5, <1>6, <1>8, <1>9, <1>10 DEF KeptInv

LEMMA KeptInductive == TypeOK /\ CalendarInv /\ KeptInv /\ [Next]_vars => KeptInv'
<1> SUFFICES ASSUME TypeOK, CalendarInv, KeptInv, [Next]_vars PROVE KeptInv'
    OBVIOUS
<1>0. today \in Nat /\ \A w \in Writers : call[w] \in Call
    BY DEF TypeOK, Days
<1>1. ASSUME NEW w \in Writers, Start(w) PROVE KeptInv'
  <2>1. /\ dayLog' = dayLog /\ dayMark' = dayMark /\ history' = history /\ today' = today
        /\ call'[w].day = today
        /\ \A v \in Writers \ {w} : call'[v] = call[v]
      BY <1>1 DEF Start, TypeOK, Idle, redis
  <2> QED
      BY <1>0, <2>1, KeptFrame DEF InWindow
<1>2. ASSUME NEW w \in Writers, ReadTip(w) PROVE KeptInv'
    BY <1>0, <1>2, KeptFrame DEF ReadTip, TypeOK, InWindow, Window, redis, ghosts
<1>3. ASSUME NEW w \in Writers, IncrGseq(w) PROVE KeptInv'
    BY <1>0, <1>3, KeptFrame DEF IncrGseq, TypeOK, InWindow, Window, dayKeys, ghosts
<1>4. ASSUME NEW w \in Writers, IncrSeq(w) PROVE KeptInv'
    BY <1>0, <1>4, KeptFrame DEF IncrSeq, TypeOK, InWindow, Window, ghosts
<1>5. ASSUME NEW w \in Writers, ReadGenesis(w) PROVE KeptInv'
  <2>1. /\ dayLog' = dayLog /\ dayMark' = dayMark /\ history' = history /\ today' = today
        /\ InWindow(w)
      BY <1>5 DEF ReadGenesis, redis, ghosts, InWindow, Window
  <2> QED
      BY <1>0, <1>5, <2>1, ReadGenesisEffect, KeptFrame DEF InWindow
<1>6. ASSUME NEW w \in Writers, Exec(w) PROVE KeptInv'
    BY <1>6, KeptExec
<1>7. ASSUME NEW w \in Writers, NEW ok \in SUBSET Anchors, Mirror(w, ok) PROVE KeptInv'
    BY <1>0, <1>7, KeptFrame DEF Mirror, TypeOK, InWindow, Window, Idle, redis
<1>8. ASSUME NEW w \in Writers, Interrupt(w) PROVE KeptInv'
    BY <1>0, <1>8, KeptFrame DEF Interrupt, TypeOK, InWindow, Window, Idle, redis
<1>9. CASE NextDay
    BY <1>0, <1>9, KeptFrame DEF NextDay, InWindow, redis, ghosts
<1>10. ASSUME NEW d \in Days, Expire(d) PROVE KeptInv'
  <2>1. /\ history' = history /\ today' = today /\ call' = call
        /\ dayLog'[d] = <<>> /\ dayMark'[d] = Absent
        /\ \A o \in Days \ {d} : dayLog'[o] = dayLog[o] /\ dayMark'[o] = dayMark[o]
        /\ \A w \in Writers : InWindow(w) => call[w].day # d
      BY <1>10 DEF Expire, TypeOK, ghosts
  <2>2. d < today
      BY <1>0, <1>10, BoundsAssumption DEF Expire, Days
  <2>3. \A o \in Days : OnDay(o, Len(history))' = OnDay(o, Len(history))
      BY <2>1 DEF OnDay
  <2>4. \A o \in Days \ {d} : Holds(o) => Holds(o)'
      BY <2>1, HoldsSame
  <2> QED
      BY <2>1, <2>2, <2>3, <2>4 DEF KeptInv, InWindow
<1>11. CASE UNCHANGED vars
    BY <1>0, <1>11, KeptFrame DEF vars, redis, ghosts, InWindow
<1> QED
    BY <1>1, <1>2, <1>3, <1>4, <1>5, <1>6, <1>7, <1>8, <1>9, <1>10, <1>11
    DEF Next, Step

\* Until its keys expire the list of a day is what the pipelines wrote to it,
\* in their order, however the calls overlap or are cut short.
THEOREM DaysHoldHistory == Spec => []DayHoldsHistory
<1>1. Init => CalendarInv /\ KeptInv
  <2> SUFFICES ASSUME Init PROVE CalendarInv /\ KeptInv
      OBVIOUS
  <2>1. \A w \in Writers : ~InWindow(w) /\ call[w].pc # "exec"
      BY DEF Init, InWindow, Window, Idle
  <2>2. \A d \in Days : OnDay(d, Len(history)) = {}
      BY DEF Init, OnDay
  <2> QED
      BY <2>1, <2>2 DEF Init, CalendarInv, KeptInv
<1>2. KeptInv => DayHoldsHistory
    BY DEF KeptInv, Holds, DayHoldsHistory
<1> QED
    BY <1>1, <1>2, TypeCorrect, CalendarInductive, KeptInductive, PTL DEF Spec

=============================================================================
