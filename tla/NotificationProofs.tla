--------------------------- MODULE NotificationProofs ---------------------------
(***************************************************************************)
(* Theorems about what the energy manager tells its user: about the push   *)
(* ledger (PushLedger), for any number of ranges, any budget and window,   *)
(* and about the execution ranges (ExecutionRanges), for any number of     *)
(* transactions, any queue and any lag; for both, any number of restarts   *)
(* and failed saves.                                                       *)
(*                                                                         *)
(* At most one push rests on what makes an event impossible to produce     *)
(* again (Past), of the model in memory and of the one in the Store alike; *)
(* the budget on charges that outlive the calls they were made for, or, if *)
(* the ledger was lost, on a full budget charged after all of them.  That  *)
(* an END is true rests on the order of the observations in the queue.     *)
(***************************************************************************)
EXTENDS PushLedger, ExecutionRanges, FiniteSetTheorems, SequenceTheorems,
        WellFoundedInduction, TLAPS

\* The range is behind the model r, which never opens it again.
Over(range, r) ==
    r # range /\ (range < exe \/ (range = exe /\ ~running))
\* The event cannot come from the range model r any more.
Past(ev, r, s) ==
    IF ev.kind = "start"
    THEN r = ev.range \/ ~s \/ ev.range < exe \/ (ev.range = exe /\ ~running)
    ELSE Over(ev.range, r)

\* What is to be delivered has just come from the range model, and only the
\* current event may have been handed to the provider.
TodoInv ==
    /\ at \in {"off", "init", "idle", "final"} => todo = {}
    /\ at \in {"accept", "reserve", "call", "settle"} => todo # {}
    /\ \A ev \in todo :
          /\ ev.kind = "start" => rng = ev.range
          /\ ev.kind = "end" => Over(ev.range, rng)
          /\ pushed[ev] = 0 \/ (ev = Current /\ at \in {"call", "settle"})

\* What was pushed was pushed once, and is past for the memory and for the Store.
PastInv ==
    \A ev \in Events : pushed[ev] # 0 =>
        /\ pushed[ev] = 1 /\ ev.range <= exe
        /\ Past(ev, rng, seeded) /\ Past(ev, disk.rng, disk.seeded)

\* Ranges are of executions there were.
KnownRanges ==
    /\ rng # None => rng <= exe
    /\ disk.rng # None => disk.rng <= exe
OnceInv == TypeOK /\ TodoInv /\ PastInv /\ KnownRanges

-----------------------------------------------------------------------------
\* The event being delivered is one of those to deliver.
LEMMA CurrentInTodo ==
    ASSUME todo # {} PROVE Current \in todo
<1>1. \E ev \in todo : (\E e \in todo : e.kind = "end") => ev.kind = "end"
  <2>1. CASE \E e \in todo : e.kind = "end"  BY <2>1
  <2>2. CASE ~ \E e \in todo : e.kind = "end"  BY <2>2
  <2>. QED  BY <2>1, <2>2
<1>. QED  BY <1>1 DEF Current

\* Types: the ledger that is saved or loaded is a ledger.
LEMMA PayloadType == TypeOK => Payload \in Ledgers
BY DEF TypeOK, Payload, Ledgers

\* So is one with nothing in it.
LEMMA EmptyType ==
    /\ NoEvents \in [Events -> DeliveryStates]
    /\ NoCharges \in [Charges -> Ages]
    /\ Empty \in Ledgers
<1>1. NoEvents \in [Events -> DeliveryStates]  BY DEF NoEvents, DeliveryStates
<1>2. NoCharges \in [Charges -> Ages]  BY LedgerAssumption DEF NoCharges, Ages
<1>. QED  BY <1>1, <1>2 DEF Empty, Ledgers

LEMMA TypeInit == Init => TypeOK
<1>. SUFFICES ASSUME Init PROVE TypeOK
  OBVIOUS
<1>1. pushed \in [Events -> 0..2] /\ since \in [Events -> Ages]
  BY LedgerAssumption DEF Init, Ages
<1>2. exe \in 0..MaxRanges /\ running \in BOOLEAN /\ (running => exe \in RangeIds)
  <2>1. 0 \in 0..MaxRanges  BY LedgerAssumption
  <2>. QED  BY <2>1 DEF Init
<1>3. rng \in RangeIds \cup {None} /\ seeded \in BOOLEAN /\ first \in BOOLEAN  BY DEF Init
<1>4. recent \in [Events -> DeliveryStates] /\ charged \in [Charges -> Ages]  BY EmptyType DEF Init
<1>5. at \in {"off", "idle", "deliver", "call"} \cup Saving /\ todo \subseteq Events BY DEF Init
<1>6. disk \in Ledgers /\ mishaps \in 0..MaxMishaps
  BY EmptyType, LedgerAssumption DEF Init
<1>. QED  BY <1>1, <1>2, <1>3, <1>4, <1>5, <1>6 DEF TypeOK

LEMMA MishapType ==
    ASSUME TypeOK, Mishap PROVE mishaps' \in 0..MaxMishaps
BY LedgerAssumption DEF TypeOK, Mishap

\* Types survive a save, whatever became of it.
LEMMA SaveType ==
    ASSUME TypeOK, Saved \/ SaveFailed
    PROVE  disk' \in Ledgers /\ mishaps' \in 0..MaxMishaps
BY PayloadType, LedgerAssumption DEF TypeOK, Saved, SaveFailed, Mishap

LEMMA OlderType ==
    ASSUME NEW S, NEW ages \in [S -> Ages] PROVE Older(ages) \in [S -> Ages]
BY LedgerAssumption DEF Older, Ages

LEMMA MarkedType ==
    ASSUME TypeOK, NEW ev, NEW state \in DeliveryStates
    PROVE  Marked(ev, state) \in [Events -> DeliveryStates]
BY DEF TypeOK, Marked

\* Types survive a step.
LEMMA TypeStep == TypeOK /\ [Next]_vars => TypeOK'
<1>. SUFFICES ASSUME TypeOK, [Next]_vars PROVE TypeOK'
  OBVIOUS
<1>. USE DEF model, history
<1>1. CASE Initialize
  BY <1>1 DEF Initialize, TypeOK, Ledgers, GivenUp, Saving, DeliveryStates
<1>2. CASE InitializeUnreadable
  <2>1. charged' \in [Charges -> Ages]
    BY <1>2, LedgerAssumption DEF InitializeUnreadable, Ages
  <2>. QED  BY <1>2, <2>1, EmptyType, MishapType DEF InitializeUnreadable, TypeOK, Saving
<1>3. CASE Initialized
  BY <1>3, SaveType DEF Initialized, TypeOK
<1>4. CASE Take
  <2>1. PICK e \in {exe, exe + 1}, on \in BOOLEAN, configured \in BOOLEAN :
            /\ Observed(e, on) /\ exe' = e /\ running' = on
            /\ RangeFollows(e, on)
            /\ recent' = [ev \in Events |->
                  IF ev \notin todo' \/ recent[ev] # "none" THEN recent[ev]
                  ELSE IF configured /\ Pushable(ev) THEN "pending" ELSE "done"]
    BY <1>4 DEF Take
  <2>2. exe' \in 0..MaxRanges /\ (on => e \in RangeIds)
    <3>1. CASE e = exe /\ (on => running)
      BY <2>1, <3>1, LedgerAssumption DEF TypeOK, RangeIds
    <3>2. CASE e = exe + 1 /\ e \in RangeIds /\ on
      BY <2>1, <3>2, LedgerAssumption DEF TypeOK, RangeIds
    <3>. QED  BY <2>1, <3>1, <3>2 DEF Observed
  <2>3. rng' \in RangeIds \cup {None} /\ todo' \subseteq Events
    BY <2>1, <2>2 DEF RangeFollows, Opens, GoesOn, Replaced, Ends, TypeOK, Event, Events
  <2>4. recent' \in [Events -> DeliveryStates]
    <3>1. \A ev \in Events : recent'[ev] \in DeliveryStates
      BY <2>1 DEF TypeOK, DeliveryStates
    <3>. QED  BY <2>1, <3>1
  <2>. QED  BY <1>4, <2>1, <2>2, <2>3, <2>4 DEF Take, TypeOK, Saving
<1>5. CASE Accepted
  BY <1>5, SaveType DEF Accepted, TypeOK
<1>6. CASE AcceptFailed
  BY <1>6, SaveType DEF AcceptFailed, TypeOK, DeliveryStates, Saving
<1>7. CASE Decline
  BY <1>7, MarkedType DEF Decline, TypeOK, DeliveryStates, Saving
<1>8. CASE Reserve
  <2>1. recent' \in [Events -> DeliveryStates]
    BY <1>8, MarkedType DEF Reserve, DeliveryStates
  <2>2. charged' \in [Charges -> Ages]
    <3>1. 0 \in Ages  BY LedgerAssumption DEF Ages
    <3>2. CASE Limited(Current)
      BY <1>8, <3>1, <3>2 DEF Reserve, TypeOK
    <3>3. CASE ~Limited(Current)
      BY <1>8, <3>3 DEF Reserve, TypeOK
    <3>. QED  BY <3>2, <3>3
  <2>. QED  BY <1>8, <2>1, <2>2 DEF Reserve, TypeOK, Saving
<1>9. CASE Reserved
  <2>2. pushed' \in [Events -> 0..2]
    <3>1. \A n \in 0..2 : (IF n = 2 THEN 2 ELSE n + 1) \in 0..2  OBVIOUS
    <3>2. \A ev \in Events : pushed'[ev] \in 0..2
      BY <1>9, <3>1 DEF Reserved, TypeOK
    <3>. QED  BY <1>9, <3>2 DEF Reserved, TypeOK
  <2>3. since' \in [Events -> Ages]
    <3>1. CASE Current \in Events
      BY <1>9, <3>1 DEF Reserved, TypeOK, Charges
    <3>2. CASE Current \notin Events
      BY <1>9, <3>2 DEF Reserved, TypeOK
    <3>. QED  BY <3>1, <3>2
  <2>. QED  BY <1>9, <2>2, <2>3, SaveType DEF Reserved, TypeOK
<1>10. CASE NotReserved
  BY <1>10, SaveType, MarkedType DEF NotReserved, TypeOK, DeliveryStates
<1>11. CASE ProviderReturns
  BY <1>11, MarkedType DEF ProviderReturns, TypeOK, DeliveryStates, Saving
<1>12. CASE Settled
  BY <1>12, SaveType DEF Settled, TypeOK
<1>13. CASE Delivered
  BY <1>13 DEF Delivered, TypeOK, Saving
<1>14. CASE Finished
  BY <1>14, SaveType DEF Finished, TypeOK
<1>15. CASE Restart
  BY <1>15, PayloadType, EmptyType, MishapType DEF Restart, TypeOK, Saving
<1>16. CASE Tick
  <2>1. disk' \in Ledgers
    BY <1>16, OlderType DEF Tick, TypeOK, Ledgers
  <2>. QED  BY <1>16, <2>1, OlderType DEF Tick, TypeOK
<1>17. CASE UNCHANGED vars
  BY <1>17 DEF vars, TypeOK
<1>. QED
  BY <1>1, <1>2, <1>3, <1>4, <1>5, <1>6, <1>7, <1>8, <1>9, <1>10, <1>11, <1>12, <1>13, <1>14,
     <1>15, <1>16, <1>17 DEF Next, Work

\* An execution that is behind stays behind.
LEMMA PastStays ==
    ASSUME NEW ev \in Events, NEW r, NEW s, exe \in Nat, ev.range <= exe,
           \/ exe' = exe /\ (running' => running)
           \/ exe' = exe + 1,
           Past(ev, r, s)
    PROVE  Past(ev, r, s)'
BY DEF Past, Over, Events, RangeIds

\* Steps that leave the range model, the history and the Store's model alone,
\* and keep or drop what is to be delivered.
LEMMA OnceKept ==
    ASSUME OnceInv, TypeOK', UNCHANGED <<exe, running, rng, seeded>>, UNCHANGED pushed,
           disk' \in {disk, Payload} \/ (disk'.rng = disk.rng /\ disk'.seeded = disk.seeded)
    PROVE  PastInv' /\ KnownRanges'
<1>1. \/ disk'.rng = disk.rng /\ disk'.seeded = disk.seeded
      \/ disk'.rng = rng /\ disk'.seeded = seeded
  BY DEF Payload
<1>. QED  BY <1>1 DEF OnceInv, PastInv, KnownRanges, Past, Over

LEMMA OnceStep == OnceInv /\ [Next]_vars => OnceInv'
<1>. SUFFICES ASSUME OnceInv, [Next]_vars PROVE OnceInv'
  OBVIOUS
<1>0. TypeOK'  BY TypeStep DEF OnceInv
<1>. USE DEF model, history
<1>1. CASE Initialize
  <2>1. PastInv'
    BY <1>1 DEF Initialize, OnceInv, PastInv, Past, Over
  <2>2. TodoInv' /\ KnownRanges'
    BY <1>1 DEF Initialize, OnceInv, TodoInv, KnownRanges
  <2>. QED  BY <1>0, <2>1, <2>2 DEF OnceInv
<1>2. CASE InitializeUnreadable
  <2>1. PastInv'
    BY <1>2, LedgerAssumption DEF InitializeUnreadable, OnceInv, PastInv, Past, Over, Events
  <2>2. TodoInv' /\ KnownRanges'
    BY <1>2 DEF InitializeUnreadable, OnceInv, TodoInv, KnownRanges
  <2>. QED  BY <1>0, <2>1, <2>2 DEF OnceInv
<1>3. CASE Initialized \/ Finished
  <2>1. disk' \in {disk, Payload}
    BY <1>3 DEF Initialized, Finished, Saved, SaveFailed
  <2>2. TodoInv'
    BY <1>3 DEF Initialized, Finished, OnceInv, TodoInv
  <2>. QED  BY <1>0, <1>3, <2>1, <2>2, OnceKept DEF Initialized, Finished, OnceInv
<1>4. CASE Take
  <2>1. PICK e \in {exe, exe + 1}, on \in BOOLEAN :
            /\ Observed(e, on) /\ exe' = e /\ running' = on
            /\ RangeFollows(e, on)
    BY <1>4 DEF Take
  <2>2. exe \in Nat /\ (e = exe /\ on => running) /\ (e # exe => on /\ e = exe + 1)
    BY <2>1 DEF OnceInv, TypeOK, Observed
  <2>3. seeded' = TRUE /\ UNCHANGED <<disk, pushed>>
    BY <1>4 DEF Take
  <2>4. KnownRanges'
    <3>1. rng' \in {rng, None, e}
      BY <2>1 DEF RangeFollows, Opens, GoesOn, Replaced, Ends
    <3>2. rng # None => rng <= exe'
      BY <2>1, <2>2 DEF OnceInv, KnownRanges, TypeOK, RangeIds
    <3>3. disk.rng # None => disk.rng <= exe'
      BY <2>1, <2>2 DEF OnceInv, KnownRanges, TypeOK, Ledgers, RangeIds
    <3>. QED  BY <2>1, <2>2, <2>3, <3>1, <3>2, <3>3 DEF KnownRanges
  <2>5. ASSUME NEW ev \in Events, pushed[ev] # 0
        PROVE  pushed[ev] = 1 /\ ev.range <= exe' /\ Past(ev, disk.rng, disk.seeded)'
    BY <2>1, <2>2, <2>3, <2>5, PastStays DEF OnceInv, PastInv, Events, RangeIds
  <2>6. ASSUME NEW ev \in Events, pushed[ev] # 0, ev.kind = "start"
        PROVE  Past(ev, rng, seeded)' /\ ev \notin todo'
    <3>1. ev.range \in Nat /\ ev.range <= exe /\ ev.range # None /\ Past(ev, rng, seeded)
      BY <2>6, LedgerAssumption DEF OnceInv, PastInv, Events, RangeIds
    <3>2. ev \in todo' => seeded /\ on /\ ev.range = e /\ rng # e
      BY <2>1, <2>6, LedgerAssumption
      DEF RangeFollows, Opens, GoesOn, Replaced, Ends, Event, Observed, OnceInv, TypeOK
    <3>3. ev \notin todo'
      BY <2>2, <2>6, <3>1, <3>2 DEF Past
    <3>4. Past(ev, rng, seeded)'
      <4>1. CASE ~on  BY <2>1, <2>2, <2>6, <3>1, <4>1 DEF Past
      <4>2. CASE on /\ e # exe  BY <2>1, <2>2, <2>6, <3>1, <4>2 DEF Past
      <4>3. CASE on /\ e = exe
        BY <2>1, <2>2, <2>6, <3>1, <4>3 DEF Past, RangeFollows, Opens, GoesOn, Replaced
      <4>. QED  BY <4>1, <4>2, <4>3
    <3>. QED  BY <3>3, <3>4
  <2>7. ASSUME NEW ev \in Events, pushed[ev] # 0, ev.kind = "end"
        PROVE  Past(ev, rng, seeded)' /\ ev \notin todo'
    <3>1. ev.range \in Nat /\ ev.range <= exe /\ ev.range # None /\ Over(ev.range, rng)
      BY <2>7, LedgerAssumption DEF OnceInv, PastInv, Past, Events, RangeIds
    <3>2. ev \in todo' => ev.range = rng
      BY <2>1, <2>7 DEF RangeFollows, Opens, GoesOn, Replaced, Ends, Event
    <3>3. rng' \in {rng, None} \/ (on /\ rng' = e)
      BY <2>1 DEF RangeFollows, Opens, GoesOn, Replaced, Ends
    <3>4. Over(ev.range, rng)'
      BY <2>1, <2>2, <3>1, <3>3 DEF Over
    <3>. QED  BY <2>7, <3>1, <3>2, <3>4 DEF Past, Over
  <2>8. PastInv'
    BY <2>3, <2>5, <2>6, <2>7 DEF PastInv, Events
  <2>9. \A ev \in todo' : /\ ev.kind = "start" => rng' = ev.range
                          /\ ev.kind = "end" => Over(ev.range, rng)'
    <3>1. ASSUME NEW ev \in todo', ev.kind = "start"
          PROVE  rng' = ev.range
      BY <2>1, <3>1 DEF RangeFollows, Opens, GoesOn, Replaced, Ends, Event
    <3>2. ASSUME NEW ev \in todo', ev.kind = "end"
          PROVE  Over(ev.range, rng)'
      <4>1. ev.range = rng /\ rng # None /\ rng' # rng /\ (e > exe \/ ~on)
        BY <2>1, <3>2 DEF RangeFollows, Opens, GoesOn, Replaced, Ends, Event
      <4>2. rng \in Nat /\ rng <= exe
        BY <4>1 DEF OnceInv, KnownRanges, TypeOK, RangeIds
      <4>. QED  BY <2>1, <2>2, <4>1, <4>2 DEF Over
    <3>. QED  BY <3>1, <3>2
  <2>10. TodoInv'
    <3>1. \A ev \in todo' : pushed'[ev] = 0
      BY <1>0, <2>3, <2>6, <2>7 DEF TypeOK, Events
    <3>2. at' = IF todo' = {} THEN "final" ELSE "accept"
      BY <1>4 DEF Take
    <3>. QED  BY <2>9, <3>1, <3>2 DEF TodoInv, Over
  <2>. QED  BY <1>0, <2>4, <2>8, <2>10 DEF OnceInv
<1>5. CASE Accepted \/ AcceptFailed
  <2>1. disk' \in {disk, Payload}
    BY <1>5 DEF Accepted, AcceptFailed, Saved, SaveFailed
  <2>2. TodoInv'
    BY <1>5 DEF Accepted, AcceptFailed, OnceInv, TodoInv, Over
  <2>. QED  BY <1>0, <1>5, <2>1, <2>2, OnceKept DEF Accepted, AcceptFailed, OnceInv
<1>6. CASE Decline \/ Reserve
  <2>1. TodoInv'
    BY <1>6 DEF Decline, Reserve, OnceInv, TodoInv, Over, Current
  <2>. QED  BY <1>0, <1>6, <2>1, OnceKept DEF Decline, Reserve, OnceInv
<1>7. CASE Reserved
  <2>1. Current \in todo /\ Current \in Events
    BY <1>7, CurrentInTodo DEF Reserved, OnceInv, TodoInv, TypeOK
  <2>2. pushed[Current] = 0
    BY <1>7, <2>1 DEF Reserved, OnceInv, TodoInv
  <2>3. pushed' = [pushed EXCEPT ![Current] = 1]
    BY <1>7, <2>2 DEF Reserved, OnceInv, TypeOK
  <2>4. UNCHANGED <<exe, running, rng, seeded, todo>> /\ disk'.rng = rng /\ disk'.seeded = seeded
    BY <1>7 DEF Reserved, Saved, Payload
  <2>5. Current.range <= exe /\ Past(Current, rng, seeded)
    <3>1. CASE Current.kind = "start"
      BY <2>1, <3>1, LedgerAssumption
      DEF OnceInv, TodoInv, KnownRanges, Past, TypeOK, Events, RangeIds
    <3>2. CASE Current.kind = "end"
      BY <2>1, <3>2 DEF OnceInv, TodoInv, Past, Over, TypeOK, Events, RangeIds
    <3>. QED  BY <2>1, <3>1, <3>2 DEF Events
  <2>6. PastInv'
    <3>. SUFFICES ASSUME NEW ev \in Events, pushed'[ev] # 0
                  PROVE  /\ pushed'[ev] = 1 /\ ev.range <= exe
                         /\ Past(ev, rng, seeded)
      BY <2>4 DEF PastInv, Past, Over
    <3>1. CASE ev = Current  BY <2>1, <2>3, <2>5, <3>1 DEF OnceInv, TypeOK
    <3>2. CASE ev # Current  BY <2>3, <3>2 DEF OnceInv, PastInv, TypeOK
    <3>. QED  BY <3>1, <3>2
  <2>7. TodoInv'
    <3>1. Current' = Current  BY <2>4 DEF Current
    <3>2. at' = "call"  BY <1>7 DEF Reserved
    <3>. QED  BY <1>7, <2>1, <2>3, <2>4, <3>1, <3>2 DEF Reserved, OnceInv, TodoInv, Over, TypeOK
  <2>8. KnownRanges'
    BY <2>4 DEF OnceInv, KnownRanges
  <2>. QED  BY <1>0, <2>6, <2>7, <2>8 DEF OnceInv
<1>8. CASE NotReserved \/ Settled
  <2>1. disk' \in {disk, Payload}
    BY <1>8 DEF NotReserved, Settled, Saved, SaveFailed
  <2>2. TodoInv'
    BY <1>8 DEF NotReserved, Settled, OnceInv, TodoInv, Over
  <2>. QED  BY <1>0, <1>8, <2>1, <2>2, OnceKept DEF NotReserved, Settled, OnceInv
<1>9. CASE ProviderReturns
  <2>1. TodoInv'
    BY <1>9 DEF ProviderReturns, OnceInv, TodoInv, Over, Current
  <2>. QED  BY <1>0, <1>9, <2>1, OnceKept DEF ProviderReturns, OnceInv
<1>10. CASE Delivered
  <2>1. TodoInv'
    BY <1>10 DEF Delivered, OnceInv, TodoInv
  <2>. QED  BY <1>0, <1>10, <2>1, OnceKept DEF Delivered, OnceInv
<1>11. CASE Restart
  <2>1. \/ disk'.rng = disk.rng /\ disk'.seeded = disk.seeded
        \/ disk'.rng = rng /\ disk'.seeded = seeded
    BY <1>11 DEF Restart, Payload
  <2>2. PastInv'
    BY <1>11, <2>1, LedgerAssumption DEF Restart, OnceInv, PastInv, Past, Over, Events
  <2>3. KnownRanges'
    BY <1>11, <2>1 DEF Restart, OnceInv, KnownRanges
  <2>4. TodoInv'
    BY <1>11 DEF Restart, TodoInv
  <2>. QED  BY <1>0, <2>2, <2>3, <2>4 DEF OnceInv
<1>12. CASE Tick
  <2>1. disk'.rng = disk.rng /\ disk'.seeded = disk.seeded
    BY <1>12 DEF Tick, OnceInv, TypeOK, Ledgers
  <2>2. TodoInv'
    BY <1>12 DEF Tick, OnceInv, TodoInv, Over, Current
  <2>. QED  BY <1>0, <1>12, <2>1, <2>2, OnceKept DEF Tick, OnceInv
<1>13. CASE UNCHANGED vars
  <2>1. TodoInv'
    BY <1>13 DEF vars, OnceInv, TodoInv, Over, Current
  <2>. QED  BY <1>0, <1>13, <2>1, OnceKept DEF vars, OnceInv
<1>. QED
  BY <1>1, <1>2, <1>3, <1>4, <1>5, <1>6, <1>7, <1>8, <1>9, <1>10, <1>11, <1>12, <1>13
  DEF Next, Work

LEMMA OnceInit == Init => OnceInv
<1>. SUFFICES ASSUME Init PROVE OnceInv
  OBVIOUS
<1>1. TypeOK  BY TypeInit
<1>2. TodoInv /\ PastInv /\ KnownRanges
  BY DEF Init, TodoInv, PastInv, KnownRanges, Empty
<1>. QED  BY <1>1, <1>2 DEF OnceInv

\* The provider is called at most once for a START or an END, through failed
\* saves, ambiguous answers, restarts and unreadable ledgers.
THEOREM PushedOnce == Spec => []AtMostOnePush
<1>1. Init => OnceInv  BY OnceInit
<1>2. OnceInv => AtMostOnePush
  BY DEF OnceInv, PastInv, AtMostOnePush, TypeOK
<1>. QED  BY <1>1, <1>2, OnceStep, PTL DEF Spec

-----------------------------------------------------------------------------
(* The budget.                                                             *)

\* Every call that counts was charged, as recently; or the ledger was lost, and
\* the whole budget was charged since.
Charged(c, s) ==
    \/ \A ev \in Events : s[ev] < Window => c[ev] <= s[ev]
    \/ \A l \in Lost : /\ c[l] < Window
                      /\ \A ev \in Events : s[ev] < Window => c[l] <= s[ev]
InBudget(c) == Cardinality(Spent(c)) <= MaxStarts
BudgetInv ==
    /\ at # "off" => Charged(charged, since)
    /\ Charged(disk.charged, since)
    /\ InBudget(charged) /\ InBudget(disk.charged)
    /\ WithinBudget

\* There are finitely many charges, and as many for a lost ledger as the budget has.
LEMMA LostSize == IsFiniteSet(Lost) /\ Cardinality(Lost) = MaxStarts
<1>. DEFINE f == [i \in 1..MaxStarts |-> [range |-> i, kind |-> "lost"]]
<1>1. f \in Bijection(1..MaxStarts, Lost)
  <2>1. f \in Injection(1..MaxStarts, Lost)
    <3>1. \A i \in 1..MaxStarts : f[i] \in Lost  BY DEF Lost
    <3>2. \A i, j \in 1..MaxStarts : f[i] = f[j] => i = j
      <4>. SUFFICES ASSUME NEW i \in 1..MaxStarts, NEW j \in 1..MaxStarts, f[i] = f[j]
                    PROVE  i = j
        OBVIOUS
      <4>1. f[i].range = f[j].range  OBVIOUS
      <4>. QED  BY <4>1
    <3>. QED  BY <3>1, <3>2 DEF Injection, IsInjective
  <2>2. \A l \in Lost : \E i \in 1..MaxStarts : f[i] = l  BY DEF Lost
  <2>. QED  BY <2>1, <2>2 DEF Bijection, Surjection, Injection
<1>2. IsFiniteSet(1..MaxStarts) /\ Cardinality(1..MaxStarts) = MaxStarts
  BY FS_Interval, LedgerAssumption
<1>. QED  BY <1>1, <1>2, FS_Bijection DEF ExistsBijection

LEMMA ChargesFinite == IsFiniteSet(Events) /\ IsFiniteSet(Charges)
<1>. DEFINE S == {Event(r, "start") : r \in RangeIds}
            E == {Event(r, "end") : r \in RangeIds}
            s == [r \in RangeIds |-> Event(r, "start")]
            e == [r \in RangeIds |-> Event(r, "end")]
<1>1. IsFiniteSet(RangeIds)
  BY FS_Interval, LedgerAssumption DEF RangeIds
<1>2. s \in Surjection(RangeIds, S) /\ e \in Surjection(RangeIds, E)
  BY DEF Surjection
<1>3. IsFiniteSet(S) /\ IsFiniteSet(E)
  BY <1>1, <1>2, FS_Surjection
<1>4. Events = S \cup E
  <2>1. Events \subseteq S \cup E
    <3>. SUFFICES ASSUME NEW ev \in Events PROVE ev \in S \cup E
      OBVIOUS
    <3>1. ev.range \in RangeIds /\ ev \in {Event(ev.range, "start"), Event(ev.range, "end")}
      BY DEF Events, Event
    <3>. QED  BY <3>1
  <2>2. S \cup E \subseteq Events  BY DEF Events, Event
  <2>. QED  BY <2>1, <2>2
<1>. QED  BY <1>3, <1>4, LostSize, FS_Union DEF Charges

LEMMA SpentFinite == \A c : IsFiniteSet(Spent(c))
BY ChargesFinite, FS_Subset DEF Spent

\* Time gives charges back and takes none.
LEMMA BudgetOlder ==
    ASSUME NEW c \in [Charges -> Ages], InBudget(c)
    PROVE  InBudget(Older(c))
<1>1. Spent(Older(c)) \subseteq Spent(c)
  BY LedgerAssumption DEF Spent, Older, Ages
<1>2. /\ Cardinality(Spent(Older(c))) <= Cardinality(Spent(c))
      /\ Cardinality(Spent(Older(c))) \in Nat /\ Cardinality(Spent(c)) \in Nat
  BY <1>1, SpentFinite, FS_Subset, FS_CardinalityType
<1>. QED  BY <1>2, LedgerAssumption DEF InBudget

\* Time passes for the charges and the calls alike.
LEMMA ChargedOlder ==
    ASSUME NEW c \in [Charges -> Ages], NEW s \in [Events -> Ages], Charged(c, s)
    PROVE  Charged(Older(c), Older(s))
<1>. DEFINE o == Older(c)
            t == Older(s)
<1>1. \A x \in Charges : o[x] = IF c[x] < Window THEN c[x] + 1 ELSE Window
  BY DEF Older
<1>2. \A ev \in Events : t[ev] = IF s[ev] < Window THEN s[ev] + 1 ELSE Window
  BY DEF Older
<1>3. /\ \A x \in Charges : c[x] \in 0..Window
      /\ \A ev \in Events : s[ev] \in 0..Window
      /\ Events \subseteq Charges /\ Lost \subseteq Charges /\ Window \in Nat
  BY LedgerAssumption DEF Ages, Charges
<1>4. Charged(o, t)
  <2>. HIDE DEF o, t
  <2>1. CASE \A ev \in Events : s[ev] < Window => c[ev] <= s[ev]
    BY <1>1, <1>2, <1>3, <2>1 DEF Charged
  <2>2. CASE /\ \A l \in Lost : /\ c[l] < Window
                              /\ \A ev \in Events : s[ev] < Window => c[l] <= s[ev]
             /\ \A l \in Lost : o[l] < Window
    BY <1>1, <1>2, <1>3, <2>2 DEF Charged
  <2>3. ASSUME NEW l \in Lost, c[l] < Window, ~(o[l] < Window),
               \A ev \in Events : s[ev] < Window => c[l] <= s[ev]
        PROVE  \A ev \in Events : ~(t[ev] < Window)
    BY <1>1, <1>2, <1>3, <2>3
  <2>. QED  BY <2>1, <2>2, <2>3 DEF Charged
<1>. QED  BY <1>4

\* So much of the budget is spent that every call fits in.
LEMMA CallsFit ==
    ASSUME NEW c, NEW s, InBudget(c),
           \A ev \in Events : s[ev] < Window => c[ev] <= s[ev],
           \A ev \in Events : c[ev] \in Ages /\ s[ev] \in Ages
    PROVE  Cardinality({ev \in Events : s[ev] < Window}) <= MaxStarts
<1>. DEFINE S == {ev \in Events : s[ev] < Window}
<1>1. S \subseteq Spent(c)
  BY LedgerAssumption DEF Spent, Charges, Ages
<1>2. Cardinality(S) <= Cardinality(Spent(c)) /\ Cardinality(S) \in Nat /\ Cardinality(Spent(c)) \in Nat
  BY <1>1, SpentFinite, FS_Subset, FS_CardinalityType
<1>. QED  BY <1>2, LedgerAssumption DEF InBudget

\* A charge fits in only if the ledger was not lost since.
LEMMA NotLost ==
    ASSUME NEW c, NEW ev \in Events, c[ev] < Window, InBudget(c)
    PROVE  ~ \A l \in Lost : c[l] < Window
<1>. SUFFICES ASSUME \A l \in Lost : c[l] < Window PROVE FALSE
  OBVIOUS
<1>1. ev \notin Lost
  BY DEF Events, Lost
<1>2. Lost \cup {ev} \subseteq Spent(c)
  BY DEF Spent, Charges
<1>3. Cardinality(Lost \cup {ev}) = MaxStarts + 1 /\ IsFiniteSet(Lost \cup {ev})
  BY <1>1, LostSize, FS_AddElement
<1>4. MaxStarts + 1 <= Cardinality(Spent(c)) /\ Cardinality(Spent(c)) \in Nat
  BY <1>2, <1>3, SpentFinite, FS_Subset, FS_CardinalityType
<1>. QED  BY <1>4, LedgerAssumption DEF InBudget

\* A save stores what is in memory or leaves the Store as it was.
LEMMA BudgetKept ==
    ASSUME TypeOK, BudgetInv, at # "off", UNCHANGED <<charged, since>>,
           disk' \in {disk, Payload}
    PROVE  BudgetInv'
BY DEF BudgetInv, Payload, WithinBudget, Recently

LEMMA BudgetStep == TypeOK /\ TodoInv /\ BudgetInv /\ [Next]_vars => BudgetInv'
<1>. SUFFICES ASSUME TypeOK, TodoInv, BudgetInv, [Next]_vars PROVE BudgetInv'
  OBVIOUS
<1>0. TypeOK'  BY TypeStep
<1>. USE DEF model, history
<1>1. CASE Initialize
  BY <1>1 DEF Initialize, BudgetInv, WithinBudget, Recently
<1>2. CASE InitializeUnreadable
  <2>1. Charged(charged', since)
    BY <1>2, LedgerAssumption DEF InitializeUnreadable, Charged, Charges, TypeOK, Ages
  <2>2. Spent(charged') = Lost
    BY <1>2, LedgerAssumption DEF InitializeUnreadable, Spent, Charges
  <2>3. InBudget(charged')
    BY <2>2, LostSize, LedgerAssumption DEF InBudget
  <2>. QED  BY <1>2, <2>1, <2>3 DEF InitializeUnreadable, BudgetInv, WithinBudget, Recently
<1>3. CASE Initialized \/ Accepted \/ AcceptFailed \/ NotReserved \/ Settled \/ Finished
  BY <1>3, BudgetKept
  DEF Initialized, Accepted, AcceptFailed, NotReserved, Settled, Finished, Saved, SaveFailed
<1>4. CASE Take \/ Decline \/ ProviderReturns \/ Delivered
  BY <1>4, BudgetKept DEF Take, Decline, ProviderReturns, Delivered
<1>5. CASE Reserve
  <2>1. CASE ~Limited(Current)
    BY <1>5, <2>1, BudgetKept DEF Reserve
  <2>2. CASE Limited(Current)
    <3>1. Current \in Events
      BY <1>5, CurrentInTodo DEF Reserve, TypeOK
    <3>2. /\ charged' = [charged EXCEPT ![Current] = 0] /\ UNCHANGED <<since, disk>>
          /\ at # "off" /\ Cardinality(Spent(charged)) < MaxStarts
      BY <1>5, <2>2 DEF Reserve
    <3>3. \A c \in Charges : charged'[c] = IF c = Current THEN 0 ELSE charged[c]
      BY <3>2 DEF TypeOK
    <3>4. Charged(charged', since)
      <4>1. Current \notin Lost /\ Events \subseteq Charges /\ Lost \subseteq Charges
        BY <3>1 DEF Events, Lost, Charges
      <4>2. \A ev \in Events : since[ev] \in 0..Window
        BY DEF TypeOK, Ages
      <4>. QED  BY <3>2, <3>3, <4>1, <4>2 DEF BudgetInv, Charged
    <3>5. InBudget(charged')
      <4>1. Spent(charged') \subseteq Spent(charged) \cup {Current}
        BY <3>3 DEF Spent
      <4>2. /\ Cardinality(Spent(charged')) <= Cardinality(Spent(charged) \cup {Current})
            /\ Cardinality(Spent(charged) \cup {Current}) <= Cardinality(Spent(charged)) + 1
            /\ Cardinality(Spent(charged')) \in Nat /\ Cardinality(Spent(charged)) \in Nat
            /\ Cardinality(Spent(charged) \cup {Current}) \in Nat
        BY <4>1, SpentFinite, FS_AddElement, FS_Subset, FS_CardinalityType
      <4>. QED  BY <3>2, <4>2, LedgerAssumption DEF InBudget
    <3>. QED  BY <3>2, <3>4, <3>5 DEF BudgetInv, WithinBudget, Recently
  <2>. QED  BY <2>1, <2>2
<1>6. CASE Reserved
  <2>1. Current \in Events
    BY <1>6, CurrentInTodo DEF Reserved, TodoInv, TypeOK
  <2>2. UNCHANGED charged /\ disk'.charged = charged /\ at # "off"
    BY <1>6 DEF Reserved, Saved, Payload
  <2>3. CASE ~Limited(Current)
    BY <1>6, <2>2, <2>3 DEF Reserved, BudgetInv, WithinBudget, Recently
  <2>4. CASE Limited(Current)
    <3>1. \A ev \in Events : since'[ev] = IF ev = Current THEN charged[ev] ELSE since[ev]
      BY <1>6, <2>4 DEF Reserved, TypeOK
    <3>2. \A ev \in Events : charged[ev] \in 0..Window /\ since[ev] \in 0..Window
      BY DEF TypeOK, Ages, Charges
    <3>3. CASE \A ev \in Events : since[ev] < Window => charged[ev] <= since[ev]
      <4>1. \A ev \in Events : since'[ev] < Window => charged[ev] <= since'[ev]
        BY <3>1, <3>2, <3>3
      <4>2. InBudget(charged)  BY DEF BudgetInv
      <4>3. Cardinality({ev \in Events : since'[ev] < Window}) <= MaxStarts
        BY <3>1, <3>2, <4>1, <4>2, CallsFit DEF Ages
      <4>. QED  BY <2>2, <4>1, <4>2, <4>3 DEF BudgetInv, Charged, WithinBudget, Recently
    <3>4. CASE ~ \A ev \in Events : since[ev] < Window => charged[ev] <= since[ev]
      <4>1. \A l \in Lost : /\ charged[l] < Window
                           /\ \A ev \in Events : since[ev] < Window => charged[l] <= since[ev]
        BY <2>2, <3>4 DEF BudgetInv, Charged
      <4>2. ~(charged[Current] < Window)
        BY <2>1, <4>1, NotLost DEF BudgetInv
      <4>3. \A ev \in Events : since'[ev] < Window => since[ev] < Window /\ since'[ev] = since[ev]
        BY <3>1, <4>2
      <4>4. Charged(charged, since')
        BY <4>1, <4>3 DEF Charged
      <4>5. Recently' \subseteq Recently
        BY <4>3 DEF Recently
      <4>6. Cardinality(Recently') <= Cardinality(Recently) /\ Cardinality(Recently') \in Nat
            /\ Cardinality(Recently) \in Nat
        BY <4>5, ChargesFinite, FS_Subset, FS_CardinalityType DEF Recently
      <4>. QED  BY <2>2, <4>4, <4>6, LedgerAssumption DEF BudgetInv, WithinBudget
    <3>. QED  BY <3>3, <3>4
  <2>. QED  BY <2>3, <2>4
<1>7. CASE Restart
  <2>1. /\ UNCHANGED since /\ charged' = NoCharges /\ at' = "off" /\ at # "off"
        /\ disk'.charged \in {disk.charged, charged}
    BY <1>7 DEF Restart, Payload
  <2>2. Spent(NoCharges) = {}
    BY LedgerAssumption DEF Spent, NoCharges
  <2>3. InBudget(NoCharges)
    BY <2>2, FS_EmptySet, LedgerAssumption DEF InBudget
  <2>. QED  BY <2>1, <2>3 DEF BudgetInv, WithinBudget, Recently
<1>8. CASE Tick
  <2>1. /\ charged' = Older(charged) /\ since' = Older(since) /\ UNCHANGED at
        /\ disk'.charged = Older(disk.charged)
    BY <1>8 DEF Tick, TypeOK, Ledgers
  <2>2. at # "off" => Charged(charged', since')
    BY <2>1, ChargedOlder DEF BudgetInv, TypeOK
  <2>3. InBudget(charged') /\ InBudget(disk'.charged)
    BY <2>1, BudgetOlder DEF BudgetInv, TypeOK, Ledgers
  <2>4. Charged(disk'.charged, since')
    BY <2>1, ChargedOlder DEF BudgetInv, TypeOK, Ledgers
  <2>5. Recently' \subseteq Recently
    BY <2>1, LedgerAssumption DEF Recently, Older, TypeOK, Ages
  <2>6. /\ Cardinality(Recently') <= Cardinality(Recently)
        /\ Cardinality(Recently') \in Nat /\ Cardinality(Recently) \in Nat
    BY <2>5, ChargesFinite, FS_Subset, FS_CardinalityType DEF Recently
  <2>7. WithinBudget'
    BY <2>6, LedgerAssumption DEF BudgetInv, WithinBudget
  <2>. QED  BY <2>1, <2>2, <2>3, <2>4, <2>7 DEF BudgetInv
<1>9. CASE UNCHANGED vars
  BY <1>9 DEF vars, BudgetInv, WithinBudget, Recently
<1>. QED
  BY <1>1, <1>2, <1>3, <1>4, <1>5, <1>6, <1>7, <1>8, <1>9 DEF Next, Work

\* Of the policies that push their starts only, at most MaxStarts calls are
\* charged within any Window, through restarts, failed saves and lost ledgers.
THEOREM BudgetHolds == Spec => []WithinBudget
<1>1. Init => OnceInv /\ BudgetInv
  <2>. SUFFICES ASSUME Init PROVE OnceInv /\ BudgetInv
    OBVIOUS
  <2>1. Spent(NoCharges) = {}
    BY LedgerAssumption DEF Spent, NoCharges
  <2>2. Recently = {}
    BY LedgerAssumption DEF Init, Recently
  <2>3. InBudget(NoCharges) /\ WithinBudget
    BY <2>1, <2>2, FS_EmptySet, LedgerAssumption DEF InBudget, WithinBudget
  <2>4. Charged(NoCharges, since)
    BY LedgerAssumption DEF Init, Charged
  <2>5. BudgetInv
    BY <2>3, <2>4 DEF Init, Empty, BudgetInv
  <2>. QED  BY <2>5, OnceInit
<1>2. OnceInv /\ BudgetInv /\ [Next]_vars => OnceInv' /\ BudgetInv'
  BY OnceStep, BudgetStep DEF OnceInv
<1>3. BudgetInv => WithinBudget
  BY DEF BudgetInv
<1>. QED  BY <1>1, <1>2, <1>3, PTL DEF Spec
-----------------------------------------------------------------------------
(* No event is left undecided.                                             *)

\* What is pending is still to be delivered, only the current event is being sent,
\* and one whose outcome is being saved has come to its end.
DecidedInv ==
    /\ \A ev \in Events : recent[ev] = "pending" => ev \in todo
    /\ \A ev \in Events : recent[ev] = "sending" => ev = Current /\ at \in {"reserve", "call"}
    /\ at = "settle" => recent[Current] = "done"

\* To mark the current event is to change that event only.
LEMMA MarkedOne ==
    ASSUME TypeOK, TodoInv, at \in {"deliver", "reserve", "call"}, todo # {}, NEW state
    PROVE  /\ Current \in Events
           /\ \A ev \in Events : Marked(Current, state)[ev]
                                   = IF ev = Current THEN state ELSE recent[ev]
<1>1. Current \in Events
  BY CurrentInTodo DEF TypeOK
<1>. QED  BY <1>1 DEF Marked, TypeOK

LEMMA DecidedStep == TypeOK /\ TodoInv /\ DecidedInv /\ [Next]_vars => DecidedInv'
<1>. SUFFICES ASSUME TypeOK, TodoInv, DecidedInv, [Next]_vars PROVE DecidedInv'
  OBVIOUS
<1>. USE DEF model, history
<1>1. CASE Initialize
  <2>1. \A ev \in Events : recent'[ev] \in {"none", "done"}
    BY <1>1 DEF Initialize, GivenUp
  <2>. QED  BY <1>1, <2>1 DEF Initialize, DecidedInv
<1>2. CASE InitializeUnreadable
  <2>1. \A ev \in Events : recent'[ev] = "none"
    BY <1>2 DEF InitializeUnreadable, NoEvents
  <2>. QED  BY <1>2, <2>1 DEF InitializeUnreadable, DecidedInv
<1>3. CASE Initialized \/ Finished \/ Delivered \/ Tick \/ UNCHANGED vars
  <2>1. UNCHANGED <<recent, todo>> /\ (at' = at \/ (at \in {"init", "final", "deliver"}
                                                   /\ at' \in {"idle", "final"}))
    BY <1>3 DEF Initialized, Finished, Delivered, Tick, vars
  <2>. QED  BY <2>1 DEF DecidedInv, Current
<1>4. CASE Take
  <2>1. \A ev \in Events : recent[ev] \in {"none", "done"}
    BY <1>4 DEF Take, TodoInv, DecidedInv, TypeOK, DeliveryStates
  <2>2. \A ev \in Events : /\ recent'[ev] = "pending" => ev \in todo'
                           /\ recent'[ev] # "sending"
    BY <1>4, <2>1 DEF Take
  <2>. QED  BY <1>4, <2>2 DEF Take, DecidedInv
<1>5. CASE Accepted
  BY <1>5 DEF Accepted, DecidedInv
<1>6. CASE AcceptFailed
  <2>1. \A ev \in Events : recent'[ev] \in {"none", "done"}
    BY <1>6 DEF AcceptFailed, DecidedInv, TypeOK, DeliveryStates
  <2>. QED  BY <1>6, <2>1 DEF AcceptFailed, DecidedInv
<1>7. CASE Decline \/ Reserve
  <2>1. at = "deliver" /\ todo # {} /\ todo' = todo /\ Current' = Current
    BY <1>7 DEF Decline, Reserve, Current
  <2>2. CASE Decline
    BY <2>1, <2>2, MarkedOne DEF Decline, DecidedInv
  <2>3. CASE Reserve
    BY <2>1, <2>3, MarkedOne DEF Reserve, DecidedInv
  <2>. QED  BY <1>7, <2>2, <2>3
<1>8. CASE Reserved
  <2>1. Current' = Current
    BY <1>8 DEF Reserved, Current
  <2>. QED  BY <1>8, <2>1 DEF Reserved, DecidedInv
<1>9. CASE NotReserved
  <2>1. todo # {}
    BY <1>9 DEF NotReserved, TodoInv
  <2>. QED  BY <1>9, <2>1, MarkedOne DEF NotReserved, DecidedInv
<1>10. CASE ProviderReturns
  <2>1. todo # {} /\ Current' = Current
    BY <1>10 DEF ProviderReturns, TodoInv, Current
  <2>. QED  BY <1>10, <2>1, MarkedOne DEF ProviderReturns, DecidedInv
<1>11. CASE Settled
  BY <1>11 DEF Settled, DecidedInv
<1>12. CASE Restart
  <2>1. \A ev \in Events : recent'[ev] = "none"
    BY <1>12 DEF Restart, NoEvents
  <2>. QED  BY <1>12, <2>1 DEF Restart, DecidedInv
<1>. QED
  BY <1>1, <1>2, <1>3, <1>4, <1>5, <1>6, <1>7, <1>8, <1>9, <1>10, <1>11, <1>12
  DEF Next, Work

\* When the worker waits for the next observation every event it knows of has come
\* to a final state, one that a restart or a failed save interrupted, too.
THEOREM EventsDecided == Spec => []AllDecided
<1>1. Init => OnceInv /\ DecidedInv
  <2>. SUFFICES ASSUME Init PROVE OnceInv /\ DecidedInv
    OBVIOUS
  <2>1. \A ev \in Events : recent[ev] = "none"
    BY DEF Init, NoEvents
  <2>. QED  BY <2>1, OnceInit DEF Init, DecidedInv
<1>2. OnceInv /\ DecidedInv /\ [Next]_vars => OnceInv' /\ DecidedInv'
  BY OnceStep, DecidedStep DEF OnceInv
<1>3. OnceInv /\ DecidedInv => AllDecided
  BY DEF OnceInv, TodoInv, DecidedInv, AllDecided
<1>. QED  BY <1>1, <1>2, <1>3, PTL DEF Spec


-----------------------------------------------------------------------------
(* Execution ranges (ExecutionRanges).                                     *)

\* What cannot be undone: the transaction is past executing; it was restored.
Ended(t) == t < tx \/ (t = tx /\ phase \in {"stopping", "failed", "restored"})
Released(t) == t < tx \/ (t = tx /\ phase = "restored")
Final(o) == o.conf \/ o.fail

\* An observation is true of its transaction.
Faithful(o) ==
    /\ o.tx <= tx /\ ~(o.exec /\ Final(o))
    /\ o.exec \/ Final(o) => o.tx # 0
    /\ o.exec => o.pol \in Policies /\ (o.tx = tx => o.pol = owner)
    /\ o.fail => Ended(o.tx)
    /\ o.conf => Released(o.tx)

\* So is a range, which is known only to a model that was initialized.
RangeSound(r, known) ==
    r # Absent =>
        /\ known /\ ~r.fail
        /\ \A t \in r.txs : t <= tx /\ (t = tx => r.pol = owner)
        /\ r.conf => r.gap # Absent /\ \A t \in r.txs : Released(t)

\* What executed is observed in order, by the policy it was of ...
InOrder(q) ==
    \A i, j \in 1..Len(q) : q[i].exec /\ q[j].exec =>
        /\ i < j => q[i].tx <= q[j].tx
        /\ q[i].tx = q[j].tx => q[i].pol = q[j].pol
\* ... and after what the range has.
After(q, r) ==
    \A i \in 1..Len(q) : q[i].exec /\ r # Absent =>
        /\ \A t \in r.txs : t <= q[i].tx
        /\ q[i].tx \in r.txs => q[i].pol = r.pol
        /\ r.conf => q[i].tx \notin r.txs

\* The end of a transaction is observed after its executions ...
EndsLast(q) ==
    \A i, j \in 1..Len(q) : Final(q[i]) /\ q[j].exec /\ i < j => q[i].tx < q[j].tx
\* ... and before those of the next, or it is the repetition of one that the range
\* model has dealt with.
DealtWith(o, r) == r = Absent \/ r.conf \/ o.tx \notin r.txs
Fresh(o, q, before, r) ==
    /\ \A i \in before : q[i].exec => q[i].tx <= o.tx
    /\ r # Absent => \A t \in r.txs : t <= o.tx
Repeated(o, q, before, r) ==
    /\ DealtWith(o, r)
    /\ \A i \in before : q[i].exec => q[i].tx # o.tx
EndsCome(q, r) ==
    \A j \in 1..Len(q) : Final(q[j]) =>
        Fresh(q[j], q, 1..(j - 1), r) \/ Repeated(q[j], q, 1..(j - 1), r)
QueueInv(q, r) == InOrder(q) /\ After(q, r) /\ EndsLast(q) /\ EndsCome(q, r)

\* The last observation taken, which the timer of a gap may repeat.
LastInv(o, q, r) ==
    o # Absent /\ Final(o) =>
        DealtWith(o, r) /\ \A i \in 1..Len(q) : q[i].exec => o.tx < q[i].tx

\* The END reported last.
EndSound(e) ==
    e # Absent =>
        /\ \A t \in e.txs : Ended(t)
        /\ e.outcome # "unconfirmed" => \A t \in e.txs : Released(t)

RangesTyped ==
    /\ tx \in 0..MaxTx /\ owner \in Policies \cup {Absent} /\ phase \in Phases
    /\ observations \in Seq(Observations) /\ Len(observations) <= MaxQueued
    /\ last \in Observations \cup {Absent} /\ busy \in BOOLEAN /\ (busy => last # Absent)
    /\ active \in Ranges \cup {Absent} /\ initialized \in BOOLEAN
    /\ rangeStore \in [active : Ranges \cup {Absent}, initialized : BOOLEAN]
    /\ end \in EndReports \cup {Absent}
    /\ phase = "none" <=> tx = 0
    /\ phase # "none" => owner \in Policies
ObservationsTrue ==
    /\ \A i \in 1..Len(observations) : Faithful(observations[i])
    /\ last # Absent => Faithful(last)
RangesTrue ==
    /\ RangeSound(active, initialized)
    /\ RangeSound(rangeStore.active, rangeStore.initialized)
RangesInv ==
    /\ RangesTyped /\ ObservationsTrue /\ RangesTrue
    /\ QueueInv(observations, active) /\ LastInv(last, observations, active)
    /\ EndSound(end)

(* The queue and the records.                                              *)

\* q is made of observations of s in their order, whatever their age.
Alike(o, p) ==
    o.tx = p.tx /\ o.pol = p.pol /\ o.exec = p.exec /\ o.conf = p.conf /\ o.fail = p.fail
Within(q, s) ==
    \E f \in [1..Len(q) -> 1..Len(s)] :
        /\ \A i \in 1..Len(q) : Alike(q[i], s[f[i]])
        /\ \A i, j \in 1..Len(q) : i < j => f[i] < f[j]

LEMMA WithinKeeps ==
    ASSUME NEW q, NEW s, NEW r, Within(q, s), Len(q) \in Nat, Len(s) \in Nat
    PROVE  /\ QueueInv(s, r) => QueueInv(q, r)
           /\ \A o : LastInv(o, s, r) => LastInv(o, q, r)
           /\ (\A i \in 1..Len(s) : Faithful(s[i])) => \A i \in 1..Len(q) : Faithful(q[i])
<1>1. PICK f \in [1..Len(q) -> 1..Len(s)] :
        /\ \A i \in 1..Len(q) : Alike(q[i], s[f[i]])
        /\ \A i, j \in 1..Len(q) : i < j => f[i] < f[j]
  BY DEF Within
<1>2. InOrder(s) => InOrder(q)
  BY <1>1 DEF InOrder, Alike
<1>3. After(s, r) => After(q, r)
  BY <1>1 DEF After, Alike
<1>4. EndsLast(s) => EndsLast(q)
  BY <1>1 DEF EndsLast, Alike, Final
<1>5. EndsCome(s, r) => EndsCome(q, r)
  <2>. SUFFICES ASSUME EndsCome(s, r), NEW j \in 1..Len(q), Final(q[j])
                PROVE  Fresh(q[j], q, 1..(j - 1), r) \/ Repeated(q[j], q, 1..(j - 1), r)
    BY DEF EndsCome
  <2>1. f[j] \in 1..Len(s) /\ Final(s[f[j]]) /\ q[j].tx = s[f[j]].tx
    BY <1>1 DEF Alike, Final
  <2>2. \A i \in 1..(j - 1) : f[i] \in 1..(f[j] - 1) /\ i \in 1..Len(q) /\ Alike(q[i], s[f[i]])
    BY <1>1
  <2>3. CASE Fresh(s[f[j]], s, 1..(f[j] - 1), r)
    BY <2>1, <2>2, <2>3 DEF Fresh, Alike
  <2>4. CASE Repeated(s[f[j]], s, 1..(f[j] - 1), r)
    <3>1. DealtWith(q[j], r)
      BY <2>1, <2>4 DEF Repeated, DealtWith
    <3>2. \A i \in 1..(j - 1) : q[i].exec => q[i].tx # q[j].tx
      BY <2>1, <2>2, <2>4 DEF Repeated, Alike
    <3>. QED  BY <3>1, <3>2 DEF Repeated
  <2>. QED  BY <2>1, <2>3, <2>4 DEF EndsCome
<1>6. \A o : LastInv(o, s, r) => LastInv(o, q, r)
  BY <1>1 DEF LastInv, Alike
<1>7. (\A i \in 1..Len(s) : Faithful(s[i])) => \A i \in 1..Len(q) : Faithful(q[i])
  BY <1>1 DEF Faithful, Alike, Final
<1>. QED  BY <1>2, <1>3, <1>4, <1>5, <1>6, <1>7 DEF QueueInv

LEMMA SubSeqIs ==
    ASSUME NEW S, NEW s \in Seq(S), NEW m \in 1..(Len(s) + 1), NEW n \in 0..Len(s), m <= n + 1
    PROVE  /\ SubSeq(s, m, n) \in Seq(S) /\ Len(SubSeq(s, m, n)) = n - m + 1
           /\ \A i \in 1..(n - m + 1) : SubSeq(s, m, n)[i] = s[m + i - 1]
OBVIOUS

LEMMA RestIs ==
    ASSUME NEW S, NEW s \in Seq(S), NEW k \in 1..Len(s)
    PROVE  LET b == SubSeq(s, k + 1, Len(s))
           IN /\ b \in Seq(S) /\ Len(b) = Len(s) - k
              /\ \A i \in 1..(Len(s) - k) : b[i] = s[k + i]
<1>1. k + 1 \in 1..(Len(s) + 1) /\ Len(s) \in 0..Len(s) /\ k + 1 <= Len(s) + 1
  OBVIOUS
<1>. DEFINE m == k + 1
            n == Len(s)
<1>. HIDE DEF m, n
<1>2. m \in 1..(Len(s) + 1) /\ n \in 0..Len(s) /\ m <= n + 1
  BY <1>1 DEF m, n
<1>3. /\ SubSeq(s, m, n) \in Seq(S) /\ Len(SubSeq(s, m, n)) = n - m + 1
      /\ \A i \in 1..(n - m + 1) : SubSeq(s, m, n)[i] = s[m + i - 1]
  BY <1>2, SubSeqIs
<1>4. n - m + 1 = n - k /\ \A i \in 1..(n - k) : m + i - 1 = k + i
  BY DEF m, n
<1>5. /\ SubSeq(s, m, n) \in Seq(S) /\ Len(SubSeq(s, m, n)) = n - k
      /\ \A i \in 1..(n - k) : SubSeq(s, m, n)[i] = s[k + i]
  BY <1>3, <1>4
<1>. QED  BY <1>5 DEF m, n

LEMMA RemovedWithin ==
    ASSUME observations \in Seq(Observations), NEW o \in Observations,
           NEW k \in 1..Len(observations)
    PROVE  LET q == Append(RemoveAt(observations, k), o)
           IN /\ q \in Seq(Observations) /\ Len(q) = Len(observations)
              /\ Within(q, Append(observations, o))
<1>. DEFINE n == Len(observations)
            p == RemoveAt(observations, k)
            q == Append(p, o)
            s == Append(observations, o)
<1>1. /\ p \in Seq(Observations) /\ Len(p) = n - 1
      /\ \A i \in 1..(n - 1) : p[i] = IF i < k THEN observations[i] ELSE observations[i + 1]
  <2>. DEFINE a == SubSeq(observations, 1, k - 1)
              b == SubSeq(observations, k + 1, n)
  <2>1. a \in Seq(Observations) /\ Len(a) = k - 1 /\ \A i \in 1..(k - 1) : a[i] = observations[i]
    BY SubSeqProperties
  <2>2. b \in Seq(Observations) /\ Len(b) = n - k
        /\ \A i \in 1..(n - k) : b[i] = observations[k + i]
    BY RestIs
  <2>3. p = a \o b
    BY DEF RemoveAt
  <2>. HIDE DEF a, b, p
  <2>4. p \in Seq(Observations) /\ Len(p) = (k - 1) + (n - k)
    <3>1. a \o b \in Seq(Observations) /\ Len(a \o b) = Len(a) + Len(b)
      BY <2>1, <2>2, ConcatProperties, Zenon
    <3>. QED  BY <2>1, <2>2, <2>3, <3>1, Zenon
  <2>5. \A i \in 1..(n - 1) : p[i] = IF i <= k - 1 THEN a[i] ELSE b[i - (k - 1)]
    <3>1. \A i \in 1..(Len(a) + Len(b)) :
             (a \o b)[i] = IF i <= Len(a) THEN a[i] ELSE b[i - Len(a)]
      BY <2>1, <2>2, ConcatProperties, Zenon
    <3>2. 1..((k - 1) + (n - k)) = 1..(n - 1)
      OBVIOUS
    <3>. QED  BY <2>1, <2>2, <2>3, <3>1, <3>2, Zenon
  <2>6. ASSUME NEW i \in 1..(n - 1)
        PROVE  p[i] = IF i < k THEN observations[i] ELSE observations[i + 1]
    <3>1. CASE i < k
      BY <3>1, <2>1, <2>5
    <3>2. CASE ~(i < k)
      <4>. DEFINE j == i - (k - 1)
      <4>1. j \in 1..(n - k) /\ k + j = i + 1 /\ ~(i <= k - 1)
        BY <3>2
      <4>2. p[i] = b[j] /\ b[j] = observations[k + j]
        BY <4>1, <2>2, <2>5
      <4>. QED  BY <3>2, <4>1, <4>2
    <3>. QED  BY <3>1, <3>2
  <2>7. (k - 1) + (n - k) = n - 1
    OBVIOUS
  <2>. QED  BY <2>4, <2>6, <2>7
<1>2. /\ q \in Seq(Observations) /\ Len(q) = n /\ q[n] = o
      /\ \A i \in 1..(n - 1) : q[i] = p[i]
  BY <1>1
<1>3. Len(s) = n + 1 /\ s[n + 1] = o /\ \A i \in 1..n : s[i] = observations[i]
  OBVIOUS
<1>. HIDE DEF p, q, s
<1>. DEFINE f == [i \in 1..n |-> IF i < k THEN i ELSE i + 1]
<1>4. f \in [1..Len(q) -> 1..Len(s)]
  BY <1>2, <1>3
<1>5. \A i \in 1..n : q[i] = s[f[i]]
  BY <1>1, <1>2, <1>3
<1>6. \A i, j \in 1..n : i < j => f[i] < f[j]
  OBVIOUS
<1>. HIDE DEF f
<1>7. Within(q, s)
  BY <1>2, <1>4, <1>5, <1>6 DEF Within, Alike
<1>. QED  BY <1>2, <1>7 DEF q, p, s

\* Of positions there is a latest.
LEMMA LatestIs ==
    ASSUME NEW n \in Nat, NEW S \in SUBSET (1..n), S # {}
    PROVE  Latest(S) \in S
<1>. DEFINE T == {n - i : i \in S}
            R == OpToRel(<, Nat)
<1>1. T \subseteq Nat /\ T # {}
  <2>1. \A i \in S : n - i \in Nat
    OBVIOUS
  <2>. QED  BY <2>1
<1>2. PICK m \in T : \A k \in T : ~ (<<k, m>> \in R)
  <2>. HIDE DEF T, R
  <2>1. IsWellFoundedOn(R, Nat)
    BY NatLessThanWellFounded DEF R
  <2>. QED  BY <1>1, <2>1, WFMin, Zenon
<1>3. \A k \in T : m <= k
  <2>1. ASSUME NEW k \in T, k < m  PROVE  FALSE
    <3>1. <<k, m>> \in R
      BY <1>1, <2>1 DEF OpToRel
    <3>. QED  BY <3>1, <1>2
  <2>. QED  BY <1>1, <2>1
<1>4. PICK i \in S : m = n - i
  OBVIOUS
<1>5. \A j \in S : j <= i
  <2>1. ASSUME NEW j \in S  PROVE  j <= i
    <3>1. n - i <= n - j
      BY <1>3, <1>4
    <3>. QED  BY <3>1
  <2>. QED  BY <2>1
<1>. QED  BY <1>5 DEF Latest

LEMMA EnqueuedWithin ==
    ASSUME observations \in Seq(Observations), Len(observations) <= MaxQueued,
           NEW o \in Observations
    PROVE  /\ Enqueued(o) \in Seq(Observations) /\ Len(Enqueued(o)) <= MaxQueued
           /\ Within(Enqueued(o), Append(observations, o))
<1>. DEFINE n == Len(observations)
            s == Append(observations, o)
<1>0. MaxQueued \in Nat \ {0} /\ n \in Nat
  BY RangesAssumption
<1>1. /\ s \in Seq(Observations) /\ Len(s) = n + 1
      /\ \A i \in 1..n : s[i] = observations[i]
  OBVIOUS
<1>2. Within(s, s) /\ Within(observations, s)
  <2>1. ASSUME NEW q, Len(q) \in {n, n + 1}, \A i \in 1..Len(q) : q[i] = s[i]
        PROVE  Within(q, s)
    <3>. DEFINE f == [i \in 1..Len(q) |-> i]
    <3>1. f \in [1..Len(q) -> 1..Len(s)]
      BY <1>0, <1>1, <2>1
    <3>2. \A i \in 1..Len(q) : Alike(q[i], s[f[i]])
      BY <2>1 DEF Alike
    <3>3. \A i, j \in 1..Len(q) : i < j => f[i] < f[j]
      OBVIOUS
    <3>. HIDE DEF f
    <3>. QED  BY <3>1, <3>2, <3>3 DEF Within
  <2>. HIDE DEF s
  <2>. QED  BY <1>1, <2>1
<1>3. CASE n < MaxQueued
  BY <1>0, <1>1, <1>2, <1>3 DEF Enqueued
<1>4. CASE n = MaxQueued
  <2>1. n \in 1..n /\ observations \in Seq(Observations)
    BY <1>0, <1>4
  <2>2. ASSUME NEW k \in 1..n
        PROVE  LET q == Append(RemoveAt(observations, k), o)
               IN q \in Seq(Observations) /\ Len(q) <= MaxQueued /\ Within(q, s)
    BY <1>0, <1>4, RemovedWithin
  <2>3. Coalesced \in SUBSET (1..n) /\ Dispensable \in SUBSET (1..n)
    BY DEF Coalesced, Dispensable
  <2>4. /\ Coalesced # {} => Latest(Coalesced) \in 1..n
        /\ Dispensable # {} => Latest(Dispensable) \in 1..n
    BY <1>0, <2>3, LatestIs
  <2>5. \/ Enqueued(o) = observations
        \/ \E k \in 1..n : Enqueued(o) = Append(RemoveAt(observations, k), o)
    <3>1. ~(Len(observations) < MaxQueued)
      BY <1>0, <1>4
    <3>. QED  BY <3>1, <2>4, Zenon DEF Enqueued
  <2>. QED  BY <1>0, <1>2, <1>4, <2>2, <2>5
<1>. QED  BY <1>0, <1>3, <1>4

\* What is observed now, or repeats the last observation taken, may be appended.
LEMMA AppendKeeps ==
    ASSUME NEW s \in Seq(Observations), NEW r \in Ranges \cup {Absent}, QueueInv(s, r),
           \A i \in 1..Len(s) : Faithful(s[i]), tx \in Nat, RangeSound(r, TRUE),
           NEW o \in Observations, Faithful(o),
           \/ (o.exec => o.tx = tx /\ phase = "executing") /\ (Final(o) => o.tx = tx)
           \/ ~o.exec /\ LastInv(o, s, r) /\ o # Absent
    PROVE  QueueInv(Append(s, o), r) /\ \A i \in 1..(Len(s) + 1) : Faithful(Append(s, o)[i])
<1>. DEFINE n == Len(s)
            q == Append(s, o)
<1>1. n \in Nat /\ Len(q) = n + 1 /\ q[n + 1] = o /\ \A i \in 1..n : q[i] = s[i]
  OBVIOUS
<1>2. \A i \in 1..n : s[i].tx \in Nat /\ s[i].tx <= tx
  <2>1. ASSUME NEW i \in 1..n  PROVE  s[i].tx \in 0..MaxTx /\ s[i].tx <= tx
    <3>1. s[i] \in Observations /\ Faithful(s[i])
      OBVIOUS
    <3>. QED  BY <3>1 DEF Observations, Faithful
  <2>. QED  BY <2>1, RangesAssumption
<1>3. o.tx \in Nat /\ o.tx <= tx
  BY RangesAssumption DEF Observations, Faithful
<1>4. r # Absent => \A t \in r.txs : t \in Nat /\ t <= tx
  BY RangesAssumption DEF RangeSound, Ranges, Txs
<1>5. ASSUME o.exec
      PROVE  /\ o.tx = tx /\ o.pol = owner
             /\ \A i \in 1..n : Final(s[i]) => s[i].tx < tx
             /\ \A i \in 1..n : s[i].exec /\ s[i].tx = tx => s[i].pol = owner
             /\ r # Absent =>
                   (tx \in r.txs => r.pol = owner) /\ (r.conf => tx \notin r.txs)
  <2>1. o.tx = tx /\ phase = "executing" /\ o.pol = owner
    BY <1>5 DEF Faithful, Final
  <2>2. ~Ended(tx) /\ ~Released(tx)
    BY <2>1 DEF Ended, Released
  <2>3. \A i \in 1..n : Final(s[i]) => s[i].tx < tx
    BY <1>2, <2>2 DEF Faithful, Final, Ended, Released
  <2>4. \A i \in 1..n : s[i].exec /\ s[i].tx = tx => s[i].pol = owner
    BY DEF Faithful
  <2>5. r # Absent => (tx \in r.txs => r.pol = owner) /\ (r.conf => tx \notin r.txs)
    BY <2>2 DEF RangeSound
  <2>. QED  BY <2>1, <2>3, <2>4, <2>5
<1>. HIDE DEF n, q
<1>6. \A i \in 1..(n + 1) : Faithful(q[i])
  BY <1>1 DEF n
<1>7. InOrder(q)
  <2>1. \A i, j \in 1..n : q[i].exec /\ q[j].exec =>
           /\ i < j => q[i].tx <= q[j].tx
           /\ q[i].tx = q[j].tx => q[i].pol = q[j].pol
    BY <1>1 DEF InOrder, QueueInv, n
  <2>2. \A i \in 1..n : q[i].exec /\ q[n + 1].exec =>
           q[i].tx <= q[n + 1].tx /\ (q[i].tx = q[n + 1].tx => q[i].pol = q[n + 1].pol)
    BY <1>1, <1>2, <1>5
  <2>3. \A i \in 1..(n + 1) : i \in 1..n \/ i = n + 1
    BY <1>1
  <2>4. \A i \in 1..n : ~(n + 1 < i)
    BY <1>1
  <2>. QED  BY <1>1, <2>1, <2>2, <2>3, <2>4 DEF InOrder
<1>8. After(q, r)
  BY <1>1, <1>4, <1>5 DEF After, QueueInv, n
<1>9. EndsLast(q)
  <2>. SUFFICES ASSUME NEW i \in 1..(n + 1), NEW j \in 1..(n + 1), Final(q[i]), q[j].exec, i < j
                PROVE  q[i].tx < q[j].tx
    BY <1>1 DEF EndsLast
  <2>1. CASE j \in 1..n
    BY <1>1, <2>1 DEF EndsLast, QueueInv, n
  <2>2. CASE j = n + 1
    BY <1>1, <1>5, <2>2
  <2>. QED  BY <1>1, <2>1, <2>2
<1>10. EndsCome(q, r)
  <2>. SUFFICES ASSUME NEW j \in 1..(n + 1), Final(q[j])
                PROVE  Fresh(q[j], q, 1..(j - 1), r) \/ Repeated(q[j], q, 1..(j - 1), r)
    BY <1>1 DEF EndsCome
  <2>1. CASE j \in 1..n
    <3>1. q[j] = s[j] /\ \A i \in 1..(j - 1) : q[i] = s[i]
      BY <1>1, <2>1
    <3>2. Fresh(s[j], s, 1..(j - 1), r) \/ Repeated(s[j], s, 1..(j - 1), r)
      BY <2>1, <3>1 DEF EndsCome, QueueInv, n
    <3>. QED  BY <3>1, <3>2 DEF Fresh, Repeated
  <2>2. CASE j = n + 1
    <3>1. q[j] = o /\ 1..(j - 1) = 1..n /\ \A i \in 1..n : q[i] = s[i]
      BY <1>1, <2>2
    <3>2. CASE Final(o) => o.tx = tx
      BY <1>2, <1>4, <3>1, <3>2 DEF Fresh
    <3>3. CASE LastInv(o, s, r) /\ o # Absent
      <4>1. DealtWith(o, r) /\ \A i \in 1..n : s[i].exec => o.tx < s[i].tx
        BY <3>1, <3>3 DEF LastInv, n
      <4>2. \A i \in 1..n : s[i].exec => s[i].tx # o.tx
        BY <1>2, <1>3, <4>1
      <4>3. \A i \in 1..(j - 1) : q[i].exec => q[i].tx # q[j].tx
        BY <3>1, <4>2
      <4>. QED  BY <3>1, <4>1, <4>3 DEF Repeated
    <3>. QED  BY <3>2, <3>3
  <2>. QED  BY <1>1, <2>1, <2>2
<1>. QED  BY <1>6, <1>7, <1>8, <1>9, <1>10 DEF QueueInv, n, q

(* The range model.                                                        *)

LEMMA OpenedIs ==
    ASSUME NEW o \in Observations, o.tx # 0, o.pol \in Policies
    PROVE  /\ Opened(o) \in Ranges /\ Opened(o).txs = {o.tx} /\ Opened(o).pol = o.pol
           /\ ~Opened(o).fail /\ ~Opened(o).conf
BY RangesAssumption DEF Opened, Ranges, Observations, Txs

LEMMA ResumedIs ==
    ASSUME NEW r \in Ranges, NEW o \in Observations, o.tx # 0
    PROVE  LET a == Resumed(r, o)
           IN /\ a \in Ranges /\ a.txs = r.txs \cup {o.tx} /\ a.pol = r.pol
              /\ ~a.fail /\ ~a.conf
<1>1. o.tx \in Txs /\ 0 \in 0..MaxTx
  BY RangesAssumption DEF Observations, Txs
<1>2. r.txs \cup {o.tx} \in SUBSET Txs
  BY <1>1 DEF Ranges
<1>3. ASSUME NEW S \in SUBSET Txs, NEW u \in 0..MaxTx
      PROVE  LET a == [r EXCEPT !.txs = S, !.gap = Absent, !.intr = FALSE, !.fail = FALSE,
                                !.conf = FALSE, !.unk = u]
             IN a \in Ranges /\ a.txs = S /\ a.pol = r.pol /\ ~a.fail /\ ~a.conf
  BY DEF Ranges
<1>. DEFINE u == IF r.unk = o.tx THEN 0 ELSE r.unk
<1>4. u \in 0..MaxTx
  BY <1>1 DEF Ranges
<1>5. Resumed(r, o) = [r EXCEPT !.txs = r.txs \cup {o.tx}, !.gap = Absent, !.intr = FALSE,
                                !.fail = FALSE, !.conf = FALSE, !.unk = u]
  BY Zenon DEF Resumed
<1>. DEFINE S == r.txs \cup {o.tx}
            a == [r EXCEPT !.txs = S, !.gap = Absent, !.intr = FALSE, !.fail = FALSE,
                           !.conf = FALSE, !.unk = u]
<1>. HIDE DEF u, S
<1>6. a \in Ranges /\ a.txs = S /\ a.pol = r.pol /\ ~a.fail /\ ~a.conf
  BY <1>2, <1>3, <1>4 DEF S
<1>7. Resumed(r, o) = a
  BY <1>5, Zenon DEF S
<1>. HIDE DEF a
<1>. QED  BY <1>6, <1>7, Zenon DEF S

LEMMA InterruptedIs ==
    ASSUME NEW r \in Ranges, NEW o \in Observations
    PROVE  LET a == Interrupted(r, o)
           IN /\ a \in Ranges /\ a.txs = r.txs /\ a.pol = r.pol /\ a.gap # Absent
              /\ a.fail = (r.fail \/ (Belongs(r, o) /\ o.fail))
              /\ a.conf = (r.conf \/ (Belongs(r, o) /\ o.conf))
<1>1. o.age \in 0..Cap /\ o.age # Absent /\ o.tx \in 0..MaxTx
  BY RangesAssumption DEF Observations, Cap
<1>2. o.fail \in BOOLEAN /\ o.conf \in BOOLEAN /\ o.intr \in BOOLEAN /\ o.unk \in BOOLEAN
  BY DEF Observations
<1>3. r.unk \in 0..MaxTx /\ r.gap \in (0..Cap) \cup {Absent}
      /\ r.intr \in BOOLEAN /\ r.fail \in BOOLEAN /\ r.conf \in BOOLEAN
  BY DEF Ranges
<1>. DEFINE own == Belongs(r, o)
            u == IF own /\ o.unk THEN o.tx ELSE r.unk
            g == IF r.gap = Absent THEN o.age ELSE r.gap
<1>4. u \in 0..MaxTx /\ g \in (0..Cap) \cup {Absent} /\ g # Absent
  BY <1>1, <1>3
<1>5. /\ (r.intr \/ (own /\ o.intr)) \in BOOLEAN /\ (r.fail \/ (own /\ o.fail)) \in BOOLEAN
      /\ (r.conf \/ (own /\ o.conf)) \in BOOLEAN
  OBVIOUS
<1>6. Interrupted(r, o) = [r EXCEPT !.unk = u, !.intr = r.intr \/ (own /\ o.intr),
                            !.fail = r.fail \/ (own /\ o.fail),
                            !.conf = r.conf \/ (own /\ o.conf), !.gap = g]
  BY Zenon DEF Interrupted
<1>. DEFINE i == r.intr \/ (own /\ o.intr)
            f == r.fail \/ (own /\ o.fail)
            c == r.conf \/ (own /\ o.conf)
<1>. HIDE DEF own, u, g, i, f, c
<1>7. /\ Interrupted(r, o) \in Ranges /\ Interrupted(r, o).txs = r.txs
      /\ Interrupted(r, o).pol = r.pol /\ Interrupted(r, o).gap = g
      /\ Interrupted(r, o).fail = f /\ Interrupted(r, o).conf = c
  <2>1. i \in BOOLEAN /\ f \in BOOLEAN /\ c \in BOOLEAN
    BY <1>5 DEF i, f, c
  <2>2. Interrupted(r, o) = [r EXCEPT !.unk = u, !.intr = i, !.fail = f, !.conf = c, !.gap = g]
    BY <1>6, Zenon DEF i, f, c
  <2>. DEFINE a == [r EXCEPT !.unk = u, !.intr = i, !.fail = f, !.conf = c, !.gap = g]
  <2>3. /\ a \in Ranges /\ a.txs = r.txs /\ a.pol = r.pol
        /\ a.gap = g /\ a.fail = f /\ a.conf = c
    BY <1>4, <2>1 DEF Ranges
  <2>4. Interrupted(r, o) = a
    BY <2>2
  <2>. HIDE DEF a
  <2>. QED  BY <2>3, <2>4
<1>. QED  BY <1>4, <1>7, Zenon DEF own, f, c

LEMMA EndEventIs ==
    ASSUME NEW r \in Ranges, NEW c \in BOOLEAN
    PROVE  LET e == EndEvent(r, c)
           IN /\ e \in EndReports /\ e # Absent /\ e.txs = r.txs
              /\ e.outcome # "unconfirmed" => c /\ ~r.fail
<1>1. EndEvent(r, c) \in EndReports
  BY DEF EndEvent, EndReports, Ranges, Outcomes
<1>. QED  BY <1>1, RangesAssumption DEF EndEvent

\* What the queue says of the observation that is taken and of those behind it.
LEMMA HeadIs ==
    ASSUME RangesTyped, observations # <<>>
    PROVE  LET o == Head(observations)
               q == Tail(observations)
           IN /\ o = observations[1] /\ o \in Observations /\ 1 \in 1..Len(observations)
              /\ q \in Seq(Observations) /\ Len(q) \in Nat /\ Len(observations) = Len(q) + 1
              /\ \A i \in 1..Len(q) :
                    q[i] = observations[i + 1] /\ i + 1 \in 1..Len(observations)
<1>1. observations \in Seq(Observations)
  BY DEF RangesTyped
<1>. QED  BY <1>1

LEMMA TailWithin ==
    ASSUME RangesTyped, observations # <<>>
    PROVE  Within(Tail(observations), observations)
<1>. DEFINE q == Tail(observations)
            f == [i \in 1..Len(q) |-> i + 1]
<1>1. f \in [1..Len(q) -> 1..Len(observations)]
  BY HeadIs
<1>2. \A i \in 1..Len(q) : Alike(q[i], observations[f[i]])
  BY HeadIs DEF Alike
<1>3. \A i, j \in 1..Len(q) : i < j => f[i] < f[j]
  BY HeadIs
<1>. HIDE DEF f, q
<1>. QED  BY <1>1, <1>2, <1>3 DEF Within, q

\* What is left of the queue and of the last observation, when the head was taken.
Taken(a, e) ==
    LET o == Head(observations)
        q == Tail(observations)
    IN /\ a \in Ranges \cup {Absent} /\ RangeSound(a, TRUE)
       /\ QueueInv(q, a) /\ LastInv(o, q, a)
       /\ e \in EndReports \cup {Absent} /\ EndSound(e)

\* An execution opens a range, goes on with it, or ends it for another.
LEMMA TakesExecution ==
    ASSUME RangesInv, observations # <<>>, Head(observations).exec
    PROVE  LET s == Observe(Head(observations)) IN Taken(s.active, s.end)
<1>. DEFINE o == Head(observations)
            q == Tail(observations)
            a == Observe(o).active
            e == Observe(o).end
<1>0. RangesTyped /\ QueueInv(observations, active) /\ RangeSound(active, initialized)
      /\ EndSound(end)
  BY DEF RangesInv, RangesTrue
<1>1. /\ o = observations[1] /\ o \in Observations /\ 1 \in 1..Len(observations)
      /\ q \in Seq(Observations) /\ Len(q) \in Nat /\ Len(observations) = Len(q) + 1
      /\ \A i \in 1..Len(q) : q[i] = observations[i + 1] /\ i + 1 \in 1..Len(observations)
  BY <1>0, HeadIs
<1>2. Faithful(o) /\ o.exec /\ ~Final(o) /\ o.tx # 0 /\ o.pol \in Policies /\ o.tx <= tx
      /\ (o.tx = tx => o.pol = owner)
  <2>1. Faithful(observations[1])
    BY <1>1 DEF RangesInv, ObservationsTrue
  <2>. QED  BY <1>1, <2>1 DEF Faithful
<1>3. tx \in Nat /\ o.tx \in Nat /\ (active # Absent => active.txs \subseteq Nat)
      /\ \A i \in 1..Len(q) : q[i].tx \in Nat
  <2>1. tx \in Nat /\ o.tx \in Nat
    BY <1>0, <1>1, RangesAssumption DEF RangesTyped, Observations
  <2>2. active # Absent => active.txs \subseteq Nat
    BY <1>0, RangesAssumption DEF RangesTyped, Ranges, Txs
  <2>3. ASSUME NEW i \in 1..Len(q)  PROVE  q[i].tx \in Nat
    <3>1. q[i] \in Observations
      BY <1>1
    <3>. QED  BY <3>1, RangesAssumption DEF Observations
  <2>. QED  BY <2>1, <2>2, <2>3
\* What is known of the range so far ...
<1>4. active # Absent =>
         /\ active \in Ranges /\ ~active.fail
         /\ \A t \in active.txs : t <= o.tx
         /\ o.tx \in active.txs => o.pol = active.pol
         /\ active.conf => active.gap # Absent /\ o.tx \notin active.txs
  BY <1>0, <1>1, <1>2 DEF RangesTyped, RangeSound, QueueInv, After
\* ... and of what comes of it.
<1>5. /\ a \in Ranges /\ ~a.fail /\ ~a.conf /\ a.pol = o.pol /\ o.tx \in a.txs
      /\ \/ a.txs = {o.tx}
         \/ active # Absent /\ a.txs = active.txs \cup {o.tx} /\ a.pol = active.pol /\ ~active.conf
      /\ \/ e = end
         \/ active # Absent /\ o.tx \notin active.txs /\ e = EndEvent(active, TRUE)
  <2>1. CASE active = Absent
    <3>1. a = Opened(o) /\ e = end
      BY <1>2, <2>1 DEF Observe, SeedsRange, Executes
    <3>. QED  BY <1>1, <1>2, <3>1, OpenedIs
  <2>2. CASE active # Absent
    <3>0. initialized
      BY <1>0, <2>2 DEF RangeSound
    <3>1. CASE active.pol = o.pol /\ ~(active.gap # Absent /\ active.conf /\ o.tx \notin active.txs)
      <4>1. a = Resumed(active, o) /\ e = end
        BY <1>2, <2>2, <3>0, <3>1 DEF Observe, Executes
      <4>2. ~active.conf
        BY <1>4, <2>2, <3>1
      <4>3. active \in Ranges /\ o \in Observations /\ o.tx # 0
        BY <1>1, <1>2, <1>4, <2>2
      <4>4. /\ a \in Ranges /\ a.txs = active.txs \cup {o.tx} /\ a.pol = active.pol
            /\ ~a.fail /\ ~a.conf
        BY <4>1, <4>3, ResumedIs
      <4>. QED  BY <2>2, <3>1, <4>1, <4>2, <4>4
    <3>2. CASE ~(active.pol = o.pol /\ ~(active.gap # Absent /\ active.conf /\ o.tx \notin active.txs))
      <4>1. a = Opened(o) /\ e = EndEvent(active, TRUE)
        BY <1>2, <2>2, <3>0, <3>2 DEF Observe, Executes
      <4>2. o.tx \notin active.txs
        BY <1>4, <2>2, <3>2
      <4>3. o \in Observations /\ o.tx # 0 /\ o.pol \in Policies
        BY <1>1, <1>2
      <4>4. a \in Ranges /\ a.txs = {o.tx} /\ a.pol = o.pol /\ ~a.fail /\ ~a.conf
        BY <4>1, <4>3, OpenedIs
      <4>. QED  BY <2>2, <4>1, <4>2, <4>4
    <3>. QED  BY <3>1, <3>2
  <2>. QED  BY <2>1, <2>2
<1>. HIDE DEF o, q, a, e
<1>6. RangeSound(a, TRUE)
  <2>1. a # Absent /\ \A t \in a.txs : t <= tx
    BY <1>2, <1>3, <1>4, <1>5, RangesAssumption
  <2>2. \A t \in a.txs : t = tx => a.pol = owner
    BY <1>0, <1>2, <1>5 DEF RangeSound
  <2>. QED  BY <1>5, <2>1, <2>2 DEF RangeSound
<1>7. InOrder(q) /\ EndsLast(q)
  <2>1. Within(q, observations)
    BY <1>0, TailWithin DEF q, RangesInv
  <2>2. QueueInv(q, active)
    BY <1>0, <1>1, <2>1, WithinKeeps
  <2>. QED  BY <2>2 DEF QueueInv
<1>8. After(q, a)
  <2>. SUFFICES ASSUME NEW i \in 1..Len(q), q[i].exec
                PROVE  /\ \A t \in a.txs : t <= q[i].tx
                       /\ q[i].tx \in a.txs => q[i].pol = a.pol
                       /\ a.conf => q[i].tx \notin a.txs
    BY DEF After
  <2>1. o.tx <= q[i].tx /\ (q[i].tx = o.tx => q[i].pol = o.pol)
    BY <1>0, <1>1, <1>2 DEF QueueInv, InOrder
  <2>2. active # Absent => (q[i].tx \in active.txs => q[i].pol = active.pol)
    BY <1>0, <1>1 DEF QueueInv, After
  <2>. QED  BY <1>3, <1>4, <1>5, <2>1, <2>2
<1>9. EndsCome(q, a)
  <2>. SUFFICES ASSUME NEW j \in 1..Len(q), Final(q[j])
                PROVE  Fresh(q[j], q, 1..(j - 1), a) \/ Repeated(q[j], q, 1..(j - 1), a)
    BY DEF EndsCome
  <2>. DEFINE p == q[j]
  <2>1. p = observations[j + 1] /\ \A i \in 1..(j - 1) : q[i] = observations[i + 1] /\ i + 1 \in 1..j
    BY <1>1
  <2>2. 1 \in 1..j /\ j = (j + 1) - 1 /\ j + 1 \in 1..Len(observations) /\ p.tx \in Nat
    BY <1>1, <1>3
  <2>3. CASE Fresh(p, observations, 1..j, active)
    <3>1. o.tx <= p.tx
      BY <1>1, <1>2, <2>2, <2>3 DEF Fresh
    <3>2. \A t \in a.txs : t <= p.tx
      BY <1>3, <1>4, <1>5, <2>2, <3>1
    <3>. QED  BY <2>1, <2>3, <3>2 DEF Fresh
  <2>4. CASE Repeated(p, observations, 1..j, active)
    <3>1. p.tx # o.tx
      BY <1>1, <1>2, <2>2, <2>4 DEF Repeated
    <3>2. p.tx \notin a.txs
      BY <1>5, <2>4, <3>1 DEF Repeated, DealtWith
    <3>. QED  BY <2>1, <2>4, <3>2 DEF Repeated, DealtWith
  <2>5. Fresh(p, observations, 1..j, active) \/ Repeated(p, observations, 1..j, active)
    BY <1>0, <2>1, <2>2 DEF QueueInv, EndsCome
  <2>. QED  BY <2>3, <2>4, <2>5
<1>10. e \in EndReports \cup {Absent} /\ EndSound(e)
  <2>1. CASE e = end
    BY <1>0, <2>1 DEF RangesTyped
  <2>2. CASE active # Absent /\ o.tx \notin active.txs /\ e = EndEvent(active, TRUE)
    <3>1. e \in EndReports /\ e.txs = active.txs
      BY <1>4, <2>2, EndEventIs
    <3>2. ASSUME NEW t \in active.txs  PROVE  t < tx
      <4>1. t \in Nat /\ t <= o.tx /\ t # o.tx
        BY <1>3, <1>4, <2>2
      <4>. QED  BY <1>2, <1>3, <4>1
    <3>3. \A t \in e.txs : Ended(t) /\ Released(t)
      BY <3>1, <3>2 DEF Ended, Released
    <3>4. EndSound(e)
      BY <3>3 DEF EndSound
    <3>. QED  BY <3>1, <3>4
  <2>. QED  BY <1>5, <2>1, <2>2
<1>11. LastInv(o, q, a)
  BY <1>2 DEF LastInv
<1>. QED  BY <1>5, <1>6, <1>7, <1>8, <1>9, <1>10, <1>11 DEF Taken, QueueInv, o, q, a, e

\* Without a range there is less to know of what is behind it.
LEMMA WithoutRange ==
    ASSUME NEW q, NEW r, QueueInv(q, r)
    PROVE  QueueInv(q, Absent)
<1>1. After(q, Absent)
  BY DEF After
<1>2. EndsCome(q, Absent)
  BY DEF QueueInv, EndsCome, Fresh, Repeated, DealtWith
<1>. QED  BY <1>1, <1>2 DEF QueueInv

\* An observation without an execution interrupts the range, or ends it.
LEMMA TakesRest ==
    ASSUME RangesInv, observations # <<>>, ~Head(observations).exec
    PROVE  LET s == Observe(Head(observations)) IN Taken(s.active, s.end)
<1>. DEFINE o == Head(observations)
            q == Tail(observations)
            r == Interrupted(active, o)
            a == Observe(o).active
            e == Observe(o).end
<1>0. RangesTyped /\ QueueInv(observations, active) /\ RangeSound(active, initialized)
      /\ EndSound(end)
  BY DEF RangesInv, RangesTrue
<1>1. /\ o = observations[1] /\ o \in Observations /\ 1 \in 1..Len(observations)
      /\ q \in Seq(Observations) /\ Len(q) \in Nat /\ Len(observations) = Len(q) + 1
      /\ \A i \in 1..Len(q) : q[i] = observations[i + 1] /\ i + 1 \in 1..Len(observations)
  BY <1>0, HeadIs
<1>2. ~o.exec /\ o.tx <= tx /\ (Final(o) => o.tx # 0)
      /\ (o.fail => Ended(o.tx)) /\ (o.conf => Released(o.tx))
  <2>1. Faithful(observations[1])
    BY <1>1 DEF RangesInv, ObservationsTrue
  <2>. QED  BY <1>1, <2>1 DEF Faithful
<1>3. tx \in Nat /\ o.tx \in Nat /\ (active # Absent => active.txs \subseteq Nat)
  BY <1>0, <1>1, RangesAssumption DEF RangesTyped, Observations, Ranges, Txs
<1>4. QueueInv(q, active) /\ QueueInv(q, Absent)
  <2>1. Within(q, observations)
    BY <1>0, TailWithin
  <2>2. Len(observations) \in Nat
    BY <1>1
  <2>. HIDE DEF q
  <2>3. QueueInv(q, active)
    BY <1>0, <1>1, <2>1, <2>2, WithinKeeps
  <2>. QED  BY <2>3, WithoutRange
<1>5. Final(o) => \A i \in 1..Len(q) : q[i].exec => o.tx < q[i].tx
  <2>. SUFFICES ASSUME Final(o), NEW i \in 1..Len(q), q[i].exec  PROVE  o.tx < q[i].tx
    OBVIOUS
  <2>1. q[i] = observations[i + 1] /\ i + 1 \in 1..Len(observations) /\ 1 < i + 1
    BY <1>1
  <2>2. EndsLast(observations)
    BY <1>0 DEF QueueInv
  <2>. HIDE DEF o, q
  <2>. QED  BY <1>1, <2>1, <2>2 DEF EndsLast
<1>6. CASE active = Absent
  <2>1. a = Absent /\ e = end
    BY <1>2, <1>6 DEF Observe, SeedsRange, Rests
  <2>2. RangeSound(Absent, TRUE) /\ end \in EndReports \cup {Absent}
    BY <1>0 DEF RangeSound, RangesTyped
  <2>3. LastInv(o, q, Absent)
    BY <1>5 DEF LastInv, DealtWith
  <2>. HIDE DEF o, q, a, e
  <2>. QED  BY <1>0, <1>4, <2>1, <2>2, <2>3 DEF Taken, o, q, a, e
<1>7. CASE active # Absent
  <2>1. /\ active \in Ranges /\ ~active.fail /\ \A t \in active.txs : t <= tx /\ (t = tx => active.pol = owner)
        /\ (active.conf => \A t \in active.txs : Released(t)) /\ initialized
    BY <1>0, <1>7 DEF RangesTyped, RangeSound
  <2>2. /\ r \in Ranges /\ r.txs = active.txs /\ r.pol = active.pol /\ r.gap # Absent
        /\ r.fail = (Belongs(active, o) /\ o.fail)
        /\ r.conf = (active.conf \/ (Belongs(active, o) /\ o.conf)) /\ r # Absent
    BY <1>1, <2>1, InterruptedIs, RangesAssumption
  <2>3. \/ a = r /\ e = end /\ ~r.fail
        \/ a = Absent /\ e = EndEvent(r, r.conf) /\ (r.conf \/ r.fail)
    BY <1>2, <1>7, <2>1 DEF Observe, Rests, Closes
  <2>. HIDE DEF o, q, r, a, e
  \* The end of a transaction of the range comes after all of its executions, or
  \* was dealt with.
  <2>4. Final(o) /\ o.tx \in active.txs => active.conf \/ \A t \in active.txs : t <= o.tx
    <3>1. Final(o) => \/ Fresh(o, observations, 1..0, active)
                      \/ Repeated(o, observations, 1..0, active)
      <4>1. 1 - 1 = 0
        OBVIOUS
      <4>2. EndsCome(observations, active)
        BY <1>0 DEF QueueInv
      <4>. QED  BY <1>1, <4>1, <4>2 DEF EndsCome
    <3>. QED  BY <1>7, <3>1 DEF Fresh, Repeated, DealtWith
  <2>5. Belongs(active, o) /\ Final(o) => o.tx \in active.txs
    BY <1>2 DEF Belongs
  <2>6. r.conf => \A t \in r.txs : Released(t)
    <3>1. CASE active.conf
      BY <2>1, <2>2, <3>1
    <3>2. CASE ~active.conf
      <4>. SUFFICES ASSUME r.conf, NEW t \in active.txs  PROVE  Released(t)
        BY <2>2
      <4>1. o.conf /\ o.tx \in active.txs /\ t <= o.tx
        BY <2>2, <2>4, <2>5, <3>2 DEF Final
      <4>. QED  BY <1>2, <1>3, <1>7, <4>1 DEF Released
    <3>. QED  BY <3>1, <3>2
  <2>7. r.fail => \A t \in r.txs : Ended(t)
    <3>1. CASE active.conf
      BY <2>1, <2>2, <3>1 DEF Ended, Released
    <3>2. CASE ~active.conf
      <4>. SUFFICES ASSUME r.fail, NEW t \in active.txs  PROVE  Ended(t)
        BY <2>2
      <4>1. o.fail /\ o.tx \in active.txs /\ t <= o.tx
        BY <2>2, <2>4, <2>5, <3>2 DEF Final
      <4>. QED  BY <1>2, <1>3, <1>7, <4>1 DEF Ended
    <3>. QED  BY <3>1, <3>2
  <2>8. CASE a = r /\ e = end /\ ~r.fail
    <3>1. RangeSound(r, TRUE)
      BY <2>1, <2>2, <2>6, <2>8 DEF RangeSound
    <3>2. After(q, r)
      <4>. SUFFICES ASSUME NEW i \in 1..Len(q), q[i].exec
                    PROVE  /\ \A t \in r.txs : t <= q[i].tx
                           /\ q[i].tx \in r.txs => q[i].pol = r.pol
                           /\ r.conf => q[i].tx \notin r.txs
        BY DEF After
      <4>1. /\ \A t \in active.txs : t <= q[i].tx
            /\ q[i].tx \in active.txs => q[i].pol = active.pol
            /\ active.conf => q[i].tx \notin active.txs
        BY <1>4, <1>7 DEF QueueInv, After
      <4>2. r.conf /\ ~active.conf => q[i].tx \notin active.txs
        <5>. SUFFICES ASSUME r.conf, ~active.conf, q[i].tx \in active.txs  PROVE  FALSE
          OBVIOUS
        <5>1. Final(o) /\ q[i].tx <= o.tx
          BY <2>2, <2>4, <2>5 DEF Final
        <5>2. o.tx < q[i].tx /\ q[i].tx \in Nat
          BY <1>3, <1>5, <1>7, <5>1
        <5>. QED  BY <1>3, <5>1, <5>2
      <4>. QED  BY <2>2, <4>1, <4>2
    <3>3. EndsCome(q, r)
      <4>. SUFFICES ASSUME NEW j \in 1..Len(q), Final(q[j])
                    PROVE  Fresh(q[j], q, 1..(j - 1), r) \/ Repeated(q[j], q, 1..(j - 1), r)
        BY DEF EndsCome
      <4>1. \/ Fresh(q[j], q, 1..(j - 1), active)
            \/ Repeated(q[j], q, 1..(j - 1), active)
        BY <1>4 DEF QueueInv, EndsCome
      <4>2. Fresh(q[j], q, 1..(j - 1), active) => Fresh(q[j], q, 1..(j - 1), r)
        BY <1>7, <2>2 DEF Fresh
      <4>3. DealtWith(q[j], active) => DealtWith(q[j], r)
        BY <1>7, <2>2 DEF DealtWith
      <4>. QED  BY <4>1, <4>2, <4>3 DEF Repeated
    <3>4. LastInv(o, q, r)
      <4>1. Final(o) => r.conf \/ o.tx \notin r.txs
        BY <2>2, <2>8 DEF Belongs, Final
      <4>. QED  BY <1>5, <4>1 DEF LastInv, DealtWith
    <3>. QED  BY <1>0, <1>4, <2>2, <2>8, <3>1, <3>2, <3>3, <3>4
              DEF Taken, QueueInv, RangesTyped, o, q, a, e
  <2>9. CASE a = Absent /\ e = EndEvent(r, r.conf) /\ (r.conf \/ r.fail)
    <3>1. r.conf \in BOOLEAN
      BY <2>2 DEF Ranges
    <3>2. /\ e \in EndReports /\ e.txs = r.txs
          /\ e.outcome # "unconfirmed" => r.conf
      BY <2>2, <2>9, <3>1, EndEventIs
    <3>3. EndSound(e)
      <4>1. \A t \in r.txs : Ended(t)
        BY <2>6, <2>7, <2>9 DEF Ended, Released
      <4>. QED  BY <2>6, <3>2, <4>1 DEF EndSound
    <3>4. RangeSound(Absent, TRUE) /\ LastInv(o, q, Absent)
      BY <1>5 DEF RangeSound, LastInv, DealtWith
    <3>. QED  BY <1>4, <2>9, <3>2, <3>3, <3>4 DEF Taken, o, q, a, e
  <2>. QED  BY <2>3, <2>8, <2>9
<1>. QED  BY <1>6, <1>7

(* The steps.                                                              *)

\* What became of a transaction stays, and so does what was said of it.
LEMMA KnownStays ==
    ASSUME RangesTyped, SelectTransaction \/ Move \/ UNCHANGED <<tx, owner, phase>>
    PROVE  /\ \A t \in Nat : (Ended(t) => Ended(t)') /\ (Released(t) => Released(t)')
           /\ \A o \in Observations : Faithful(o) => Faithful(o)'
           /\ \A r \in Ranges \cup {Absent} : \A k \in BOOLEAN : RangeSound(r, k) => RangeSound(r, k)'
           /\ \A e \in EndReports \cup {Absent} : EndSound(e) => EndSound(e)'
           /\ tx' \in 0..MaxTx /\ owner' \in Policies \cup {Absent} /\ phase' \in Phases
           /\ phase' = "none" <=> tx' = 0
           /\ phase' # "none" => owner' \in Policies
<1>0. tx \in Nat /\ MaxTx \in Nat /\ owner \in Policies \cup {Absent} /\ phase \in Phases
      /\ (phase = "none" <=> tx = 0) /\ (phase # "none" => owner \in Policies) /\ tx <= MaxTx
  BY RangesAssumption DEF RangesTyped
<1>1. \/ tx' = tx + 1 /\ phase' = "held" /\ owner' \in Policies /\ tx < MaxTx
      \/ tx' = tx /\ owner' = owner /\ phase' = phase
      \/ /\ tx' = tx /\ owner' = owner /\ phase' \in Phases \ {"none"}
         /\ phase \notin {"none", "restored"}
         /\ phase \in {"stopping", "failed"} => phase' \in {"stopping", "failed", "restored"}
  <2>1. CASE SelectTransaction
    <3>1. tx + 1 \in Txs
      BY <1>0, <2>1 DEF SelectTransaction, Txs
    <3>2. Owners[tx + 1] \in SUBSET Policies
      BY <3>1, RangesAssumption
    <3>. QED  BY <2>1, <3>2 DEF SelectTransaction
  <2>2. CASE Move
    <3>1. phase' \in Moves[phase] /\ tx' = tx /\ owner' = owner
      BY <2>2 DEF Move
    <3>. QED  BY <1>0, <3>1 DEF Phases, Moves
  <2>. QED  BY <2>1, <2>2
<1>2. \A t \in Nat : (Ended(t) => Ended(t)') /\ (Released(t) => Released(t)')
  BY <1>0, <1>1 DEF Ended, Released
<1>3. tx' \in Nat /\ tx <= tx' /\ (tx' = tx => owner' = owner)
  BY <1>0, <1>1
<1>4. ASSUME NEW o \in Observations, Faithful(o)  PROVE  Faithful(o)'
  <2>1. o.tx \in Nat
    BY RangesAssumption DEF Observations
  <2>2. o.tx <= tx' /\ (o.tx = tx' => tx' = tx)
    BY <1>0, <1>3, <1>4, <2>1 DEF Faithful
  <2>. QED  BY <1>2, <1>3, <1>4, <2>1, <2>2 DEF Faithful, Final
<1>5. ASSUME NEW r \in Ranges \cup {Absent}, NEW k \in BOOLEAN, RangeSound(r, k)
      PROVE  RangeSound(r, k)'
  <2>1. CASE r = Absent
    BY <2>1 DEF RangeSound
  <2>2. CASE r # Absent
    <3>1. \A t \in r.txs : t \in Nat
      BY <2>2 DEF Ranges, Txs
    <3>2. \A t \in r.txs : t <= tx' /\ (t = tx' => r.pol = owner')
      BY <1>0, <1>3, <1>5, <2>2, <3>1 DEF RangeSound
    <3>. QED  BY <1>2, <1>5, <2>2, <3>1, <3>2 DEF RangeSound
  <2>. QED  BY <2>1, <2>2
<1>6. ASSUME NEW e \in EndReports \cup {Absent}, EndSound(e)  PROVE  EndSound(e)'
  <2>1. e # Absent => \A t \in e.txs : t \in Nat
    BY DEF EndReports, Txs
  <2>. QED  BY <1>2, <1>6, <2>1 DEF EndSound
<1>7. /\ tx' \in 0..MaxTx /\ owner' \in Policies \cup {Absent} /\ phase' \in Phases
      /\ phase' = "none" <=> tx' = 0
      /\ phase' # "none" => owner' \in Policies
  BY <1>0, <1>1 DEF Phases
<1>. QED  BY <1>2, <1>4, <1>5, <1>6, <1>7

\* An observation put into the queue, or made in it to give way.
LEMMA EnqueueKeeps ==
    ASSUME RangesInv, NEW o \in Observations, Faithful(o),
           \/ (o.exec => o.tx = tx /\ phase = "executing") /\ (Final(o) => o.tx = tx)
           \/ ~o.exec /\ LastInv(o, observations, active) /\ o # Absent
    PROVE  LET q == Enqueued(o)
           IN /\ q \in Seq(Observations) /\ Len(q) <= MaxQueued /\ QueueInv(q, active)
              /\ LastInv(last, q, active) /\ \A i \in 1..Len(q) : Faithful(q[i])
<1>. DEFINE s == Append(observations, o)
            q == Enqueued(o)
<1>1. /\ observations \in Seq(Observations) /\ Len(observations) <= MaxQueued
      /\ QueueInv(observations, active) /\ tx \in Nat /\ active \in Ranges \cup {Absent}
      /\ \A i \in 1..Len(observations) : Faithful(observations[i])
      /\ LastInv(last, observations, active) /\ (last # Absent => Faithful(last))
      /\ last \in Observations \cup {Absent}
  BY RangesAssumption DEF RangesInv, RangesTyped, ObservationsTrue
<1>2. RangeSound(active, TRUE)
  BY DEF RangesInv, RangesTrue, RangeSound
<1>3. QueueInv(s, active) /\ \A i \in 1..(Len(observations) + 1) : Faithful(s[i])
  BY <1>1, <1>2, AppendKeeps
<1>4. LastInv(last, s, active)
  <2>. SUFFICES ASSUME last # Absent, Final(last), NEW i \in 1..(Len(observations) + 1), s[i].exec
                PROVE  last.tx < s[i].tx
    BY <1>1 DEF LastInv
  <2>1. CASE i \in 1..Len(observations)
    BY <1>1, <2>1 DEF LastInv
  <2>2. CASE i = Len(observations) + 1 /\ o.tx = tx /\ phase = "executing"
    <3>1. last.tx < tx
      BY <1>1, <2>2 DEF Faithful, Final, Ended, Released
    <3>. QED  BY <2>2, <3>1
  <2>3. i = Len(observations) + 1 => o.exec
    BY <1>1
  <2>. QED  BY <1>1, <2>1, <2>2, <2>3
<1>5. q \in Seq(Observations) /\ Len(q) <= MaxQueued /\ Within(q, s)
  BY <1>1, EnqueuedWithin
<1>6. s \in Seq(Observations) /\ Len(s) = Len(observations) + 1 /\ Len(s) \in Nat /\ Len(q) \in Nat
  BY <1>1, <1>5
<1>. HIDE DEF s, q
<1>7. QueueInv(q, active) /\ LastInv(last, q, active) /\ \A i \in 1..Len(q) : Faithful(q[i])
  BY <1>3, <1>4, <1>5, <1>6, WithinKeeps
<1>. QED  BY <1>5, <1>7 DEF q

\* What is the same to the invariant: an observation of another age, a range of
\* another.
LEMMA AlikeIs ==
    ASSUME NEW o, NEW p, Alike(o, p), o # Absent
    PROVE  /\ Faithful(p) => Faithful(o)
           /\ \A q, r : p # Absent /\ LastInv(p, q, r) => LastInv(o, q, r)
BY DEF Alike, Faithful, LastInv, DealtWith, Final

LEMMA RangeAlike ==
    ASSUME NEW r, NEW a, r = Absent <=> a = Absent,
           r # Absent => /\ a.txs = r.txs /\ a.pol = r.pol /\ a.conf = r.conf
                         /\ a.fail = r.fail /\ (r.gap # Absent => a.gap # Absent)
    PROVE  /\ \A q : QueueInv(q, r) => QueueInv(q, a)
           /\ \A o, q : LastInv(o, q, r) => LastInv(o, q, a)
           /\ \A k : RangeSound(r, k) => RangeSound(a, k)
<1>1. \A o : DealtWith(o, r) => DealtWith(o, a)
  BY DEF DealtWith
<1>2. \A q : After(q, r) => After(q, a)
  BY DEF After
<1>3. \A o, q, b : Fresh(o, q, b, r) => Fresh(o, q, b, a)
  BY DEF Fresh
<1>4. \A o, q, b : Repeated(o, q, b, r) => Repeated(o, q, b, a)
  BY <1>1 DEF Repeated
<1>5. \A q : EndsCome(q, r) => EndsCome(q, a)
  BY <1>3, <1>4 DEF EndsCome
<1>6. \A k : RangeSound(r, k) => RangeSound(a, k)
  BY DEF RangeSound
<1>. QED  BY <1>1, <1>2, <1>5, <1>6 DEF QueueInv, LastInv

LEMMA AgedIs ==
    ASSUME NEW r \in Ranges \cup {Absent}
    PROVE  LET a == Aged(r)
           IN /\ a \in Ranges \cup {Absent} /\ (r = Absent <=> a = Absent)
              /\ r # Absent => /\ a.txs = r.txs /\ a.pol = r.pol /\ a.conf = r.conf
                               /\ a.fail = r.fail /\ (r.gap # Absent => a.gap # Absent)
<1>1. CASE r = Absent \/ r.gap = Absent \/ r.gap = Cap
  BY <1>1 DEF Aged
<1>2. CASE ~(r = Absent \/ r.gap = Absent \/ r.gap = Cap)
  <2>1. r \in Ranges /\ r.gap \in 0..Cap /\ Cap \in Nat
    BY <1>2, RangesAssumption DEF Ranges, Cap
  <2>2. r.gap + 1 \in (0..Cap) \cup {Absent} /\ r.gap + 1 # Absent
    BY <1>2, <2>1, RangesAssumption
  <2>. DEFINE g == r.gap + 1
  <2>3. Aged(r) = [r EXCEPT !.gap = g]
    BY <1>2, Zenon DEF Aged
  <2>. HIDE DEF g
  <2>4. g \in (0..Cap) \cup {Absent} /\ g # Absent
    BY <2>2 DEF g
  <2>5. Aged(r) \in Ranges
    BY <2>1, <2>3, <2>4 DEF Ranges
  <2>6. Aged(r) # Absent
    BY <2>5, RangesAssumption
  <2>7. /\ Aged(r).txs = r.txs /\ Aged(r).pol = r.pol /\ Aged(r).conf = r.conf
        /\ Aged(r).fail = r.fail /\ Aged(r).gap = g
    BY <2>1, <2>3 DEF Ranges
  <2>. QED  BY <1>2, <2>4, <2>5, <2>6, <2>7
<1>. QED  BY <1>1, <1>2

LEMMA YoungerIs ==
    ASSUME NEW o \in Observations, NEW n \in 0..MaxLag
    PROVE  LET p == [o EXCEPT !.age = n]
           IN p \in Observations /\ p # Absent /\ Alike(p, o)
<1>1. [o EXCEPT !.age = n] \in Observations
  BY DEF Observations
<1>. QED  BY <1>1, RangesAssumption DEF Alike, Observations

LEMMA RangesInitHolds == RangesInit => RangesInv
<1>. SUFFICES ASSUME RangesInit  PROVE  RangesInv
  OBVIOUS
<1>1. RangesTyped
  <2>1. <<>> \in Seq(Observations) /\ Len(<<>>) = 0
    OBVIOUS
  <2>2. 0 \in 0..MaxTx /\ 0 <= MaxQueued
    BY RangesAssumption
  <2>3. NoRanges \in [active : Ranges \cup {Absent}, initialized : BOOLEAN]
    BY DEF NoRanges
  <2>. QED  BY <2>1, <2>2, <2>3, Zenon DEF RangesInit, RangesTyped, Phases
<1>2. QueueInv(observations, active) /\ LastInv(last, observations, active) /\ EndSound(end)
  BY DEF RangesInit, QueueInv, InOrder, After, EndsLast, EndsCome, LastInv, EndSound
<1>3. ObservationsTrue /\ RangesTrue
  BY DEF RangesInit, ObservationsTrue, RangesTrue, RangeSound, NoRanges
<1>. QED  BY <1>1, <1>2, <1>3 DEF RangesInv

LEMMA ExecutorStep == RangesInv /\ (SelectTransaction \/ Move) => RangesInv'
<1>. SUFFICES ASSUME RangesInv, SelectTransaction \/ Move  PROVE  RangesInv'
  OBVIOUS
<1>1. UNCHANGED <<observations, last, busy, active, initialized, rangeStore, end>>
  BY DEF SelectTransaction, Move, rangeModel, worker
<1>2. RangesTyped /\ last \in Observations \cup {Absent} /\ active \in Ranges \cup {Absent}
      /\ initialized \in BOOLEAN /\ end \in EndReports \cup {Absent}
      /\ rangeStore.active \in Ranges \cup {Absent} /\ rangeStore.initialized \in BOOLEAN
      /\ observations \in Seq(Observations)
  BY DEF RangesInv, RangesTyped
<1>3. /\ \A o \in Observations : Faithful(o) => Faithful(o)'
      /\ \A r \in Ranges \cup {Absent} : \A k \in BOOLEAN : RangeSound(r, k) => RangeSound(r, k)'
      /\ \A e \in EndReports \cup {Absent} : EndSound(e) => EndSound(e)'
      /\ tx' \in 0..MaxTx /\ owner' \in Policies \cup {Absent} /\ phase' \in Phases
      /\ phase' = "none" <=> tx' = 0
      /\ phase' # "none" => owner' \in Policies
  BY <1>2, KnownStays
<1>4. RangesTyped'
  BY <1>1, <1>2, <1>3 DEF RangesTyped
<1>5. ObservationsTrue'
  <2>1. \A i \in 1..Len(observations) : observations[i] \in Observations
    BY <1>2
  <2>2. \A i \in 1..Len(observations) : Faithful(observations[i])'
    <3>. SUFFICES ASSUME NEW i \in 1..Len(observations)  PROVE  Faithful(observations[i])'
      BY <1>1
    <3>1. PICK o \in Observations : o = observations[i]
      BY <2>1
    <3>2. Faithful(o)'
      BY <1>3, <3>1 DEF RangesInv, ObservationsTrue
    <3>. QED  BY <1>1, <3>1, <3>2 DEF Faithful, Final, Ended, Released
  <2>3. last # Absent => Faithful(last)'
    <3>. SUFFICES ASSUME last # Absent  PROVE  Faithful(last)'
      OBVIOUS
    <3>1. PICK o \in Observations : o = last
      BY <1>2
    <3>2. Faithful(o)'
      BY <1>3, <3>1 DEF RangesInv, ObservationsTrue
    <3>. QED  BY <1>1, <3>1, <3>2 DEF Faithful, Final, Ended, Released
  <2>. QED  BY <1>1, <2>2, <2>3 DEF ObservationsTrue
<1>6. RangesTrue' /\ EndSound(end)'
  <2>1. PICK a \in Ranges \cup {Absent}, k \in BOOLEAN : a = active /\ k = initialized
    BY <1>2
  <2>2. PICK s \in Ranges \cup {Absent}, b \in BOOLEAN :
           s = rangeStore.active /\ b = rangeStore.initialized
    BY <1>2
  <2>3. PICK e \in EndReports \cup {Absent} : e = end
    BY <1>2
  <2>4. RangeSound(a, k)' /\ RangeSound(s, b)' /\ EndSound(e)'
    BY <1>3, <2>1, <2>2, <2>3 DEF RangesInv, RangesTrue
  <2>5. a = active' /\ k = initialized' /\ s = rangeStore.active' /\ b = rangeStore.initialized'
        /\ e = end'
    BY <1>1, <2>1, <2>2, <2>3
  <2>. QED  BY <2>4, <2>5 DEF RangesTrue, RangeSound, EndSound, Ended, Released
<1>7. (QueueInv(observations, active) /\ LastInv(last, observations, active))'
  BY <1>1 DEF RangesInv, QueueInv, InOrder, After, EndsLast, EndsCome, LastInv, Fresh, Repeated,
              DealtWith, Final
<1>. QED  BY <1>4, <1>5, <1>6, <1>7 DEF RangesInv

\* The invariant after a step that leaves the executor alone, in the values it has.
LEMMA StepIs ==
    ASSUME UNCHANGED <<tx, owner, phase>>, RangesTyped,
           observations' \in Seq(Observations), Len(observations') <= MaxQueued,
           last' \in Observations \cup {Absent}, busy' \in BOOLEAN, busy' => last' # Absent,
           active' \in Ranges \cup {Absent}, initialized' \in BOOLEAN,
           rangeStore' \in [active : Ranges \cup {Absent}, initialized : BOOLEAN],
           end' \in EndReports \cup {Absent},
           \A i \in 1..Len(observations') : Faithful(observations'[i]),
           last' # Absent => Faithful(last'),
           RangeSound(active', initialized'),
           RangeSound(rangeStore'.active, rangeStore'.initialized),
           QueueInv(observations', active'), LastInv(last', observations', active'),
           EndSound(end')
    PROVE  RangesInv'
<1>1. RangesTyped'
  BY DEF RangesTyped
<1>2. ObservationsTrue'
  BY DEF ObservationsTrue, Faithful, Final, Ended, Released
<1>3. RangesTrue'
  BY DEF RangesTrue, RangeSound, Released
<1>4. EndSound(end)'
  BY DEF EndSound, Ended, Released
<1>5. (QueueInv(observations, active) /\ LastInv(last, observations, active))'
  BY DEF QueueInv, InOrder, After, EndsLast, EndsCome, LastInv, Fresh, Repeated,
         DealtWith, Final
<1>. QED  BY <1>1, <1>2, <1>3, <1>4, <1>5 DEF RangesInv

\* What the invariant says of the values there are.
LEMMA NowIs ==
    ASSUME RangesInv
    PROVE  /\ RangesTyped
           /\ observations \in Seq(Observations) /\ Len(observations) <= MaxQueued
           /\ last \in Observations \cup {Absent} /\ busy \in BOOLEAN /\ (busy => last # Absent)
           /\ active \in Ranges \cup {Absent} /\ initialized \in BOOLEAN
           /\ rangeStore \in [active : Ranges \cup {Absent}, initialized : BOOLEAN]
           /\ end \in EndReports \cup {Absent}
           /\ \A i \in 1..Len(observations) : Faithful(observations[i])
           /\ last # Absent => Faithful(last)
           /\ RangeSound(active, initialized)
           /\ RangeSound(rangeStore.active, rangeStore.initialized)
           /\ QueueInv(observations, active) /\ LastInv(last, observations, active)
           /\ EndSound(end)
BY DEF RangesInv, RangesTyped, ObservationsTrue, RangesTrue

LEMMA FrameStep == RangesInv /\ (\E interrupted \in BOOLEAN : Frame(interrupted)) => RangesInv'
<1>. SUFFICES ASSUME RangesInv, NEW interrupted \in BOOLEAN, Frame(interrupted)  PROVE  RangesInv'
  OBVIOUS
<1>. DEFINE o == FrameOf(interrupted)
<1>1. UNCHANGED <<tx, owner, phase, active, initialized, last, busy, rangeStore, end>>
      /\ observations' = Enqueued(o)
  BY DEF Frame, rangeModel, worker
<1>2. o \in Observations /\ Faithful(o)
      /\ (o.exec => o.tx = tx /\ phase = "executing") /\ (Final(o) => o.tx = tx)
  <2>1. tx \in 0..MaxTx /\ owner \in Policies \cup {Absent} /\ phase \in Phases
        /\ (phase = "none" <=> tx = 0) /\ (phase # "none" => owner \in Policies)
        /\ tx \in Nat /\ 0 \in 0..MaxLag
    BY RangesAssumption DEF RangesInv, RangesTyped
  <2>2. o \in Observations
    <3>. DEFINE p == IF phase = "executing" THEN owner ELSE Absent
                e == phase = "executing"
                c == phase = "restored"
                f == phase = "failed"
                i == interrupted /\ phase # "executing"
                u == phase = "unknown"
    <3>1. p \in Policies \cup {Absent} /\ tx \in 0..MaxTx /\ 0 \in 0..MaxLag
      BY <2>1
    <3>2. e \in BOOLEAN /\ c \in BOOLEAN /\ f \in BOOLEAN /\ i \in BOOLEAN /\ u \in BOOLEAN
      OBVIOUS
    <3>3. o = [tx |-> tx, pol |-> p, exec |-> e, conf |-> c, fail |-> f, intr |-> i,
               unk |-> u, age |-> 0]
      BY Zenon DEF FrameOf
    <3>. HIDE DEF p, e, c, f, i, u, o
    <3>. QED  BY <3>1, <3>2, <3>3, Zenon DEF Observations
  <2>3. /\ o.tx = tx /\ o.exec = (phase = "executing") /\ o.conf = (phase = "restored")
        /\ o.fail = (phase = "failed") /\ (phase = "executing" => o.pol = owner)
    BY DEF FrameOf
  <2>. HIDE DEF o
  <2>4. Faithful(o)
    <3>1. o.exec => o.pol \in Policies /\ o.pol = owner
      BY <2>1, <2>3
    <3>2. o.exec \/ Final(o) => phase # "none"
      BY <2>3 DEF Final
    <3>3. o.exec \/ Final(o) => o.tx # 0
      BY <2>1, <2>3, <3>2
    <3>4. (o.fail => Ended(o.tx)) /\ (o.conf => Released(o.tx))
      BY <2>3 DEF Ended, Released
    <3>5. ~(o.exec /\ Final(o))
      BY <2>3 DEF Final
    <3>6. o.tx <= tx
      BY <2>1, <2>3
    <3>. QED  BY <3>1, <3>3, <3>4, <3>5, <3>6 DEF Faithful
  <2>. QED  BY <2>2, <2>3, <2>4 DEF Final
<1>3. /\ observations' \in Seq(Observations) /\ Len(observations') <= MaxQueued
      /\ QueueInv(observations', active) /\ LastInv(last, observations', active)
      /\ \A i \in 1..Len(observations') : Faithful(observations'[i])
  BY <1>1, <1>2, EnqueueKeeps
<1>. HIDE DEF o
<1>. QED  BY <1>1, <1>3, NowIs, StepIs

LEMMA GapStep == RangesInv /\ GapElapsed => RangesInv'
<1>. SUFFICES ASSUME RangesInv, GapElapsed  PROVE  RangesInv'
  OBVIOUS
<1>1. UNCHANGED <<tx, owner, phase, active, initialized, last, busy, rangeStore, end>>
  BY DEF GapElapsed, rangeModel, worker, executor
<1>2. CASE last = Absent \/ last.exec
  <2>1. observations' = observations
    BY <1>2 DEF GapElapsed
  <2>. QED  BY <1>1, <2>1, NowIs, StepIs
<1>3. CASE ~(last = Absent \/ last.exec)
  <2>. DEFINE o == [last EXCEPT !.pol = Absent, !.age = 0]
  <2>1. last \in Observations /\ Faithful(last) /\ LastInv(last, observations, active)
    BY <1>3, NowIs
  <2>2. o \in Observations /\ o # Absent /\ ~o.exec /\ o.tx = last.tx
        /\ o.conf = last.conf /\ o.fail = last.fail
    <3>1. 0 \in 0..MaxLag /\ Absent \in Policies \cup {Absent}
      BY RangesAssumption
    <3>2. o \in Observations
      BY <2>1, <3>1 DEF Observations
    <3>3. o # Absent
      BY <3>2, RangesAssumption
    <3>4. o.exec = last.exec /\ o.tx = last.tx /\ o.conf = last.conf /\ o.fail = last.fail
      BY <2>1 DEF Observations
    <3>. HIDE DEF o
    <3>. QED  BY <1>3, <3>2, <3>3, <3>4
  <2>3. observations' = Enqueued(o)
    BY <1>3 DEF GapElapsed
  <2>. HIDE DEF o
  <2>4. Faithful(o) /\ LastInv(o, observations, active)
    BY <1>3, <2>1, <2>2 DEF Faithful, LastInv, DealtWith, Final
  <2>5. /\ observations' \in Seq(Observations) /\ Len(observations') <= MaxQueued
        /\ QueueInv(observations', active) /\ LastInv(last, observations', active)
        /\ \A i \in 1..Len(observations') : Faithful(observations'[i])
    BY <2>2, <2>3, <2>4, EnqueueKeeps
  <2>. QED  BY <1>1, <2>5, NowIs, StepIs
<1>. QED  BY <1>2, <1>3

LEMMA TakeStep == RangesInv /\ TakeNext => RangesInv'
<1>. SUFFICES ASSUME RangesInv, TakeNext  PROVE  RangesInv'
  OBVIOUS
<1>. DEFINE o == Head(observations)
            s == Observe(o)
<1>1. /\ UNCHANGED <<tx, owner, phase, rangeStore>> /\ observations # <<>>
      /\ observations' = Tail(observations) /\ last' = o
      /\ active' = s.active /\ end' = s.end /\ initialized' = TRUE /\ busy' = TRUE
  BY DEF TakeNext, executor
<1>2. Taken(s.active, s.end)
  BY <1>1, TakesExecution, TakesRest
<1>3. o \in Observations /\ o = observations[1] /\ 1 \in 1..Len(observations)
      /\ Tail(observations) \in Seq(Observations)
      /\ Len(observations) = Len(Tail(observations)) + 1 /\ Len(Tail(observations)) \in Nat
      /\ \A i \in 1..Len(Tail(observations)) :
            Tail(observations)[i] = observations[i + 1] /\ i + 1 \in 1..Len(observations)
  BY <1>1, NowIs, HeadIs
<1>4. o # Absent /\ Faithful(o) /\ Len(observations') <= MaxQueued
  BY <1>1, <1>3, NowIs, RangesAssumption
<1>5. \A i \in 1..Len(observations') : Faithful(observations'[i])
  <2>. SUFFICES ASSUME NEW i \in 1..Len(observations')  PROVE  Faithful(observations'[i])
    OBVIOUS
  <2>1. observations'[i] = observations[i + 1] /\ i + 1 \in 1..Len(observations)
    BY <1>1, <1>3
  <2>. QED  BY <2>1, NowIs
<1>6. /\ active' \in Ranges \cup {Absent} /\ RangeSound(active', initialized')
      /\ QueueInv(observations', active') /\ LastInv(last', observations', active')
      /\ end' \in EndReports \cup {Absent} /\ EndSound(end')
  BY <1>1, <1>2 DEF Taken
<1>. HIDE DEF o, s
<1>7. observations' \in Seq(Observations) /\ last' \in Observations \cup {Absent}
      /\ last' # Absent /\ Faithful(last') /\ busy' \in BOOLEAN /\ initialized' \in BOOLEAN
      /\ rangeStore' \in [active : Ranges \cup {Absent}, initialized : BOOLEAN]
      /\ RangeSound(rangeStore'.active, rangeStore'.initialized)
  BY <1>1, <1>3, <1>4, NowIs
<1>. QED  BY <1>1, <1>4, <1>5, <1>6, <1>7, NowIs, StepIs

LEMMA FinishStep == RangesInv /\ Finish => RangesInv'
<1>. SUFFICES ASSUME RangesInv, Finish  PROVE  RangesInv'
  OBVIOUS
<1>1. /\ UNCHANGED <<tx, owner, phase, active, initialized, observations, end>>
      /\ busy /\ busy' = FALSE /\ (rangeStore' = RangePayload \/ rangeStore' = rangeStore)
      /\ (last' = Absent \/ last' = [last EXCEPT !.age = 0])
  BY DEF Finish, executor, rangeModel
<1>2. last \in Observations /\ last # Absent /\ Faithful(last)
      /\ LastInv(last, observations, active) /\ 0 \in 0..MaxLag
  BY <1>1, NowIs, RangesAssumption
<1>3. last' \in Observations \cup {Absent} /\ (last' # Absent => Faithful(last'))
      /\ LastInv(last', observations, active)
  <2>1. CASE last' = Absent
    BY <2>1 DEF LastInv
  <2>2. CASE last' = [last EXCEPT !.age = 0]
    BY <1>2, <2>2, YoungerIs, AlikeIs
  <2>. QED  BY <1>1, <2>1, <2>2
<1>4. /\ rangeStore' \in [active : Ranges \cup {Absent}, initialized : BOOLEAN]
      /\ RangeSound(rangeStore'.active, rangeStore'.initialized)
  <2>1. CASE rangeStore' = RangePayload
    BY <2>1, NowIs DEF RangePayload
  <2>2. CASE rangeStore' = rangeStore
    BY <2>2, NowIs
  <2>. QED  BY <1>1, <2>1, <2>2
<1>5. busy' \in BOOLEAN /\ ~busy'
  BY <1>1
<1>. QED  BY <1>1, <1>3, <1>4, <1>5, NowIs, StepIs

LEMMA RestartStep == RangesInv /\ RestartFromStore => RangesInv'
<1>. SUFFICES ASSUME RangesInv, RestartFromStore  PROVE  RangesInv'
  OBVIOUS
<1>1. PICK found \in {rangeStore, NoRanges, RangePayload} :
         active' = found.active /\ initialized' = found.initialized /\ rangeStore' = found
  BY Zenon DEF RestartFromStore
<1>2. /\ UNCHANGED <<tx, owner, phase, end>> /\ observations' = <<>> /\ last' = Absent
      /\ busy' = FALSE
  BY DEF RestartFromStore
<1>3. /\ found \in [active : Ranges \cup {Absent}, initialized : BOOLEAN]
      /\ RangeSound(found.active, found.initialized)
  <2>1. CASE found = rangeStore
    BY <2>1, NowIs
  <2>2. CASE found = NoRanges
    BY <2>2 DEF NoRanges, RangeSound
  <2>3. CASE found = RangePayload
    BY <2>3, NowIs DEF RangePayload
  <2>. QED  BY <2>1, <2>2, <2>3
<1>4. /\ active' \in Ranges \cup {Absent} /\ initialized' \in BOOLEAN
      /\ RangeSound(active', initialized')
  BY <1>1, <1>3
<1>5. observations' \in Seq(Observations) /\ Len(observations') = 0 /\ 0 <= MaxQueued
  BY <1>2, RangesAssumption
<1>6. QueueInv(observations', active') /\ LastInv(last', observations', active')
  BY <1>2, <1>5 DEF QueueInv, InOrder, After, EndsLast, EndsCome, LastInv
<1>7. busy' \in BOOLEAN /\ ~busy' /\ Len(observations') <= MaxQueued
      /\ \A i \in 1..Len(observations') : Faithful(observations'[i])
  <2>1. 1..Len(observations') = {}
    BY <1>5
  <2>. QED  BY <1>2, <1>5, <2>1
<1>. QED  BY <1>1, <1>2, <1>3, <1>4, <1>5, <1>6, <1>7, NowIs, StepIs

LEMMA TimeStep == RangesInv /\ TimeGoesOn => RangesInv'
<1>. SUFFICES ASSUME RangesInv, TimeGoesOn  PROVE  RangesInv'
  OBVIOUS
<1>1. /\ UNCHANGED <<tx, owner, phase, initialized, busy, end>>
      /\ \A i \in DOMAIN observations : observations[i].age < MaxLag
      /\ busy => last.age < MaxLag
      /\ observations' = [i \in DOMAIN observations |-> [observations[i] EXCEPT !.age = @ + 1]]
      /\ last' = IF busy THEN [last EXCEPT !.age = @ + 1] ELSE last
      /\ active' = Aged(active) /\ rangeStore' = [rangeStore EXCEPT !.active = Aged(@)]
  BY DEF TimeGoesOn, executor
<1>2. ASSUME NEW o \in Observations, o.age < MaxLag
      PROVE  LET p == [o EXCEPT !.age = @ + 1]
             IN p \in Observations /\ p # Absent /\ Alike(p, o)
  <2>. DEFINE n == o.age + 1
  <2>1. n \in 0..MaxLag
    BY <1>2, RangesAssumption DEF Observations
  <2>2. [o EXCEPT !.age = @ + 1] = [o EXCEPT !.age = n]
    OBVIOUS
  <2>. HIDE DEF n
  <2>. QED  BY <2>1, <2>2, YoungerIs
\* The queue and the last observation, older.
<1>3. /\ observations' \in Seq(Observations) /\ Len(observations') = Len(observations)
      /\ \A i \in 1..Len(observations) : Alike(observations'[i], observations[i])
  <2>1. observations \in Seq(Observations) /\ DOMAIN observations = 1..Len(observations)
        /\ Len(observations) \in Nat
    BY NowIs
  <2>2. ASSUME NEW i \in 1..Len(observations)
        PROVE  /\ [observations[i] EXCEPT !.age = @ + 1] \in Observations
               /\ observations'[i] = [observations[i] EXCEPT !.age = @ + 1]
               /\ Alike(observations'[i], observations[i])
    <3>1. observations[i] \in Observations /\ observations[i].age < MaxLag
      BY <1>1, <2>1
    <3>2. observations'[i] = [observations[i] EXCEPT !.age = @ + 1]
      BY <1>1, <2>1
    <3>. QED  BY <1>2, <3>1, <3>2
  <2>3. observations' \in [1..Len(observations) -> Observations]
    BY <1>1, <2>1, <2>2
  <2>4. observations' \in Seq(Observations) /\ Len(observations') = Len(observations)
    BY <2>1, <2>3
  <2>. QED  BY <2>2, <2>4
<1>4. Within(observations', observations)
  <2>. DEFINE f == [i \in 1..Len(observations') |-> i]
  <2>1. /\ f \in [1..Len(observations') -> 1..Len(observations)]
        /\ \A i \in 1..Len(observations') : Alike(observations'[i], observations[f[i]])
        /\ \A i, j \in 1..Len(observations') : i < j => f[i] < f[j]
    BY <1>3
  <2>. HIDE DEF f
  <2>. QED  BY <2>1 DEF Within
<1>5. /\ QueueInv(observations', active)
      /\ \A o : LastInv(o, observations, active) => LastInv(o, observations', active)
      /\ \A i \in 1..Len(observations') : Faithful(observations'[i])
  <2>1. Len(observations) \in Nat
    BY NowIs
  <2>. QED  BY <1>3, <1>4, <2>1, NowIs, WithinKeeps
<1>6. last' \in Observations \cup {Absent} /\ (last' # Absent => Faithful(last'))
      /\ LastInv(last', observations', active) /\ (busy' => last' # Absent)
  <2>1. CASE busy
    <3>1. last \in Observations /\ last # Absent /\ last.age < MaxLag /\ Faithful(last)
          /\ LastInv(last, observations', active)
      BY <1>1, <1>5, <2>1, NowIs
    <3>2. last' = [last EXCEPT !.age = @ + 1]
      BY <1>1, <2>1
    <3>3. last' \in Observations /\ last' # Absent /\ Alike(last', last)
      BY <1>2, <3>1, <3>2
    <3>. QED  BY <3>1, <3>3, AlikeIs
  <2>2. CASE ~busy
    BY <1>1, <1>5, <2>2, NowIs
  <2>. QED  BY <2>1, <2>2, NowIs
\* The range, with an older gap.
<1>7. /\ active' \in Ranges \cup {Absent} /\ RangeSound(active', initialized')
      /\ QueueInv(observations', active') /\ LastInv(last', observations', active')
  <2>. DEFINE a == Aged(active)
  <2>1. /\ a \in Ranges \cup {Absent} /\ (active = Absent <=> a = Absent)
        /\ active # Absent => /\ a.txs = active.txs /\ a.pol = active.pol /\ a.conf = active.conf
                              /\ a.fail = active.fail /\ (active.gap # Absent => a.gap # Absent)
    BY NowIs, AgedIs
  <2>. HIDE DEF a
  <2>2. /\ \A q : QueueInv(q, active) => QueueInv(q, a)
        /\ \A o, q : LastInv(o, q, active) => LastInv(o, q, a)
        /\ \A k : RangeSound(active, k) => RangeSound(a, k)
    BY <2>1, RangeAlike
  <2>3. active' = a /\ initialized' = initialized
    BY <1>1 DEF a
  <2>. QED  BY <1>5, <1>6, <2>1, <2>2, <2>3, NowIs
<1>8. /\ rangeStore' \in [active : Ranges \cup {Absent}, initialized : BOOLEAN]
      /\ RangeSound(rangeStore'.active, rangeStore'.initialized)
  <2>. DEFINE r == rangeStore.active
              a == Aged(r)
  <2>0. r \in Ranges \cup {Absent} /\ rangeStore.initialized \in BOOLEAN
    BY NowIs
  <2>1. /\ a \in Ranges \cup {Absent} /\ (r = Absent <=> a = Absent)
        /\ r # Absent => /\ a.txs = r.txs /\ a.pol = r.pol /\ a.conf = r.conf
                         /\ a.fail = r.fail /\ (r.gap # Absent => a.gap # Absent)
    BY <2>0, AgedIs
  <2>. HIDE DEF a
  <2>2. \A k : RangeSound(r, k) => RangeSound(a, k)
    BY <2>1, RangeAlike
  <2>3. rangeStore' = [rangeStore EXCEPT !.active = a]
    BY <1>1 DEF a
  <2>4. rangeStore'.active = a /\ rangeStore'.initialized = rangeStore.initialized
        /\ rangeStore' \in [active : Ranges \cup {Absent}, initialized : BOOLEAN]
    BY <2>0, <2>1, <2>3, NowIs
  <2>. QED  BY <2>2, <2>4, NowIs
<1>9. busy' \in BOOLEAN /\ initialized' \in BOOLEAN /\ end' \in EndReports \cup {Absent}
      /\ EndSound(end') /\ Len(observations') <= MaxQueued
  BY <1>1, <1>3, NowIs
<1>. QED  BY <1>1, <1>3, <1>5, <1>6, <1>7, <1>8, <1>9, NowIs, StepIs

LEMMA RangesStep == RangesInv /\ [RangesNext]_rangeVars => RangesInv'
<1>. SUFFICES ASSUME RangesInv, [RangesNext]_rangeVars  PROVE  RangesInv'
  OBVIOUS
<1>1. CASE UNCHANGED rangeVars
  <2>1. UNCHANGED <<tx, owner, phase, observations, last, busy, active, initialized,
                    rangeStore, end>>
    BY <1>1 DEF rangeVars, executor, rangeModel, worker
  <2>. QED  BY <2>1, NowIs, StepIs
<1>. QED  BY <1>1, ExecutorStep, FrameStep, GapStep, TakeStep, FinishStep, RestartStep, TimeStep
          DEF RangesNext

\* An END that the energy manager reports is true of the inverter: no transaction of
\* its range executes any more, and unless it says "unconfirmed" all of them were
\* restored.  For any number of transactions and policies, any queue (whatever it
\* gives up when it is full), any continuity period and lag of the worker, and any
\* restarts and failed saves (RangeNotificationModel, EnergyNotificationRuntime).
THEOREM EndsStayTrue == RangesSpec => []EndsAreTrue
<1>1. RangesInv => EndsAreTrue
  <2>. SUFFICES ASSUME RangesInv, end # Absent
                PROVE  /\ phase = "executing" => tx \notin end.txs
                       /\ end.outcome # "unconfirmed" =>
                             \A t \in end.txs : t < tx \/ phase = "restored"
    BY DEF EndsAreTrue
  <2>1. tx \in Nat
    BY RangesAssumption DEF RangesInv, RangesTyped
  <2>2. /\ \A t \in end.txs : Ended(t)
        /\ end.outcome # "unconfirmed" => \A t \in end.txs : Released(t)
    BY DEF RangesInv, EndSound
  <2>3. phase = "executing" => ~Ended(tx)
    BY <2>1 DEF Ended
  <2>. QED  BY <2>2, <2>3 DEF Released
<1>. QED  BY <1>1, RangesInitHolds, RangesStep, PTL DEF RangesSpec
=============================================================================
