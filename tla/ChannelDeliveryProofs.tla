------------------------ MODULE ChannelDeliveryProofs ------------------------
(***************************************************************************)
(* Proofs about ChannelDelivery for every number of channels, broadcasts,  *)
(* inbound messages and crashes: DIInv is inductive, and the four safety   *)
(* invariants follow from it.                                              *)
(***************************************************************************)
EXTENDS ChannelDelivery, FiniteSetTheorems, WellFoundedInduction, TLAPS

USE ChannelsPositive, DeliveryBoundsNat DEF Channels, Out, In

-----------------------------------------------------------------------------
(* First and Max.                                                          *)

\* A set of numbers that is not empty has a least element, and First is it.
LEMMA FirstIsLeast ==
  ASSUME NEW S, S \subseteq Nat, S # {}
  PROVE  First(S) \in S /\ \A y \in S : First(S) <= y
<1> DEFINE Below == {0..x : x \in S}
<1>1. Below \subseteq FiniteSubsetsOf(Nat) /\ Below # {}
  <2>1. \A x \in S : 0..x \subseteq Nat /\ IsFiniteSet(0..x)
    BY FS_Interval
  <2> QED
    BY <2>1 DEF FiniteSubsetsOf
<1>2. IsWellFoundedOn(StrictSubsetOrdering(Nat), FiniteSubsetsOf(Nat))
  BY FS_StrictSubsetOrderingWellFounded
<1>3. \E X \in Below : \A Y \in Below : <<Y, X>> \notin StrictSubsetOrdering(Nat)
  <2> HIDE DEF Below
  <2> QED
    BY <1>1, <1>2, WFMin
<1>4. PICK x \in S : \A y \in S : <<0..y, 0..x>> \notin StrictSubsetOrdering(Nat)
  BY <1>3
<1>5. ASSUME NEW y \in S, y < x
      PROVE  <<0..y, 0..x>> \in StrictSubsetOrdering(Nat)
  <2>1. 0..y \subseteq 0..x /\ 0..x \subseteq Nat /\ x \in 0..x /\ x \notin 0..y
    BY <1>5
  <2> QED
    BY <2>1 DEF StrictSubsetOrdering
<1>6. \A y \in S : ~(y < x)
  <2> HIDE DEF Below
  <2> QED
    BY <1>4, <1>5, Zenon
<1>7. \A y \in S : x <= y
  BY <1>6
<1> QED
  BY <1>7 DEF First, Min

\* The larger of two numbers.
LEMMA MaxOfTwo ==
  ASSUME NEW a \in Nat, NEW b \in Nat
  PROVE  Max({a, b}) \in {a, b} /\ Max({a, b}) >= a /\ Max({a, b}) >= b
<1>1. \E x \in {a, b} : \A y \in {a, b} : x >= y
  <2>1. CASE a >= b
    BY <2>1
  <2>2. CASE ~(a >= b)
    BY <2>2
  <2> QED
    BY <2>1, <2>2
<1> QED
  BY <1>1 DEF Max
\* There is a channel, and the reconciler can be idle before each.
LEMMA OneIsChannel == 1 \in Channels
OBVIOUS

LEMMA RecAtType ==
  ASSUME NEW c \in Channels
  PROVE  RecAt(c) \in ReconcilerStates /\ RecAt(c).pc = "idle"
BY DEF RecAt, ReconcilerStates

\* What the new cursor covers stays recorded and delivered when a broadcast moves on.
LEMMA RecordedStays ==
  ASSUME DIInv, UNCHANGED <<rec, out_cursor>>,
         \A m \in Out : Recorded(m) => Recorded(m)',
         \A m \in Out, c \in Channels : Recorded(m) /\ Undelivered(m, c)' => Undelivered(m, c)
  PROVE  NewOutboundSound' /\ OutboundCursorSound'
<1>1. rec.ch \in Channels /\ rec.new_out \in 0..MaxOutbound
  BY DEF DIInv, DTypeOK, DTypes, ReconcilerStates
<1>2. \A c \in Channels : out_cursor[c] \in 0..MaxOutbound
  BY DEF DIInv, DTypeOK, DTypes
<1>3. \A c \in Channels : \A m \in 1..out_cursor[c] : m \in Out /\ Recorded(m) /\ ~Undelivered(m, c)
  BY <1>2 DEF DIInv, NewOutboundSound, OutboundCursorSound
<1>4. rec.pc \in {"outbound", "mark"} =>
        \A m \in 1..rec.new_out : m \in Out /\ Recorded(m) /\ ~Undelivered(m, rec.ch)
  BY <1>1 DEF DIInv, NewOutboundSound
<1>5. \A c \in Channels : \A m \in 1..out_cursor[c] : Recorded(m)' /\ ~Undelivered(m, c)'
  BY <1>3
<1>6. rec.pc \in {"outbound", "mark"} => \A m \in 1..rec.new_out : Recorded(m)' /\ ~Undelivered(m, rec.ch)'
  BY <1>1, <1>4
<1>7. rec' = rec /\ out_cursor' = out_cursor
  OBVIOUS
<1>8. OutboundCursorSound'
  BY <1>5, <1>7 DEF OutboundCursorSound
<1>9. NewOutboundSound'
  BY <1>5, <1>6, <1>7 DEF NewOutboundSound, Undelivered
<1> QED
  BY <1>8, <1>9

-----------------------------------------------------------------------------
(* Broadcasts.                                                             *)

\* The ledger's order stands as long as neither it nor a broadcast moves.
LEMMA LedgerUntouched ==
  ASSUME DIInv, UNCHANGED <<rows, bcast>>
  PROVE  RowsAndTargets' /\ RecordedInOrder'
BY DEF DIInv, DTypeOK, RowsAndTargets, RecordedInOrder, HasRow, Recorded

\* A broadcast starts: it has no row, and no later one has started.
LEMMA BroadcastKeeps ==
  ASSUME NEW m \in Out, NEW targets \in SUBSET Channels, DIInv, Broadcast(m, targets)
  PROVE  DIInv'
<1> USE DEF DIInv, DTypeOK
<1>1. UNCHANGED <<rows, posted, in_cursor, out_cursor, sent_in, stored, filtered, rec, dcrashes>>
  BY DEF Broadcast, invars, curvars
<1>2. bcast[m].pc = "none" /\ \A k \in 1..(m - 1) : bcast[k].pc # "none"
  BY DEF Broadcast
<1>3. PICK pc \in {"record", "over"} :
        /\ bcast' = [bcast EXCEPT ![m].pc = pc, ![m].left = targets]
        /\ pc = "record" => targets # {}
  BY DEF Broadcast
<1>4. bcast \in [Out -> BroadcastStates]
  BY DEF DTypes
<1>5. /\ bcast' \in [Out -> BroadcastStates]
      /\ bcast'[m].pc \in {"record", "over"} /\ (bcast'[m].pc = "record" => bcast'[m].left # {})
      /\ \A k \in Out \ {m} : bcast'[k] = bcast[k]
  BY <1>3, <1>4 DEF BroadcastStates
<1>6. DTypes'
  BY <1>1, <1>5 DEF DTypes
<1>7. RowsAndTargets'
  BY <1>1, <1>2, <1>5 DEF RowsAndTargets
<1>8. RecordedInOrder'
  <2>1. ASSUME NEW n \in Out, NEW k \in 1..(n - 1), bcast'[n].pc # "none"
        PROVE  bcast'[k].pc # "none"
    <3>1. k \in Out
      OBVIOUS
    <3>2. CASE n = m
      BY <1>2, <1>5, <3>1, <3>2
    <3>3. CASE n # m
      BY <1>5, <2>1, <3>1, <3>3 DEF RecordedInOrder
    <3> QED
      BY <3>2, <3>3
  <2>2. ASSUME NEW n \in Out, NEW k \in 1..(n - 1), HasRow(n)'
        PROVE  Recorded(k)'
    <3>1. k \in Out /\ HasRow(n)
      BY <1>1, <2>2 DEF HasRow
    <3>2. Recorded(k)
      BY <3>1 DEF RecordedInOrder
    <3> QED
      BY <1>2, <1>5, <3>1, <3>2 DEF Recorded
  <2> QED
    BY <2>1, <2>2 DEF RecordedInOrder
<1>9. MarkIsTruthful'
  BY <1>1, <1>5 DEF MarkIsTruthful
<1>10. NewOutboundSound'
  <2>1. \A k \in Out : Recorded(k) => Recorded(k)'
    BY <1>2, <1>5 DEF Recorded
  <2> QED
    BY <1>1, <2>1, RecordedStays DEF Undelivered
<1>11. DeliveredWasPosted' /\ OutboundCursorSound' /\ InboundCursorSound' /\ RetryCovers' /\ PageCovered'
  BY <1>1 DEF DeliveredWasPosted, OutboundCursorSound, InboundCursorSound, RetryCovers, PageCovered, Undelivered
<1> QED
  BY <1>6, <1>7, <1>8, <1>9, <1>10, <1>11

\* The rows of a broadcast appear: no earlier broadcast waits for its rows, and no later
\* one has any, so neither a cursor nor a retry has gone past them.
LEMMA RecordKeeps ==
  ASSUME NEW m \in Out, NEW ok \in BOOLEAN, DIInv, Record(m, ok)
  PROVE  DIInv'
<1> USE DEF DIInv, DTypeOK
<1>1. UNCHANGED <<posted, in_cursor, out_cursor, sent_in, stored, filtered, rec, dcrashes>>
  BY DEF Record, invars, curvars
<1>2. /\ bcast[m].pc = "record" /\ ~Recorded(m)
      /\ \A k \in 1..(m - 1) : bcast[k].pc # "record"
  BY DEF Record, Recorded
<1>3. bcast' = [bcast EXCEPT ![m].pc = "send", ![m].ledger = ok]
  BY DEF Record
<1>4. bcast \in [Out -> BroadcastStates]
  BY DEF DTypes
<1>5. /\ bcast' \in [Out -> BroadcastStates]
      /\ bcast'[m].pc = "send" /\ bcast'[m].ledger = ok /\ bcast'[m].left = bcast[m].left
      /\ \A k \in Out \ {m} : bcast'[k] = bcast[k]
  BY <1>3, <1>4 DEF BroadcastStates
<1>6. bcast[m].left # {} /\ bcast[m].left \subseteq Channels /\ \A c \in Channels : rows[m][c] = "none"
  BY <1>2, <1>4 DEF RowsAndTargets, BroadcastStates
<1>7. /\ rows' \in [Out -> [Channels -> RowStates]]
      /\ \A k \in Out \ {m} : rows'[k] = rows[k]
      /\ \A c \in Channels : rows'[m][c] \in {"none", "pending"}
      /\ ok => \A c \in bcast[m].left : rows'[m][c] = "pending"
  <2>1. rows \in [Out -> [Channels -> RowStates]]
    BY DEF DTypes
  <2>2. CASE ok
    <3>1. rows' = [rows EXCEPT ![m] = [c \in Channels |-> IF c \in bcast[m].left THEN "pending" ELSE "none"]]
      BY <2>2 DEF Record
    <3> QED
      BY <1>6, <2>1, <3>1 DEF RowStates
  <2>3. CASE ~ok
    BY <1>6, <2>1, <2>3 DEF Record, RowStates
  <2> QED
    BY <2>2, <2>3
<1>8. \A k \in Out : Recorded(k) => Recorded(k)'
  BY <1>5 DEF Recorded
<1>9. \A k \in Out, c \in Channels : Recorded(k) /\ Undelivered(k, c)' => Undelivered(k, c)
  BY <1>2, <1>7 DEF Undelivered
<1>10. DTypes'
  BY <1>1, <1>5, <1>7 DEF DTypes
<1>11. RowsAndTargets'
  <2>1. ASSUME NEW k \in Out, k # m
        PROVE  rows'[k] = rows[k] /\ bcast'[k] = bcast[k]
    BY <1>5, <1>7, <2>1
  <2>2. bcast'[m].pc = "send" /\ bcast'[m].left # {}
    BY <1>5, <1>6
  <2> QED
    BY <2>1, <2>2 DEF RowsAndTargets
<1>12. RecordedInOrder'
  <2>1. ASSUME NEW n \in Out, NEW k \in 1..(n - 1)
        PROVE  k \in Out /\ (bcast'[n].pc # "none" => bcast'[k].pc # "none")
    BY <1>2, <1>5 DEF RecordedInOrder
  <2>2. ASSUME NEW n \in Out, NEW k \in 1..(n - 1), HasRow(n)'
        PROVE  Recorded(k)'
    <3>1. k \in Out
      OBVIOUS
    <3>2. CASE n = m
      <4>1. bcast[k].pc \notin {"none", "record"}
        BY <1>2, <3>2 DEF RecordedInOrder
      <4> QED
        BY <1>8, <3>1, <4>1 DEF Recorded
    <3>3. CASE n # m
      BY <1>7, <1>8, <2>2, <3>1, <3>3 DEF RecordedInOrder, HasRow
    <3> QED
      BY <3>2, <3>3
  <2> QED
    BY <2>1, <2>2 DEF RecordedInOrder
<1>13. MarkIsTruthful'
  <2>1. ASSUME NEW k \in Out, k # m
        PROVE  rows'[k] = rows[k] /\ bcast'[k] = bcast[k]
    BY <1>5, <1>7, <2>1
  <2>2. ok => \A c \in bcast[m].left : rows'[m][c] # "none"
    BY <1>7
  <2> QED
    BY <1>1, <1>5, <2>1, <2>2 DEF MarkIsTruthful
<1>14. RetryCovers'
  <2> SUFFICES ASSUME rec.pc \in {"outbound", "mark"}, NEW p \in rec.pending
               PROVE  /\ rows'[p][rec.ch] # "none"
                      /\ \A k \in 1..(p - 1) : Undelivered(k, rec.ch)' => k \in rec.pending
    BY <1>1 DEF RetryCovers, Undelivered
  <2>1. rec.ch \in Channels /\ p \in Out
    BY DEF DTypes, ReconcilerStates
  <2>2. rows[p][rec.ch] # "none" /\ p # m
    BY <1>6, <2>1 DEF RetryCovers
  <2>3. ASSUME NEW k \in 1..(p - 1), Undelivered(k, rec.ch)'
        PROVE  k \in rec.pending
    <3>1. k \in Out /\ HasRow(p)
      BY <2>1, <2>2 DEF HasRow
    <3>2. Recorded(k)
      BY <2>1, <3>1 DEF RecordedInOrder
    <3>3. Undelivered(k, rec.ch)
      BY <1>1, <1>9, <2>1, <2>3, <3>1, <3>2 DEF Undelivered
    <3> QED
      BY <3>3 DEF RetryCovers
  <2> QED
    BY <1>7, <2>1, <2>2, <2>3
<1>15. NewOutboundSound' /\ OutboundCursorSound'
  BY <1>1, <1>8, <1>9, RecordedStays
<1>16. DeliveredWasPosted'
  BY <1>1, <1>7 DEF DeliveredWasPosted
<1>17. InboundCursorSound' /\ PageCovered'
  BY <1>1 DEF InboundCursorSound, PageCovered
<1> QED
  BY <1>10, <1>11, <1>12, <1>13, <1>14, <1>15, <1>16, <1>17

\* A message is sent to the next target: what a channel has shown only grows, and a
\* delivery that raises nothing was shown.
LEMMA SendKeeps ==
  ASSUME NEW m \in Out, NEW outcome \in Outcomes, DIInv, Send(m, outcome)
  PROVE  DIInv'
<1> USE DEF DIInv, DTypeOK
<1> DEFINE c == First(bcast[m].left)
<1>1. UNCHANGED <<rows, in_cursor, out_cursor, sent_in, stored, filtered, rec, dcrashes>>
  BY DEF Send, invars, curvars
<1>2. bcast \in [Out -> BroadcastStates] /\ posted \in [Channels -> SUBSET Out]
  BY DEF DTypes
<1>3. bcast[m].pc = "send" /\ bcast[m].left \subseteq Channels /\ bcast[m].left # {}
  BY <1>2 DEF Send, RowsAndTargets, BroadcastStates
<1>4. c \in bcast[m].left /\ c \in Channels
  BY <1>3, FirstIsLeast
<1>5. /\ posted' \in [Channels -> SUBSET Out]
      /\ \A k \in Channels : posted[k] \subseteq posted'[k]
      /\ outcome.error = "none" => m \in posted'[c]
  <2>1. posted' = IF outcome.shown THEN [posted EXCEPT ![c] = @ \cup {m}] ELSE posted
    BY DEF Send
  <2>2. outcome.error = "none" => outcome.shown
    BY DEF Outcomes
  <2> QED
    <3> HIDE DEF c
    <3> QED
      BY <1>2, <1>4, <2>1, <2>2
<1>6. /\ bcast' \in [Out -> BroadcastStates]
      /\ \A k \in Out \ {m} : bcast'[k] = bcast[k]
      /\ \/ bcast'[m].pc = "over"
         \/ /\ bcast'[m].pc = "mark" /\ (bcast'[m].ok => outcome.error = "none")
            /\ bcast'[m].left = bcast[m].left /\ bcast'[m].ledger = bcast[m].ledger
  BY <1>2, <1>3 DEF Send, BroadcastStates
<1>7. \A k \in Out : (Recorded(k) => Recorded(k)') /\ (bcast[k].pc # "none" => bcast'[k].pc # "none")
  BY <1>3, <1>6 DEF Recorded
<1>8. DTypes'
  BY <1>1, <1>5, <1>6 DEF DTypes
<1>9. RowsAndTargets'
  BY <1>1, <1>3, <1>6 DEF RowsAndTargets
<1>10. RecordedInOrder'
  <2>1. ASSUME NEW n \in Out, NEW k \in 1..(n - 1)
        PROVE  k \in Out /\ (bcast'[n].pc # "none" => bcast'[k].pc # "none") /\ (HasRow(n)' => Recorded(k)')
    <3>1. k \in Out /\ (HasRow(n)' => HasRow(n)) /\ (bcast'[n].pc # "none" => bcast[n].pc # "none")
      BY <1>1, <1>3, <1>6 DEF HasRow
    <3>2. (bcast[n].pc # "none" => bcast[k].pc # "none") /\ (HasRow(n) => Recorded(k))
      BY DEF RecordedInOrder
    <3> QED
      BY <1>7, <3>1, <3>2
  <2> QED
    BY <2>1 DEF RecordedInOrder
<1>11. MarkIsTruthful'
  <2> HIDE DEF c
  <2>1. ASSUME NEW k \in Out, bcast'[k].pc \in {"send", "mark"}, bcast'[k].ledger
        PROVE  \A d \in bcast'[k].left : rows'[k][d] # "none"
    BY <1>1, <1>3, <1>6, <2>1 DEF MarkIsTruthful
  <2>2. ASSUME NEW k \in Out, bcast'[k].pc = "mark", bcast'[k].ok
        PROVE  k \in posted'[First(bcast'[k].left)]
    <3>1. CASE k = m
      BY <1>5, <1>6, <2>2, <3>1 DEF c
    <3>2. CASE k # m
      <4>1. bcast'[k] = bcast[k] /\ bcast[k].left \subseteq Channels /\ bcast[k].left # {}
        BY <1>2, <1>6, <2>2, <3>2 DEF RowsAndTargets, BroadcastStates
      <4>2. First(bcast[k].left) \in Channels
        BY <4>1, FirstIsLeast
      <4> QED
        BY <1>5, <2>2, <4>1, <4>2 DEF MarkIsTruthful
    <3> QED
      BY <3>1, <3>2
  <2>3. rec.ch \in Channels
    BY DEF DTypes, ReconcilerStates
  <2> QED
    BY <1>1, <1>5, <2>1, <2>2, <2>3 DEF MarkIsTruthful
<1>12. NewOutboundSound' /\ OutboundCursorSound'
  BY <1>1, <1>7, RecordedStays DEF Undelivered
<1>13. DeliveredWasPosted'
  BY <1>1, <1>5 DEF DeliveredWasPosted
<1>14. InboundCursorSound' /\ RetryCovers' /\ PageCovered'
  BY <1>1 DEF InboundCursorSound, RetryCovers, PageCovered, Undelivered
<1> QED
  BY <1>8, <1>9, <1>10, <1>11, <1>12, <1>13, <1>14

\* The outcome is marked: a delivery was shown, and a delivered row stays delivered.
LEMMA MarkKeeps ==
  ASSUME NEW m \in Out, NEW written \in BOOLEAN, DIInv, Mark(m, written)
  PROVE  DIInv'
<1> USE DEF DIInv, DTypeOK
<1> DEFINE c == First(bcast[m].left)
<1>1. UNCHANGED <<posted, in_cursor, out_cursor, sent_in, stored, filtered, rec, dcrashes>>
  BY DEF Mark, invars, curvars
<1>2. bcast \in [Out -> BroadcastStates] /\ rows \in [Out -> [Channels -> RowStates]]
  BY DEF DTypes
<1>3. bcast[m].pc = "mark" /\ bcast[m].left \subseteq Channels /\ bcast[m].left # {}
  BY <1>2 DEF Mark, RowsAndTargets, BroadcastStates
<1>4. c \in bcast[m].left /\ c \in Channels
  BY <1>3, FirstIsLeast
<1>5. /\ bcast' \in [Out -> BroadcastStates]
      /\ \A k \in Out \ {m} : bcast'[k] = bcast[k]
      /\ bcast'[m].left = bcast[m].left \ {c} /\ bcast'[m].ledger = bcast[m].ledger
      /\ bcast'[m].pc \in {"send", "over"} /\ (bcast'[m].pc = "send" => bcast'[m].left # {})
  <2>1. bcast' = [bcast EXCEPT ![m].left = bcast[m].left \ {c}, ![m].pc = AfterTarget(bcast[m].left \ {c})]
    BY DEF Mark
  <2> HIDE DEF c
  <2> QED
    BY <1>2, <1>3, <2>1 DEF BroadcastStates, AfterTarget
<1>6. /\ rows' \in [Out -> [Channels -> RowStates]]
      /\ \A k \in Out, d \in Channels :
           /\ rows'[k][d] = "none" <=> rows[k][d] = "none"
           /\ Undelivered(k, d)' => Undelivered(k, d)
           /\ rows'[k][d] = "delivered" => rows[k][d] = "delivered" \/ (k = m /\ d = c /\ bcast[m].ok)
  <2>1. CASE bcast[m].ledger /\ written
    <3>1. rows' = [rows EXCEPT ![m][c] = Marked(bcast[m].ok, @)]
      BY <2>1 DEF Mark
    <3>2. rows[m][c] # "none"
      BY <1>3, <1>4, <2>1 DEF MarkIsTruthful
    <3> HIDE DEF c
    <3> QED
      BY <1>2, <1>4, <3>1, <3>2 DEF Marked, Undelivered, RowStates
  <2>2. CASE ~(bcast[m].ledger /\ written)
    BY <1>2, <2>2 DEF Mark, Undelivered
  <2> QED
    BY <2>1, <2>2
<1> HIDE DEF c
<1>7. \A k \in Out : (Recorded(k) => Recorded(k)') /\ (bcast[k].pc # "none" => bcast'[k].pc # "none")
  BY <1>3, <1>5 DEF Recorded
<1>8. DTypes'
  BY <1>1, <1>5, <1>6 DEF DTypes
<1>9. RowsAndTargets'
  <2>1. ASSUME NEW k \in Out, bcast'[k].pc \in {"none", "record"}, NEW d \in Channels
        PROVE  rows'[k][d] = "none"
    <3>1. bcast[k].pc \in {"none", "record"}
      BY <1>3, <1>5, <2>1
    <3>2. rows[k][d] = "none"
      BY <3>1 DEF RowsAndTargets
    <3> QED
      BY <1>6, <3>2
  <2>2. \A k \in Out : bcast'[k].pc \in {"record", "send", "mark"} => bcast'[k].left # {}
    BY <1>3, <1>5 DEF RowsAndTargets
  <2> QED
    BY <2>1, <2>2 DEF RowsAndTargets
<1>10. RecordedInOrder'
  <2>1. ASSUME NEW n \in Out, NEW k \in 1..(n - 1)
        PROVE  k \in Out /\ (bcast'[n].pc # "none" => bcast'[k].pc # "none") /\ (HasRow(n)' => Recorded(k)')
    <3>1. k \in Out /\ (bcast'[n].pc # "none" => bcast[n].pc # "none")
      BY <1>3, <1>5
    <3>2. (bcast[n].pc # "none" => bcast[k].pc # "none") /\ (HasRow(n) => Recorded(k))
      BY DEF RecordedInOrder
    <3>3. HasRow(n)' => HasRow(n)
      BY <1>6 DEF HasRow
    <3> QED
      BY <1>7, <3>1, <3>2, <3>3
  <2> QED
    BY <2>1 DEF RecordedInOrder
<1>11. MarkIsTruthful'
  <2>1. ASSUME NEW k \in Out, bcast'[k].pc \in {"send", "mark"}, bcast'[k].ledger
        PROVE  \A d \in bcast'[k].left : rows'[k][d] # "none"
    <3>1. bcast[k].pc \in {"send", "mark"} /\ bcast[k].ledger /\ bcast'[k].left \subseteq bcast[k].left
      BY <1>3, <1>5, <2>1
    <3>2. \A d \in bcast[k].left : d \in Channels /\ rows[k][d] # "none"
      BY <1>2, <3>1 DEF MarkIsTruthful, BroadcastStates
    <3> QED
      BY <1>6, <3>1, <3>2
  <2>2. ASSUME NEW k \in Out, bcast'[k].pc = "mark", bcast'[k].ok
        PROVE  k \in posted'[First(bcast'[k].left)]
    <3>1. bcast'[k] = bcast[k]
      BY <1>5, <2>2
    <3> QED
      BY <1>1, <2>2, <3>1 DEF MarkIsTruthful
  <2> QED
    BY <1>1, <2>1, <2>2 DEF MarkIsTruthful
<1>12. NewOutboundSound' /\ OutboundCursorSound'
  BY <1>1, <1>6, <1>7, RecordedStays
<1>13. DeliveredWasPosted'
  <2>1. ASSUME NEW k \in Out, NEW d \in Channels, rows'[k][d] = "delivered"
        PROVE  k \in posted[d]
    BY <1>3, <1>6, <2>1 DEF DeliveredWasPosted, MarkIsTruthful, c
  <2> QED
    BY <1>1, <2>1 DEF DeliveredWasPosted
<1>14. RetryCovers'
  <2>1. rec.ch \in Channels /\ rec.pending \subseteq Out
    BY DEF DTypes, ReconcilerStates
  <2>2. ASSUME rec.pc \in {"outbound", "mark"}, NEW p \in rec.pending
        PROVE  rows'[p][rec.ch] # "none"
    <3>1. rows[p][rec.ch] # "none" /\ p \in Out
      BY <2>1, <2>2 DEF RetryCovers
    <3> QED
      BY <1>6, <2>1, <3>1
  <2>3. ASSUME rec.pc \in {"outbound", "mark"}, NEW p \in rec.pending, NEW k \in 1..(p - 1), Undelivered(k, rec.ch)'
        PROVE  k \in rec.pending
    <3>1. k \in Out
      BY <2>1
    <3>2. Undelivered(k, rec.ch)
      BY <1>1, <1>6, <2>1, <2>3, <3>1 DEF Undelivered
    <3> QED
      BY <2>3, <3>2 DEF RetryCovers
  <2> QED
    BY <1>1, <2>2, <2>3 DEF RetryCovers
<1>15. InboundCursorSound' /\ PageCovered'
  BY <1>1 DEF InboundCursorSound, PageCovered
<1> QED
  BY <1>8, <1>9, <1>10, <1>11, <1>12, <1>13, <1>14, <1>15

\* The host crashes: no broadcast and no visit is left, and what the database and the
\* channels have stays.
LEMMA HostCrashKeeps ==
  ASSUME DIInv, HostCrash
  PROVE  DIInv'
<1> USE DEF DIInv, DTypeOK
<1>1. UNCHANGED <<rows, posted, in_cursor, out_cursor, sent_in, stored, filtered>>
  BY DEF HostCrash, invars, curvars
<1>2. bcast \in [Out -> BroadcastStates]
  BY DEF DTypes
<1>3. /\ bcast' \in [Out -> BroadcastStates]
      /\ \A m \in Out : IF bcast[m].pc = "none" THEN bcast'[m] = bcast[m] ELSE bcast'[m].pc = "over"
  BY <1>2 DEF HostCrash, BroadcastStates
<1>4. rec' \in ReconcilerStates /\ rec'.pc = "idle"
  BY OneIsChannel, RecAtType DEF HostCrash
<1>5. \A m \in Out : (Recorded(m) => Recorded(m)') /\ (bcast[m].pc # "none" <=> bcast'[m].pc # "none")
  BY <1>3 DEF Recorded
<1>6. DTypes'
  <2>1. dcrashes \in 0..MaxCrashes /\ dcrashes < MaxCrashes /\ dcrashes' = dcrashes + 1
    BY DEF HostCrash, DTypes
  <2>2. dcrashes' \in 0..MaxCrashes
    BY <2>1
  <2> QED
    BY <1>1, <1>3, <1>4, <2>2 DEF DTypes
<1>7. RowsAndTargets'
  BY <1>1, <1>3 DEF RowsAndTargets
<1>8. RecordedInOrder'
  <2>1. ASSUME NEW n \in Out, NEW k \in 1..(n - 1)
        PROVE  (bcast'[n].pc # "none" => bcast'[k].pc # "none") /\ (HasRow(n)' => Recorded(k)')
    <3>1. k \in Out /\ (HasRow(n)' => HasRow(n))
      BY <1>1 DEF HasRow
    <3>2. (bcast[n].pc # "none" => bcast[k].pc # "none") /\ (HasRow(n) => Recorded(k))
      BY DEF RecordedInOrder
    <3> QED
      BY <1>5, <3>1, <3>2
  <2> QED
    BY <2>1 DEF RecordedInOrder
<1>9. MarkIsTruthful'
  BY <1>3, <1>4 DEF MarkIsTruthful
<1>10. NewOutboundSound'
  <2>1. \A c \in Channels : out_cursor[c] \in 0..MaxOutbound
    BY DEF DTypes
  <2>2. \A c \in Channels : \A m \in 1..out_cursor[c] : m \in Out /\ Recorded(m)
    BY <2>1 DEF NewOutboundSound
  <2> QED
    BY <1>1, <1>4, <1>5, <2>2 DEF NewOutboundSound
<1>11. DeliveredWasPosted' /\ OutboundCursorSound' /\ InboundCursorSound'
  BY <1>1 DEF DeliveredWasPosted, OutboundCursorSound, InboundCursorSound, Undelivered
<1>12. RetryCovers' /\ PageCovered'
  BY <1>4 DEF RetryCovers, PageCovered
<1> QED
  BY <1>6, <1>7, <1>8, <1>9, <1>10, <1>11, <1>12

-----------------------------------------------------------------------------
(* Users and the reconciler.                                               *)

\* A message is sent: what is stored or not allowed only grows.
LEMMA UserSendsKeeps ==
  ASSUME NEW c \in Channels, DIInv, UserSends(c)
  PROVE  DIInv'
<1> USE DEF DIInv, DTypeOK
<1>1. UNCHANGED <<rows, bcast, posted, in_cursor, out_cursor, rec, dcrashes>>
  BY DEF UserSends, outvars, curvars
<1>2. sent_in[c] < MaxInbound /\ sent_in' = [sent_in EXCEPT ![c] = @ + 1]
  BY DEF UserSends
<1>3. sent_in \in [Channels -> 0..MaxInbound]
  BY DEF DTypes
<1>4. sent_in' \in [Channels -> 0..MaxInbound] /\ sent_in'[c] \in In
  BY <1>2, <1>3
<1>5. stored \in [Channels -> SUBSET In] /\ filtered \in [Channels -> SUBSET In]
  BY DEF DTypes
<1>6. /\ stored' \in [Channels -> SUBSET In] /\ filtered' \in [Channels -> SUBSET In]
      /\ \A d \in Channels : stored[d] \cup filtered[d] \subseteq stored'[d] \cup filtered'[d]
  <2>1. \/ stored' = [stored EXCEPT ![c] = @ \cup {sent_in'[c]}] /\ filtered' = filtered
        \/ stored' = stored /\ filtered' = filtered
        \/ filtered' = [filtered EXCEPT ![c] = @ \cup {sent_in'[c]}] /\ stored' = stored
    BY DEF UserSends
  <2> QED
    BY <1>4, <1>5, <2>1
<1>7. DTypes'
  BY <1>1, <1>4, <1>6 DEF DTypes
<1>8. RowsAndTargets' /\ RecordedInOrder'
  BY <1>1, LedgerUntouched
<1>9. InboundCursorSound'
  BY <1>1, <1>6 DEF InboundCursorSound
<1>10. PageCovered'
  <2>1. rec.ch \in Channels
    BY DEF DTypes, ReconcilerStates
  <2> QED
    BY <1>1, <1>6, <2>1 DEF PageCovered
<1>11. DeliveredWasPosted' /\ OutboundCursorSound' /\ MarkIsTruthful' /\ RetryCovers' /\ NewOutboundSound'
  BY <1>1 DEF DeliveredWasPosted, OutboundCursorSound, MarkIsTruthful, RetryCovers, NewOutboundSound,
              Undelivered, Recorded
<1> QED
  BY <1>7, <1>8, <1>9, <1>10, <1>11

\* A step that only moves the reconciler leaves everything that is not about it.
LEMMA ReconcilerMoves ==
  ASSUME DIInv, UNCHANGED <<rows, bcast, posted, in_cursor, out_cursor, sent_in, stored, filtered, dcrashes>>,
         rec' \in ReconcilerStates
  PROVE  DTypeOK' /\ DeliveredWasPosted' /\ OutboundCursorSound' /\ InboundCursorSound' /\ RecordedInOrder'
<1>1. DTypes'
  BY DEF DIInv, DTypeOK, DTypes
<1>2. DeliveredWasPosted' /\ OutboundCursorSound' /\ InboundCursorSound'
  BY DEF DIInv, DeliveredWasPosted, OutboundCursorSound, InboundCursorSound, Undelivered
<1> QED
  BY <1>1, <1>2, LedgerUntouched DEF DTypeOK

\* Before a visit has come to the retry, it has nothing to keep of the ledger.
LEMMA BeforeRetry ==
  ASSUME DIInv, UNCHANGED <<rows, bcast, posted, out_cursor>>, rec'.pc \in {"idle", "inbound"}
  PROVE  MarkIsTruthful' /\ RetryCovers' /\ NewOutboundSound'
BY DEF DIInv, MarkIsTruthful, RetryCovers, NewOutboundSound, Recorded

\* The next channel is a channel.
LEMMA NextChannelType ==
  ASSUME DTypeOK
  PROVE  NextChannel \in ReconcilerStates /\ NextChannel.pc = "idle"
<1>1. rec.ch \in Channels
  BY DEF DTypeOK, DTypes, ReconcilerStates
<1>2. (IF rec.ch = NumChannels THEN 1 ELSE rec.ch + 1) \in Channels
  BY <1>1
<1> QED
  BY <1>2, RecAtType DEF NextChannel

\* A channel is passed over.
LEMMA SkipChannelKeeps ==
  ASSUME DIInv, SkipChannel
  PROVE  DIInv'
<1>1. UNCHANGED <<rows, bcast, posted, in_cursor, out_cursor, sent_in, stored, filtered, dcrashes>>
  BY DEF SkipChannel, outvars, invars, curvars
<1>2. rec' \in ReconcilerStates /\ rec'.pc = "idle"
  BY NextChannelType DEF SkipChannel, DIInv
<1>3. PageCovered'
  BY <1>2 DEF PageCovered
<1> QED
  BY <1>1, <1>2, <1>3, ReconcilerMoves, BeforeRetry DEF DIInv

\* A page is fetched: what it does not have is covered by the cursor.
LEMMA VisitKeeps ==
  ASSUME NEW c \in Channels, DIInv, Visit(c)
  PROVE  DIInv'
<1>1. UNCHANGED <<rows, bcast, posted, in_cursor, out_cursor, sent_in, stored, filtered, dcrashes>>
  BY DEF Visit, outvars, invars, curvars
<1>2. rec.ch = c /\ rec' = [rec EXCEPT !.pc = "inbound", !.msgs = Fetched(c), !.new_in = sent_in[c]]
  BY DEF Visit
<1>3. /\ rec \in ReconcilerStates /\ sent_in[c] \in 0..MaxInbound /\ Fetched(c) \subseteq In
      /\ in_cursor[c] \in 0..MaxInbound
  BY DEF DIInv, DTypeOK, DTypes, Fetched
<1>4. /\ rec' \in ReconcilerStates /\ rec'.pc = "inbound" /\ rec'.ch = c
      /\ rec'.msgs = Fetched(c) /\ rec'.new_in = sent_in[c]
  BY <1>2, <1>3 DEF ReconcilerStates
<1>5. ASSUME NEW i \in 1..sent_in[c]
      PROVE  i \in stored[c] \cup filtered[c] \cup Fetched(c)
  <2>1. CASE i <= in_cursor[c]
    BY <1>3, <2>1 DEF DIInv, InboundCursorSound
  <2>2. CASE i > in_cursor[c]
    BY <1>3, <2>2 DEF Fetched
  <2> QED
    BY <1>3, <2>1, <2>2
<1>6. PageCovered'
  BY <1>1, <1>4, <1>5 DEF PageCovered
<1> QED
  BY <1>1, <1>4, <1>6, ReconcilerMoves, BeforeRetry DEF DIInv

\* A message of the page that is stored or not allowed is passed over.
LEMMA SkipInboundKeeps ==
  ASSUME DIInv, SkipInbound
  PROVE  DIInv'
<1>1. UNCHANGED <<rows, bcast, posted, in_cursor, out_cursor, sent_in, stored, filtered, dcrashes>>
  BY DEF SkipInbound, outvars, invars, curvars
<1>2. /\ rec.pc = "inbound" /\ First(rec.msgs) \in stored[rec.ch] \cup filtered[rec.ch]
      /\ rec' = [rec EXCEPT !.msgs = rec.msgs \ {First(rec.msgs)}]
  BY DEF SkipInbound
<1>3. rec \in ReconcilerStates
  BY DEF DIInv, DTypeOK, DTypes
<1>4. /\ rec' \in ReconcilerStates /\ rec'.pc = "inbound" /\ rec'.ch = rec.ch /\ rec'.new_in = rec.new_in
      /\ rec'.msgs = rec.msgs \ {First(rec.msgs)}
  BY <1>2, <1>3 DEF ReconcilerStates
<1>5. 1..rec.new_in \subseteq stored[rec.ch] \cup filtered[rec.ch] \cup rec'.msgs
  BY <1>2, <1>4 DEF DIInv, PageCovered
<1>6. PageCovered'
  BY <1>1, <1>4, <1>5 DEF PageCovered
<1> QED
  BY <1>1, <1>4, <1>6, ReconcilerMoves, BeforeRetry DEF DIInv

\* A message of the page is stored.
LEMMA IngestKeeps ==
  ASSUME NEW raises \in BOOLEAN, DIInv, Ingest(raises)
  PROVE  DIInv'
<1> USE DEF DIInv, DTypeOK
<1> DEFINE i == First(rec.msgs)
<1>1. UNCHANGED <<rows, bcast, posted, in_cursor, out_cursor, sent_in, filtered, dcrashes>>
  BY DEF Ingest, outvars, curvars
<1>2. rec \in ReconcilerStates /\ stored \in [Channels -> SUBSET In]
  BY DEF DTypes
<1>3. rec.pc = "inbound" /\ rec.ch \in Channels /\ i \in In
  <2>1. rec.pc = "inbound" /\ rec.msgs # {} /\ rec.msgs \subseteq In /\ rec.ch \in Channels
    BY <1>2 DEF Ingest, ReconcilerStates
  <2> QED
    BY <2>1, FirstIsLeast
<1>4. /\ stored' = [stored EXCEPT ![rec.ch] = @ \cup {i}]
      /\ rec' = IF raises THEN RecAt(1) ELSE [rec EXCEPT !.msgs = rec.msgs \ {i}]
  BY DEF Ingest
<1> HIDE DEF i
<1>5. /\ stored' \in [Channels -> SUBSET In]
      /\ \A c \in Channels : stored[c] \subseteq stored'[c]
      /\ i \in stored'[rec.ch]
  BY <1>2, <1>3, <1>4
<1>6. /\ rec' \in ReconcilerStates
      /\ \/ rec'.pc = "idle"
         \/ /\ rec'.pc = "inbound" /\ rec'.ch = rec.ch /\ rec'.new_in = rec.new_in
            /\ rec'.msgs = rec.msgs \ {i}
  <2>1. CASE raises
    BY <1>4, <2>1, OneIsChannel, RecAtType
  <2>2. CASE ~raises
    BY <1>2, <1>3, <1>4, <2>2 DEF ReconcilerStates
  <2> QED
    BY <2>1, <2>2
<1>7. DTypes'
  BY <1>1, <1>5, <1>6 DEF DTypes
<1>8. RowsAndTargets' /\ RecordedInOrder'
  BY <1>1, LedgerUntouched
<1>9. InboundCursorSound'
  BY <1>1, <1>5 DEF InboundCursorSound
<1>10. PageCovered'
  <2>1. 1..rec.new_in \subseteq stored[rec.ch] \cup filtered[rec.ch] \cup rec.msgs
    BY <1>3 DEF PageCovered
  <2>2. 1..rec.new_in \subseteq stored'[rec.ch] \cup filtered[rec.ch] \cup (rec.msgs \ {i})
    BY <1>3, <1>5, <2>1
  <2> QED
    BY <1>1, <1>6, <2>2 DEF PageCovered
<1>11. DeliveredWasPosted' /\ OutboundCursorSound'
  BY <1>1 DEF DeliveredWasPosted, OutboundCursorSound, Undelivered
<1>12. MarkIsTruthful' /\ RetryCovers' /\ NewOutboundSound'
  BY <1>1, <1>6, BeforeRetry
<1> QED
  BY <1>7, <1>8, <1>9, <1>10, <1>11, <1>12

\* The retry starts: its snapshot has everything undelivered, and the page is stored.
LEMMA FetchPendingKeeps ==
  ASSUME DIInv, FetchPending
  PROVE  DIInv'
<1>1. UNCHANGED <<rows, bcast, posted, in_cursor, out_cursor, sent_in, stored, filtered, dcrashes>>
  BY DEF FetchPending, outvars, invars, curvars
<1>2. /\ rec.pc = "inbound" /\ rec.msgs = {}
      /\ rec' = [rec EXCEPT !.pc = "outbound", !.pending = {m \in Out : Undelivered(m, rec.ch)},
                            !.new_out = out_cursor[rec.ch]]
  BY DEF FetchPending
<1>3. rec \in ReconcilerStates /\ rec.ch \in Channels /\ out_cursor[rec.ch] \in 0..MaxOutbound
  BY DEF DIInv, DTypeOK, DTypes, ReconcilerStates
<1>4. /\ rec' \in ReconcilerStates /\ rec'.pc = "outbound" /\ rec'.ch = rec.ch
      /\ rec'.msgs = {} /\ rec'.new_in = rec.new_in
      /\ rec'.pending = {m \in Out : Undelivered(m, rec.ch)} /\ rec'.new_out = out_cursor[rec.ch]
  BY <1>2, <1>3 DEF ReconcilerStates
<1>5. MarkIsTruthful'
  BY <1>1, <1>4 DEF DIInv, MarkIsTruthful
<1>6. RetryCovers'
  BY <1>1, <1>4 DEF RetryCovers, Undelivered
<1>7. NewOutboundSound'
  <2>1. \A c \in Channels : \A m \in 1..out_cursor[c] : Recorded(m) /\ ~Undelivered(m, c)
    BY DEF DIInv, NewOutboundSound, OutboundCursorSound
  <2> QED
    BY <1>1, <1>3, <1>4, <2>1 DEF NewOutboundSound, Recorded, Undelivered
<1>8. PageCovered'
  BY <1>1, <1>2, <1>4 DEF DIInv, PageCovered
<1> QED
  BY <1>1, <1>4, <1>5, <1>6, <1>7, <1>8, ReconcilerMoves DEF DIInv

\* The retry sends a message: one that raises nothing was shown.
LEMMA ResendKeeps ==
  ASSUME NEW outcome \in Outcomes, DIInv, Resend(outcome)
  PROVE  DIInv'
<1> USE DEF DIInv, DTypeOK
<1> DEFINE m == First(rec.pending)
<1>1. UNCHANGED <<rows, bcast, in_cursor, out_cursor, sent_in, stored, filtered, dcrashes>>
  BY DEF Resend, invars, curvars
<1>2. rec \in ReconcilerStates /\ posted \in [Channels -> SUBSET Out]
  BY DEF DTypes
<1>3. rec.pc = "outbound" /\ rec.pending # {} /\ rec.ch \in Channels /\ m \in Out
  <2>1. rec.pc = "outbound" /\ rec.pending # {} /\ rec.pending \subseteq Out /\ rec.ch \in Channels
    BY <1>2 DEF Resend, ReconcilerStates
  <2> QED
    BY <2>1, FirstIsLeast
<1>4. /\ posted' = IF outcome.shown THEN [posted EXCEPT ![rec.ch] = @ \cup {m}] ELSE posted
      /\ rec' = [rec EXCEPT !.pc = "mark", !.ok = (outcome.error = "none")]
  BY DEF Resend
<1> HIDE DEF m
<1>5. outcome.error = "none" => outcome.shown
  BY DEF Outcomes
<1>6. /\ posted' \in [Channels -> SUBSET Out]
      /\ \A c \in Channels : posted[c] \subseteq posted'[c]
      /\ outcome.error = "none" => m \in posted'[rec.ch]
  BY <1>2, <1>3, <1>4, <1>5
<1>7. /\ rec' \in ReconcilerStates /\ rec'.pc = "mark" /\ (rec'.ok => outcome.error = "none")
      /\ rec'.ch = rec.ch /\ rec'.msgs = rec.msgs /\ rec'.pending = rec.pending
      /\ rec'.new_in = rec.new_in /\ rec'.new_out = rec.new_out
  BY <1>2, <1>4 DEF ReconcilerStates
<1>8. DTypes'
  BY <1>1, <1>6, <1>7 DEF DTypes
<1>9. RowsAndTargets' /\ RecordedInOrder'
  BY <1>1, LedgerUntouched
<1>10. DeliveredWasPosted'
  BY <1>1, <1>6 DEF DeliveredWasPosted
<1>11. MarkIsTruthful'
  <2>1. ASSUME NEW k \in Out, bcast[k].pc = "mark", bcast[k].ok
        PROVE  k \in posted'[First(bcast[k].left)]
    <3>1. bcast[k].left # {} /\ bcast[k].left \subseteq Channels
      BY <2>1 DEF RowsAndTargets, DTypes, BroadcastStates
    <3>2. First(bcast[k].left) \in Channels
      BY <3>1, FirstIsLeast
    <3> QED
      BY <1>6, <2>1, <3>2 DEF MarkIsTruthful
  <2> QED
    BY <1>1, <1>3, <1>6, <1>7, <2>1 DEF MarkIsTruthful, m
<1>12. RetryCovers' /\ NewOutboundSound'
  BY <1>1, <1>3, <1>7 DEF RetryCovers, NewOutboundSound, Recorded, Undelivered
<1>13. PageCovered'
  BY <1>1, <1>3, <1>7 DEF PageCovered
<1>14. OutboundCursorSound' /\ InboundCursorSound'
  BY <1>1 DEF OutboundCursorSound, InboundCursorSound, Undelivered
<1> QED
  BY <1>8, <1>9, <1>10, <1>11, <1>12, <1>13, <1>14

\* The outcome of the retry is marked.  A delivery was shown; nothing in front of it is
\* undelivered, so the new cursor may go there.
LEMMA MarkResentKeeps ==
  ASSUME NEW outcome \in {"delivered", "error", "raises"}, DIInv, MarkResent(outcome)
  PROVE  DIInv'
<1> USE DEF DIInv, DTypeOK
<1> DEFINE m == First(rec.pending)
           c == rec.ch
<1>1. UNCHANGED <<bcast, posted, in_cursor, out_cursor, sent_in, stored, filtered, dcrashes>>
  BY DEF MarkResent, invars, curvars
<1>2. rec \in ReconcilerStates /\ rows \in [Out -> [Channels -> RowStates]]
  BY DEF DTypes
<1>3. /\ rec.pc = "mark" /\ rec.pending \subseteq Out /\ c \in Channels /\ rec.new_out \in 0..MaxOutbound
      /\ rec.pending # {}
  BY <1>2 DEF MarkResent, ReconcilerStates, MarkIsTruthful
<1>4. m \in rec.pending /\ m \in Out /\ \A p \in rec.pending : m <= p
  BY <1>3, FirstIsLeast
<1>5. rows[m][c] # "none" /\ \A k \in 1..(m - 1) : ~Undelivered(k, c)
  BY <1>3, <1>4 DEF RetryCovers
<1>6. \/ /\ rec.ok /\ rows' = [rows EXCEPT ![m][c] = Marked(TRUE, @)]
         /\ rec' = [rec EXCEPT !.pc = "outbound", !.pending = rec.pending \ {m}, !.new_out = Max({rec.new_out, m})]
      \/ /\ rows' = [rows EXCEPT ![m][c] = Marked(FALSE, @)]
         /\ rec' = [rec EXCEPT !.pc = "outbound", !.pending = {}]
      \/ rows' = rows /\ rec' = RecAt(1)
  <2>1. rec.ok => rec.ok = TRUE
    BY <1>2 DEF ReconcilerStates
  <2> QED
    BY <2>1 DEF MarkResent, LeftAfterFailure
<1> HIDE DEF m, c
<1>7. ASSUME NEW ok \in BOOLEAN, rows' = [rows EXCEPT ![m][c] = Marked(ok, @)]
      PROVE  /\ rows' \in [Out -> [Channels -> RowStates]]
             /\ \A k \in Out, d \in Channels :
                  rows'[k][d] = IF k = m /\ d = c THEN Marked(ok, rows[k][d]) ELSE rows[k][d]
  BY <1>2, <1>3, <1>4, <1>7 DEF RowStates, Marked
<1>8. /\ rows' \in [Out -> [Channels -> RowStates]]
      /\ \A k \in Out, d \in Channels :
           /\ rows'[k][d] = "none" <=> rows[k][d] = "none"
           /\ Undelivered(k, d)' => Undelivered(k, d)
           /\ rows'[k][d] = "delivered" => rows[k][d] = "delivered" \/ (k = m /\ d = c /\ rec.ok)
  <2>1. rows[m][c] \in {"pending", "error", "delivered"}
    BY <1>2, <1>3, <1>4, <1>5 DEF RowStates
  <2>2. CASE rec.ok /\ rows' = [rows EXCEPT ![m][c] = Marked(TRUE, @)]
    BY <1>7, <2>1, <2>2 DEF Marked, Undelivered
  <2>3. CASE rows' = [rows EXCEPT ![m][c] = Marked(FALSE, @)]
    BY <1>7, <2>1, <2>3 DEF Marked, Undelivered
  <2>4. CASE rows' = rows
    BY <1>2, <2>4 DEF Undelivered
  <2> QED
    BY <1>6, <2>2, <2>3, <2>4
<1>9. /\ rec' \in ReconcilerStates
      /\ \/ rec'.pc = "idle"
         \/ /\ rec'.pc = "outbound" /\ rec'.ch = c /\ rec'.msgs = rec.msgs /\ rec'.new_in = rec.new_in
            /\ \/ rec'.pending = {} /\ rec'.new_out = rec.new_out
               \/ /\ rec'.pending = rec.pending \ {m} /\ rec'.new_out \in {rec.new_out, m}
                  /\ rows'[m][c] = "delivered"
  <2>1. CASE /\ rec.ok /\ rows' = [rows EXCEPT ![m][c] = Marked(TRUE, @)]
             /\ rec' = [rec EXCEPT !.pc = "outbound", !.pending = rec.pending \ {m}, !.new_out = Max({rec.new_out, m})]
    <3>1. rows'[m][c] = "delivered"
      BY <1>2, <1>3, <1>4, <2>1 DEF Marked
    <3>2. rec.new_out \in Nat /\ m \in Nat
      BY <1>3, <1>4
    <3>3. Max({rec.new_out, m}) \in {rec.new_out, m}
      BY <3>2, MaxOfTwo
    <3>4. Max({rec.new_out, m}) \in 0..MaxOutbound
      BY <1>3, <1>4, <3>3
    <3> QED
      BY <1>2, <1>3, <2>1, <3>1, <3>3, <3>4 DEF ReconcilerStates, c
  <2>2. CASE rec' = [rec EXCEPT !.pc = "outbound", !.pending = {}]
    BY <1>2, <2>2 DEF ReconcilerStates, c
  <2>3. CASE rec' = RecAt(1)
    BY <2>3, OneIsChannel, RecAtType
  <2> QED
    BY <1>6, <2>1, <2>2, <2>3
<1>10. DTypes'
  BY <1>1, <1>8, <1>9 DEF DTypes
<1>11. RowsAndTargets'
  BY <1>1, <1>8 DEF RowsAndTargets
<1>12. RecordedInOrder'
  <2>1. \A k \in Out : HasRow(k)' => HasRow(k)
    BY <1>8 DEF HasRow
  <2> QED
    BY <1>1, <2>1 DEF RecordedInOrder, Recorded
<1>13. DeliveredWasPosted'
  <2>1. rec.ok => m \in posted[c]
    BY <1>3 DEF MarkIsTruthful, m, c
  <2> QED
    BY <1>1, <1>8, <2>1 DEF DeliveredWasPosted
<1>14. OutboundCursorSound' /\ InboundCursorSound'
  <2>1. \A d \in Channels : out_cursor[d] \in 0..MaxOutbound
    BY DEF DTypes
  <2>2. \A d \in Channels : \A k \in 1..out_cursor[d] : k \in Out /\ ~Undelivered(k, d)
    BY <2>1 DEF OutboundCursorSound
  <2>3. \A d \in Channels : \A k \in 1..out_cursor[d] : ~Undelivered(k, d)'
    BY <1>8, <2>2
  <2> QED
    BY <1>1, <2>3 DEF OutboundCursorSound, InboundCursorSound
<1>15. MarkIsTruthful'
  <2>1. \A k \in Out : bcast[k].left \subseteq Channels
    BY DEF DTypes, BroadcastStates
  <2> QED
    BY <1>1, <1>8, <1>9, <2>1 DEF MarkIsTruthful
<1>16. RetryCovers'
  <2> SUFFICES ASSUME rec'.pc \in {"outbound", "mark"}, NEW p \in rec'.pending
               PROVE  /\ rows'[p][rec'.ch] # "none"
                      /\ \A k \in 1..(p - 1) : Undelivered(k, rec.ch)' => k \in rec'.pending
    BY DEF RetryCovers
  <2>1. /\ rec'.ch = c /\ rec'.pending = rec.pending \ {m} /\ rows'[m][c] = "delivered"
        /\ p \in rec.pending /\ p \in Out
    BY <1>3, <1>9
  <2>2. rows'[p][c] # "none"
    BY <1>3, <1>8, <2>1 DEF RetryCovers, c
  <2>3. ASSUME NEW k \in 1..(p - 1), Undelivered(k, rec.ch)'
        PROVE  k \in rec.pending \ {m}
    <3>1. k \in Out
      BY <2>1
    <3>2. rows'[k][c] \in {"pending", "error"}
      BY <2>1, <2>3 DEF Undelivered
    <3>3. Undelivered(k, c) /\ k # m
      BY <1>3, <1>8, <2>1, <3>1, <3>2 DEF Undelivered
    <3> QED
      BY <1>3, <2>1, <3>3 DEF RetryCovers, c
  <2> QED
    BY <2>1, <2>2, <2>3
<1>17. NewOutboundSound'
  <2>1. ASSUME rec'.pc \in {"outbound", "mark"}, NEW k \in 1..rec'.new_out
        PROVE  k \in Out /\ Recorded(k) /\ (~Undelivered(k, c) \/ rows'[k][c] = "delivered")
    <3>1. CASE k \in 1..rec.new_out
      BY <1>3, <3>1 DEF NewOutboundSound, c
    <3>2. CASE k \notin 1..rec.new_out
      <4>1. rec'.new_out = m /\ rows'[m][c] = "delivered"
        BY <1>9, <2>1, <3>2
      <4>2. HasRow(m) /\ Recorded(m)
        BY <1>3, <1>4, <1>5 DEF HasRow, Recorded, RowsAndTargets
      <4>3. CASE k = m
        BY <1>4, <4>1, <4>2, <4>3
      <4>4. CASE k \in 1..(m - 1)
        BY <1>4, <1>5, <4>2, <4>4 DEF RecordedInOrder
      <4> QED
        BY <1>4, <4>1, <4>3, <4>4
    <3> QED
      BY <3>1, <3>2
  <2>2. ASSUME rec'.pc \in {"outbound", "mark"}, NEW k \in 1..rec'.new_out
        PROVE  Recorded(k)' /\ ~Undelivered(k, rec.ch)'
    <3>1. Recorded(k)' /\ rec'.ch = c /\ k \in Out
      BY <1>1, <1>9, <2>1, <2>2 DEF Recorded
    <3>2. rows'[k][c] \notin {"pending", "error"}
      BY <1>3, <1>8, <2>1, <2>2, <3>1 DEF Undelivered
    <3> QED
      BY <3>1, <3>2 DEF Undelivered
  <2>3. \A d \in Channels : \A k \in 1..out_cursor'[d] : Recorded(k)'
    BY <1>1 DEF NewOutboundSound, Recorded
  <2> QED
    BY <2>2, <2>3 DEF NewOutboundSound
<1>18. PageCovered'
  BY <1>1, <1>3, <1>9 DEF PageCovered, c
<1> QED
  BY <1>10, <1>11, <1>12, <1>13, <1>14, <1>15, <1>16, <1>17, <1>18

\* Both cursors move to what the visit has covered.
LEMMA AdvanceCursorsKeeps ==
  ASSUME DIInv, AdvanceCursors
  PROVE  DIInv'
<1> USE DEF DIInv, DTypeOK
<1> DEFINE c == rec.ch
<1>1. UNCHANGED <<rows, bcast, posted, sent_in, stored, filtered, dcrashes>>
  BY DEF AdvanceCursors, outvars, invars
<1>2. rec' \in ReconcilerStates /\ rec'.pc = "idle"
  BY NextChannelType DEF AdvanceCursors
<1>3. rec.pc = "outbound" /\ c \in Channels /\ rec.new_in \in 0..MaxInbound /\ rec.new_out \in 0..MaxOutbound
  BY DEF AdvanceCursors, DTypes, ReconcilerStates
<1>4. in_cursor \in [Channels -> 0..MaxInbound] /\ out_cursor \in [Channels -> 0..MaxOutbound]
  BY DEF DTypes
<1>5. PICK i \in {in_cursor[c], rec.new_in} : in_cursor' = [in_cursor EXCEPT ![c] = i]
  <2>1. in_cursor' = [in_cursor EXCEPT ![c] = Max({in_cursor[c], rec.new_in})]
    BY DEF AdvanceCursors, NewInbound
  <2>2. in_cursor[c] \in Nat /\ rec.new_in \in Nat
    BY <1>3, <1>4
  <2>3. Max({in_cursor[c], rec.new_in}) \in {in_cursor[c], rec.new_in}
    BY <2>2, MaxOfTwo
  <2> QED
    BY <2>1, <2>3
<1>6. PICK o \in {out_cursor[c], rec.new_out} : out_cursor' = [out_cursor EXCEPT ![c] = o]
  <2>1. out_cursor' = [out_cursor EXCEPT ![c] = Max({out_cursor[c], rec.new_out})]
    BY DEF AdvanceCursors
  <2>2. out_cursor[c] \in Nat /\ rec.new_out \in Nat
    BY <1>3, <1>4
  <2>3. Max({out_cursor[c], rec.new_out}) \in {out_cursor[c], rec.new_out}
    BY <2>2, MaxOfTwo
  <2> QED
    BY <2>1, <2>3
<1>7. in_cursor' \in [Channels -> 0..MaxInbound] /\ out_cursor' \in [Channels -> 0..MaxOutbound]
  BY <1>3, <1>4, <1>5, <1>6
<1>8. DTypes'
  BY <1>1, <1>2, <1>7 DEF DTypes
<1>9. RowsAndTargets' /\ RecordedInOrder'
  BY <1>1, LedgerUntouched
<1>10. InboundCursorSound'
  <2>1. 1..rec.new_in \subseteq stored[c] \cup filtered[c]
    BY <1>3 DEF PageCovered
  <2> QED
    BY <1>1, <1>3, <1>4, <1>5, <2>1 DEF InboundCursorSound
<1>11. \A d \in Channels : \A m \in 1..out_cursor'[d] : Recorded(m) /\ ~Undelivered(m, d)
  <2>1. \A d \in Channels : \A m \in 1..out_cursor[d] : Recorded(m) /\ ~Undelivered(m, d)
    BY DEF NewOutboundSound, OutboundCursorSound
  <2>2. \A m \in 1..rec.new_out : Recorded(m) /\ ~Undelivered(m, c)
    BY <1>3 DEF NewOutboundSound
  <2>3. \A d \in Channels : out_cursor'[d] = IF d = c THEN o ELSE out_cursor[d]
    BY <1>3, <1>4, <1>6
  <2> HIDE DEF c
  <2> QED
    BY <1>6, <2>1, <2>2, <2>3
<1>12. OutboundCursorSound' /\ NewOutboundSound'
  BY <1>1, <1>2, <1>11 DEF OutboundCursorSound, NewOutboundSound, Recorded, Undelivered
<1>13. DeliveredWasPosted' /\ MarkIsTruthful' /\ RetryCovers' /\ PageCovered'
  BY <1>1, <1>2 DEF DeliveredWasPosted, MarkIsTruthful, RetryCovers, PageCovered
<1> QED
  BY <1>8, <1>9, <1>10, <1>12, <1>13

-----------------------------------------------------------------------------
(* The theorems.                                                           *)

\* DIInv holds in every reachable state.
THEOREM DeliveryInvariant == DSpec => []DIInv
<1>1. DInit => DIInv
  <2> SUFFICES ASSUME DInit
               PROVE  DIInv
    OBVIOUS
  <2>1. rec \in ReconcilerStates /\ rec.pc = "idle"
    BY OneIsChannel, RecAtType DEF DInit
  <2>2. \A m \in Out : bcast[m] = NoBroadcast /\ \A c \in Channels : rows[m][c] = "none"
    BY DEF DInit
  <2>3. \A c \in Channels : in_cursor[c] = 0 /\ out_cursor[c] = 0
    BY DEF DInit
  <2>4. DTypes
    BY <2>1 DEF DInit, DTypes, NoBroadcast, BroadcastStates, RowStates
  <2>5. RowsAndTargets /\ DeliveredWasPosted /\ RecordedInOrder /\ MarkIsTruthful
    BY <2>1, <2>2 DEF NoBroadcast, RowsAndTargets, DeliveredWasPosted, RecordedInOrder, HasRow, MarkIsTruthful
  <2>6. OutboundCursorSound /\ InboundCursorSound /\ RetryCovers /\ NewOutboundSound /\ PageCovered
    BY <2>1, <2>3 DEF OutboundCursorSound, InboundCursorSound, RetryCovers, NewOutboundSound, PageCovered
  <2> QED
    BY <2>4, <2>5, <2>6 DEF DIInv, DTypeOK
<1>2. DIInv /\ [DNext]_dvars => DIInv'
  <2> SUFFICES ASSUME DIInv, [DNext]_dvars
               PROVE  DIInv'
    OBVIOUS
  <2>1. CASE \E m \in Out : BroadcastStep(m)
    BY <2>1, BroadcastKeeps, RecordKeeps, SendKeeps, MarkKeeps DEF BroadcastStep
  <2>2. CASE \E c \in Channels : UserSends(c)
    BY <2>2, UserSendsKeeps
  <2>3. CASE ReconcileStep
    BY <2>3, SkipChannelKeeps, VisitKeeps, SkipInboundKeeps, IngestKeeps, FetchPendingKeeps, ResendKeeps,
       MarkResentKeeps, AdvanceCursorsKeeps DEF ReconcileStep
  <2>4. CASE HostCrash
    BY <2>4, HostCrashKeeps
  <2>5. CASE UNCHANGED dvars
    <3>1. UNCHANGED <<rows, bcast, posted, in_cursor, out_cursor, sent_in, stored, filtered, rec, dcrashes>>
      BY <2>5 DEF dvars, outvars, invars, curvars
    <3>2. rec' \in ReconcilerStates
      BY <3>1 DEF DIInv, DTypeOK, DTypes
    <3>3. MarkIsTruthful' /\ RetryCovers' /\ NewOutboundSound' /\ PageCovered'
      BY <3>1 DEF DIInv, MarkIsTruthful, RetryCovers, NewOutboundSound, PageCovered, Recorded, Undelivered
    <3> QED
      BY <3>1, <3>2, <3>3, ReconcilerMoves DEF DIInv
  <2> QED
    BY <2>1, <2>2, <2>3, <2>4, <2>5 DEF DNext
<1> QED
  BY <1>1, <1>2, PTL DEF DSpec

\* State is well-formed; in particular a broadcast that still sends has a target left, and
\* there is no row before it is recorded.
THEOREM DeliveryTypes == DSpec => []DTypeOK
<1>1. DIInv => DTypeOK
  BY DEF DIInv
<1> QED
  BY <1>1, DeliveryInvariant, PTL

\* What is marked delivered was shown on the channel.
THEOREM MarkedWasShown == DSpec => []DeliveredWasPosted
<1>1. DIInv => DeliveredWasPosted
  BY DEF DIInv
<1> QED
  BY <1>1, DeliveryInvariant, PTL

\* The retry sends nothing while an earlier row of the channel is undelivered.
THEOREM RetryKeepsOrder == DSpec => []RetriesInOrder
<1>1. DIInv => RetriesInOrder
  <2> SUFFICES ASSUME DIInv, rec.pc \in {"outbound", "mark"}, rec.pending # {},
                      NEW m \in 1..(First(rec.pending) - 1)
               PROVE  ~Undelivered(m, rec.ch)
    BY DEF RetriesInOrder
  <2>1. rec.pending \subseteq Nat
    BY DEF DIInv, DTypeOK, DTypes, ReconcilerStates
  <2>2. First(rec.pending) \in rec.pending /\ \A p \in rec.pending : First(rec.pending) <= p
    BY <2>1, FirstIsLeast
  <2>3. Undelivered(m, rec.ch) => m \in rec.pending
    BY <2>2 DEF DIInv, RetryCovers
  <2> QED
    BY <2>1, <2>2, <2>3
<1> QED
  BY <1>1, DeliveryInvariant, PTL

\* The outbound cursor never covers a row that is undelivered.
THEOREM OutboundCursorCovers == DSpec => []OutboundCursorSound
<1>1. DIInv => OutboundCursorSound
  BY DEF DIInv
<1> QED
  BY <1>1, DeliveryInvariant, PTL

\* The inbound cursor never covers a message that was dropped and not stored.
THEOREM InboundCursorCovers == DSpec => []InboundCursorSound
<1>1. DIInv => InboundCursorSound
  BY DEF DIInv
<1> QED
  BY <1>1, DeliveryInvariant, PTL

\* What the ledger calls delivered was shown, and the retry keeps its order.
THEOREM LedgerIsSound == DSpec => []LedgerSound
BY MarkedWasShown, RetryKeepsOrder, PTL DEF LedgerSound

\* Neither cursor covers anything that is still owed.
THEOREM CursorsAreSound == DSpec => []CursorsSound
BY OutboundCursorCovers, InboundCursorCovers, PTL DEF CursorsSound

=============================================================================
