-------------------------- MODULE ReplacementProofs --------------------------
(* Type correctness, the UNIQUE constraints included, the removal of older *)
(* rows and the presence of what was asked for by Replacement, for any     *)
(* transactions, lists and tables.                                         *)
EXTENDS Replacement, TLAPS

-----------------------------------------------------------------------------
(* The inductive invariant *)

NewTx == [at : {"new"}]
OpenTx == [at : Open, list : Lists[onConflict], next : Nat, seen : SUBSET Rows, out : SUBSET Rows,
           in : SUBSET Rows, before : SUBSET Transactions]
EndedTx == [at : {"committed", "failed"}, list : Lists[onConflict], before : SUBSET Transactions]

Shape ==
    /\ onConflict \in Tables
    /\ table \subseteq Rows
    /\ tx \in [Transactions -> NewTx \cup OpenTx \cup EndedTx]
    /\ \A t \in Transactions :
          /\ tx[t].at = "insert" => tx[t].next \in 1..Len(tx[t].list.list)
          /\ tx[t].at \in {"delete", "deleting"} => tx[t].next = 1 /\ tx[t].out = {} /\ tx[t].in = {}

(* The rows that are there have committed transactions, and so have those  *)
(* that a transaction counts as before it; what it adds is its own.        *)
Ages ==
    /\ \A r \in table : Committed(r[3])
    /\ \A t \in Transactions :
          /\ tx[t].at # "new" => \A u \in tx[t].before : Committed(u)
          /\ Active(t) => \A r \in tx[t].in : r[3] = t

(* Of the rows it covers, a transaction has all older ones in its snapshot,*)
(* then among those it removes, and then they are gone.                    *)
Older(t) == {r \in table : Covers(tx[t].list, r) /\ r[3] \in tx[t].before}
OlderAreTaken ==
    \A t \in Transactions :
        /\ tx[t].at = "deleting" => Older(t) \subseteq tx[t].seen
        /\ tx[t].at \in {"insert", "commit"} => Older(t) \subseteq tx[t].out
        /\ Committed(t) => Older(t) = {}

(* No two rows collide: in the table, in what a transaction sees, and in   *)
(* what two of them are about to add.                                      *)
Free(S) == \A r, s \in S : Collides(r, s) => r = s
Unique ==
    /\ Free(table)
    /\ \A t \in Transactions : Active(t) => Free(Visible(t))
    /\ \A t, u \in Transactions :
          Active(t) /\ Active(u) /\ t # u => \A r \in tx[t].in, s \in tx[u].in : ~Collides(r, s)

ReplacementInv == Shape /\ Ages /\ OlderAreTaken /\ Unique

-----------------------------------------------------------------------------
(* What the lists ask for are pairs. *)
LEMMA PendingIsPair ==
    ASSUME Shape, NEW t \in Transactions, tx[t].at = "insert"
    PROVE  Pending(t) \in Pairs
  <1>1. tx[t] \in OpenTx
    BY DEF Shape, NewTx, OpenTx, EndedTx, Open
  <1>2. /\ tx[t].list \in Lists[onConflict] /\ onConflict \in Tables
        /\ tx[t].next \in 1..Len(tx[t].list.list)
    BY <1>1 DEF Shape, OpenTx
  <1>3. CASE tx[t].list.by = "x" /\ tx[t].list.key \in Xs /\ tx[t].list.list \in Seq(Ys)
    BY <1>2, <1>3 DEF Pending, PairOf, Pairs
  <1>4. CASE tx[t].list.by = "y" /\ tx[t].list.key \in Ys /\ tx[t].list.list \in Seq(Xs)
    BY <1>2, <1>4 DEF Pending, PairOf, Pairs
  <1> QED
    BY <1>2, <1>3, <1>4, ReplacementAssumption

(* An action of t changes nothing of another transaction. *)
LEMMA OneMoves ==
    ASSUME Shape, NEW t \in Transactions, NEW r \in NewTx \cup OpenTx \cup EndedTx,
           tx' = [tx EXCEPT ![t] = r], UNCHANGED onConflict
    PROVE  /\ tx' \in [Transactions -> (NewTx \cup OpenTx \cup EndedTx)']
           /\ tx'[t] = r
           /\ \A u \in Transactions : u # t => tx'[u] = tx[u]
  BY DEF Shape, NewTx, OpenTx, EndedTx

LEMMA OpenIsRecord ==
    ASSUME Shape, NEW t \in Transactions
    PROVE  /\ Active(t) => tx[t] \in OpenTx
           /\ tx[t].at \in {"committed", "failed"} => tx[t] \in EndedTx
           /\ tx[t].at = "new" => ~Active(t) /\ ~Committed(t)
  BY DEF Shape, NewTx, OpenTx, EndedTx, Open, Active, Committed

-----------------------------------------------------------------------------
LEMMA InvInit == Init => ReplacementInv
  BY DEF Init, ReplacementInv, Shape, Ages, OlderAreTaken, Unique, NewTx, Free, Committed, Active, Open

(* What must hold of the new record of a transaction that moves on while   *)
(* the table stays.                                                        *)
Sound(t, r) ==
    /\ r.at = "insert" => r.next \in 1..Len(r.list.list)
    /\ r.at \in {"delete", "deleting"} => r.next = 1 /\ r.out = {} /\ r.in = {}
    /\ r.at # "new" => \A u \in r.before : Committed(u)
    /\ r.at \in Open => \A a \in r.in : a[3] = t
    /\ r.at = "deleting" => {a \in table : Covers(r.list, a) /\ a[3] \in r.before} \subseteq r.seen
    /\ r.at \in {"insert", "commit"} => {a \in table : Covers(r.list, a) /\ a[3] \in r.before} \subseteq r.out
    /\ r.at \in Open => Free((table \ r.out) \cup r.in)
    /\ r.at \in Open => \A u \in Transactions \ {t} :
                            Active(u) => \A a \in r.in, b \in tx[u].in : ~Collides(a, b)

LEMMA InvMoves ==
    ASSUME ReplacementInv, NEW t \in Transactions, NEW r \in NewTx \cup OpenTx \cup EndedTx,
           tx' = [tx EXCEPT ![t] = r], UNCHANGED <<onConflict, table>>,
           ~Committed(t), r.at # "committed", Sound(t, r)
    PROVE  ReplacementInv'
  <1>1. /\ tx' \in [Transactions -> (NewTx \cup OpenTx \cup EndedTx)']
        /\ tx'[t] = r
        /\ \A u \in Transactions : u # t => tx'[u] = tx[u]
    BY OneMoves DEF ReplacementInv
  <1>2. \A u \in Transactions : Committed(u)' <=> Committed(u)
    BY <1>1 DEF Committed
  <1>3. Shape'
    BY <1>1 DEF ReplacementInv, Shape, Sound
  <1>4. Ages'
    <2>1. \A a \in table' : Committed(a[3])'
      BY <1>2 DEF ReplacementInv, Shape, Rows, Ages
    <2>2. ASSUME NEW u \in Transactions
          PROVE  /\ tx'[u].at # "new" => \A w \in tx'[u].before : Committed(w)'
                 /\ Active(u)' => \A a \in tx'[u].in : a[3] = u
      <3>1. tx'[u].at # "new" => tx'[u].before \subseteq Transactions
        BY <1>3 DEF Shape, NewTx, OpenTx, EndedTx
      <3>2. CASE u = t
        BY <1>1, <1>2, <3>1, <3>2 DEF Sound, Active
      <3>3. CASE u # t
        BY <1>1, <1>2, <3>1, <3>3 DEF ReplacementInv, Ages, Active
      <3> QED
        BY <3>2, <3>3
    <2> QED
      BY <2>1, <2>2 DEF Ages
  <1>5. OlderAreTaken'
    BY <1>1, <1>2 DEF ReplacementInv, OlderAreTaken, Older, Sound, Committed
  <1>6. Unique'
    <2>1. Free(table)'
      BY DEF ReplacementInv, Unique, Free, Collides, Same
    <2>2. \A u \in Transactions : Active(u)' => Free(Visible(u))'
      BY <1>1 DEF ReplacementInv, Unique, Sound, Free, Visible, Active, Collides, Same
    <2>3. \A u, w \in Transactions :
              Active(u)' /\ Active(w)' /\ u # w =>
                  \A a \in tx'[u].in, b \in tx'[w].in : ~Collides(a, b)'
      BY <1>1 DEF ReplacementInv, Unique, Sound, Active, Collides, Same
    <2> QED
      BY <2>1, <2>2, <2>3 DEF Unique
  <1> QED
    BY <1>3, <1>4, <1>5, <1>6 DEF ReplacementInv

LEMMA InvBegin ==
    ASSUME ReplacementInv, NEW t \in Transactions, NEW l \in Lists[onConflict], Begin(t, l)
    PROVE  ReplacementInv'
  <1> DEFINE r == [at |-> "delete", list |-> l, next |-> 1, seen |-> {}, out |-> {}, in |-> {}, before |-> {}]
  <1>1. /\ r \in OpenTx /\ tx' = [tx EXCEPT ![t] = r] /\ UNCHANGED <<onConflict, table>> /\ ~Committed(t)
    BY DEF Begin, OpenTx, Open, Committed
  <1>2. Sound(t, r)
    BY DEF ReplacementInv, Unique, Sound, Free, Open
  <1> HIDE DEF r
  <1> QED
    BY <1>1, <1>2, InvMoves DEF OpenTx, Open

LEMMA InvDeleteBegins ==
    ASSUME ReplacementInv, NEW t \in Transactions, DeleteBegins(t)
    PROVE  ReplacementInv'
  <1> DEFINE seen == {a \in table : Covers(tx[t].list, a)}
  <1> DEFINE before == {u \in Transactions : Committed(u)}
  <1> DEFINE r == [tx[t] EXCEPT !.at = "deleting", !.seen = seen, !.before = before]
  <1>1. tx[t].at = "delete" /\ tx[t] \in OpenTx /\ ~Committed(t)
    BY OpenIsRecord DEF DeleteBegins, ReplacementInv, Active, Open, Committed
  <1>2. tx' = [tx EXCEPT ![t] = r] /\ UNCHANGED <<onConflict, table>>
    BY DEF DeleteBegins
  <1>3. seen \in SUBSET Rows /\ before \in SUBSET Transactions
    BY DEF ReplacementInv, Shape
  <1>4. /\ r \in OpenTx /\ r.at = "deleting" /\ r.list = tx[t].list /\ r.seen = seen /\ r.before = before
        /\ r.next = 1 /\ r.out = {} /\ r.in = {}
    <2> HIDE DEF seen, before
    <2> QED
      BY <1>1, <1>3 DEF OpenTx, Open, ReplacementInv, Shape
  <1> HIDE DEF r
  <1>5. Sound(t, r)
    BY <1>4 DEF ReplacementInv, Unique, Sound, Free, Open
  <1> QED
    BY <1>1, <1>2, <1>4, <1>5, InvMoves

(* What it removes it has seen; until then it had not removed anything.    *)
LEMMA InvDeleteEnds ==
    ASSUME ReplacementInv, NEW t \in Transactions, DeleteEnds(t)
    PROVE  ReplacementInv'
  <1> DEFINE at == IF tx[t].list.list = <<>> THEN "commit" ELSE "insert"
  <1> DEFINE r == [tx[t] EXCEPT !.at = at, !.out = tx[t].seen \cap table]
  <1>1. tx[t].at = "deleting" /\ tx[t] \in OpenTx /\ ~Committed(t) /\ Active(t)
    BY OpenIsRecord DEF DeleteEnds, ReplacementInv, Active, Open, Committed
  <1>2. tx' = [tx EXCEPT ![t] = r] /\ UNCHANGED <<onConflict, table>>
    BY DEF DeleteEnds
  <1>3. /\ r \in OpenTx /\ r.at \in {"insert", "commit"} /\ r.list = tx[t].list /\ r.before = tx[t].before
        /\ r.out = tx[t].seen \cap table /\ r.in = {} /\ r.next = 1
        /\ r.at = "insert" => tx[t].list.list # <<>>
    BY <1>1 DEF OpenTx, Open, ReplacementInv, Shape
  <1> HIDE DEF r
  <1>4. r.at = "insert" => r.next \in 1..Len(r.list.list)
    <2>1. onConflict \in Tables /\ r.list \in Lists[onConflict]
      BY <1>3 DEF ReplacementInv, Shape, OpenTx
    <2>2. r.list.list \in Seq(Xs) \/ r.list.list \in Seq(Ys)
      BY <2>1, ReplacementAssumption
    <2> QED
      BY <1>3, <2>2
  <1>5. Sound(t, r)
    BY <1>1, <1>3, <1>4 DEF ReplacementInv, Unique, Ages, OlderAreTaken, Older, Sound, Free, Open
  <1> QED
    BY <1>1, <1>2, <1>3, <1>5, InvMoves

(* What an INSERT makes of the record of its transaction. *)
RowOf(t) == <<Pending(t)[1], Pending(t)[2], t>>
OutOf(t) == IF Skips(t) THEN tx[t].out ELSE tx[t].out \cup (InTheWay(t) \cap table)
InOf(t) == IF Skips(t) THEN tx[t].in ELSE (tx[t].in \ InTheWay(t)) \cup {RowOf(t)}

LEMMA RowOfPending ==
    ASSUME Shape, NEW t \in Transactions, tx[t].at = "insert"
    PROVE  RowOf(t) \in Rows /\ RowOf(t)[3] = t /\ Same(RowOf(t), Pending(t))
  <1>1. Pending(t) \in Pairs
    BY PendingIsPair
  <1> QED
    BY <1>1 DEF Pairs, Rows, RowOf, Same

LEMMA InsertRecord ==
    ASSUME ReplacementInv, NEW t \in Transactions, Insert(t)
    PROVE  \E r \in OpenTx :
              /\ tx' = [tx EXCEPT ![t] = r] /\ UNCHANGED <<onConflict, table>>
              /\ r.at \in {"insert", "commit"} /\ r.list = tx[t].list /\ r.before = tx[t].before
              /\ r.out = OutOf(t) /\ r.in = InOf(t) /\ r.next = tx[t].next + 1
              /\ r.at = "insert" <=> tx[t].next # Len(tx[t].list.list)
              /\ tx[t].next \in 1..Len(tx[t].list.list) /\ Len(tx[t].list.list) \in Nat
  <1> DEFINE at == IF tx[t].next = Len(tx[t].list.list) THEN "commit" ELSE "insert"
  <1> DEFINE r == [tx[t] EXCEPT !.at = at, !.next = @ + 1, !.out = OutOf(t), !.in = InOf(t)]
  <1>1. tx[t].at = "insert" /\ tx[t] \in OpenTx
    BY OpenIsRecord DEF Insert, ReplacementInv, Active, Open
  <1>2. tx' = [tx EXCEPT ![t] = r] /\ UNCHANGED <<onConflict, table>>
    BY DEF Insert, OutOf, InOf, RowOf
  <1>3. RowOf(t) \in Rows
    BY <1>1, RowOfPending DEF ReplacementInv
  <1>4. OutOf(t) \in SUBSET Rows /\ InOf(t) \in SUBSET Rows
    BY <1>1, <1>3 DEF OpenTx, ReplacementInv, Shape, OutOf, InOf
  <1>5. tx[t].next \in 1..Len(tx[t].list.list) /\ Len(tx[t].list.list) \in Nat
    <2>1. onConflict \in Tables /\ tx[t].list \in Lists[onConflict]
      BY <1>1 DEF ReplacementInv, Shape, OpenTx
    <2>2. tx[t].list.list \in Seq(Xs) \/ tx[t].list.list \in Seq(Ys)
      BY <2>1, ReplacementAssumption
    <2> QED
      BY <1>1, <2>2 DEF ReplacementInv, Shape
  <1>6. at \in {"insert", "commit"} /\ (at = "insert" <=> tx[t].next # Len(tx[t].list.list))
    OBVIOUS
  <1>7. tx[t].next + 1 \in Nat
    BY <1>5
  <1> HIDE DEF at
  <1>8. /\ r \in OpenTx /\ r.at = at /\ r.list = tx[t].list /\ r.before = tx[t].before
        /\ r.out = OutOf(t) /\ r.in = InOf(t) /\ r.next = tx[t].next + 1
    BY <1>1, <1>4, <1>6, <1>7 DEF OpenTx, Open
  <1> HIDE DEF r
  <1> QED
    BY <1>2, <1>5, <1>6, <1>8

(* The row it adds collides with none that it sees, nor with what others   *)
(* have added and it would have waited for.                                *)
LEMMA InvInsert ==
    ASSUME ReplacementInv, NEW t \in Transactions, Insert(t)
    PROVE  ReplacementInv'
  <1> DEFINE row == RowOf(t)
  <1> DEFINE out == OutOf(t)
  <1> DEFINE in == InOf(t)
  <1>1. tx[t].at = "insert" /\ tx[t] \in OpenTx /\ ~Committed(t) /\ Active(t)
    BY OpenIsRecord DEF Insert, ReplacementInv, Active, Open, Committed
  <1>2. row[3] = t /\ Same(row, Pending(t))
    BY <1>1, RowOfPending DEF ReplacementInv
  <1>3. in \subseteq tx[t].in \cup {row} /\ tx[t].out \subseteq out
    BY DEF InOf, OutOf
  <1>4. Free((table \ out) \cup in)
    <2>1. Free(Visible(t))
      BY <1>1 DEF ReplacementInv, Unique
    <2>2. CASE Skips(t)
      BY <2>1, <2>2 DEF Visible, OutOf, InOf
    <2>3. CASE ~Skips(t)
      <3>1. (table \ out) \cup in \subseteq (Visible(t) \ InTheWay(t)) \cup {row}
        BY <2>3 DEF Visible, OutOf, InOf
      <3>2. \A a \in Visible(t) \ InTheWay(t) : ~Collides(a, row) /\ ~Collides(row, a)
        BY <1>2 DEF InTheWay, Collides, Same
      <3> QED
        BY <2>1, <3>1, <3>2 DEF Free
    <2> QED
      BY <2>2, <2>3
  <1>5. \A u \in Transactions \ {t} : Active(u) => \A a \in in, b \in tx[u].in : ~Collides(a, b)
    <2> SUFFICES ASSUME NEW u \in Transactions \ {t}, Active(u), NEW a \in in, NEW b \in tx[u].in
                 PROVE  ~Collides(a, b)
      OBVIOUS
    <2>1. CASE a \in tx[t].in
      BY <1>1, <2>1 DEF ReplacementInv, Unique
    <2>2. CASE a = row
      <3>1. Blockers(t) = {}
        BY DEF Insert
      <3>2. b \in Held(u)
        BY DEF Held
      <3>3. ~Collides(b, Pending(t))
        BY <1>1, <3>1, <3>2 DEF Blockers
      <3> QED
        BY <1>2, <2>2, <3>3 DEF Collides, Same
    <2> QED
      BY <1>3, <2>1, <2>2
  <1>6. \A a \in in : a[3] = t
    BY <1>1, <1>2, <1>3 DEF ReplacementInv, Ages
  <1>7. Older(t) \subseteq out
    BY <1>1, <1>3 DEF ReplacementInv, OlderAreTaken
  <1> HIDE DEF out, in
  <1>8. PICK r \in OpenTx :
           /\ tx' = [tx EXCEPT ![t] = r] /\ UNCHANGED <<onConflict, table>>
           /\ r.at \in {"insert", "commit"} /\ r.list = tx[t].list /\ r.before = tx[t].before
           /\ r.out = out /\ r.in = in /\ r.next = tx[t].next + 1
           /\ r.at = "insert" <=> tx[t].next # Len(tx[t].list.list)
           /\ tx[t].next \in 1..Len(tx[t].list.list) /\ Len(tx[t].list.list) \in Nat
    BY InsertRecord DEF out, in
  <1>9. Sound(t, r)
    BY <1>1, <1>4, <1>5, <1>6, <1>7, <1>8 DEF ReplacementInv, Ages, Older, Sound
  <1> QED
    BY <1>1, <1>8, <1>9, InvMoves

(* Duplicate, Missing, DeadlockAborts: nothing of it is left.              *)
LEMMA InvFails ==
    ASSUME ReplacementInv, NEW t \in Transactions, Active(t), EndsAs(t, "failed"),
           UNCHANGED <<onConflict, table>>
    PROVE  ReplacementInv'
  <1> DEFINE r == [at |-> "failed", list |-> tx[t].list, before |-> tx[t].before]
  <1>1. tx[t] \in OpenTx /\ ~Committed(t) /\ tx[t].at # "new"
    BY OpenIsRecord DEF ReplacementInv, Active, Open, Committed
  <1>2. tx' = [tx EXCEPT ![t] = r]
    BY DEF EndsAs
  <1>3. r \in EndedTx
    BY <1>1 DEF OpenTx, EndedTx
  <1>4. Sound(t, r)
    BY <1>1 DEF ReplacementInv, Ages, Sound, Open
  <1> HIDE DEF r
  <1>5. r.at = "failed"
    BY DEF r
  <1> QED
    BY <1>1, <1>2, <1>3, <1>4, <1>5, InvMoves

(* Older rows leave the table with the commit, and what comes is younger   *)
(* than every transaction that has taken its snapshot.                     *)
LEMMA InvCommit ==
    ASSUME ReplacementInv, NEW t \in Transactions, Commit(t)
    PROVE  ReplacementInv'
  <1> DEFINE r == [at |-> "committed", list |-> tx[t].list, before |-> tx[t].before]
  <1>1. tx[t].at = "commit" /\ tx[t] \in OpenTx /\ ~Committed(t) /\ Active(t)
    BY OpenIsRecord DEF Commit, ReplacementInv, Active, Open, Committed
  <1>2. tx' = [tx EXCEPT ![t] = r] /\ table' = Visible(t) /\ onConflict' = onConflict
    BY DEF Commit, EndsAs, Visible
  <1>3. r \in EndedTx
    BY <1>1 DEF OpenTx, EndedTx
  <1>4. /\ tx' \in [Transactions -> (NewTx \cup OpenTx \cup EndedTx)']
        /\ tx'[t] = r
        /\ \A u \in Transactions : u # t => tx'[u] = tx[u]
    <2> HIDE DEF r
    <2> QED
      BY <1>2, <1>3, OneMoves DEF ReplacementInv
  <1>5. r.at = "committed" /\ r.list = tx[t].list /\ r.before = tx[t].before
    OBVIOUS
  <1> HIDE DEF r
  <1>6. /\ \A u \in Transactions : Committed(u)' <=> Committed(u) \/ u = t
        /\ \A u \in Transactions : Active(u)' <=> Active(u) /\ u # t
    BY <1>4, <1>5 DEF Committed, Active, Open
  <1>7. Shape'
    <2>1. table' \subseteq Rows
      BY <1>1, <1>2 DEF Visible, OpenTx, ReplacementInv, Shape
    <2> QED
      BY <1>2, <1>4, <1>5, <2>1 DEF ReplacementInv, Shape
  <1>8. \A u \in Transactions : tx[u].at # "new" => tx[u].before \subseteq Transactions
    BY DEF ReplacementInv, Shape, NewTx, OpenTx, EndedTx
  <1>9. Ages'
    <2>1. \A a \in table' : Committed(a[3])'
      BY <1>1, <1>2, <1>6, <1>7 DEF Visible, ReplacementInv, Ages, Shape, Rows
    <2>2. ASSUME NEW u \in Transactions
          PROVE  /\ tx'[u].at # "new" => \A w \in tx'[u].before : Committed(w)'
                 /\ Active(u)' => \A a \in tx'[u].in : a[3] = u
      <3>1. tx'[u].at # "new" => tx[u].at # "new" /\ tx'[u].before = tx[u].before
        BY <1>1, <1>4, <1>5
      <3>2. \A w \in Transactions : Committed(w) => Committed(w)'
        BY <1>6
      <3> QED
        BY <1>4, <1>6, <1>8, <3>1, <3>2 DEF ReplacementInv, Ages
    <2> QED
      BY <2>1, <2>2 DEF Ages
  <1>10. OlderAreTaken'
    <2>1. ASSUME NEW u \in Transactions, tx[u].at # "new"
          PROVE  Older(u)' \subseteq Older(u) \ tx[t].out
      <3>1. tx'[u].list = tx[u].list /\ tx'[u].before = tx[u].before
        BY <1>4, <1>5
      <3>2. t \notin tx[u].before
        BY <1>1, <2>1 DEF ReplacementInv, Ages
      <3>3. \A a \in table' : a \in table \ tx[t].out \/ a[3] = t
        BY <1>1, <1>2 DEF Visible, ReplacementInv, Ages
      <3> QED
        BY <3>1, <3>2, <3>3 DEF Older, Covers
    <2>2. ASSUME NEW u \in Transactions
          PROVE  /\ tx'[u].at = "deleting" => Older(u)' \subseteq tx'[u].seen
                 /\ tx'[u].at \in {"insert", "commit"} => Older(u)' \subseteq tx'[u].out
                 /\ Committed(u)' => Older(u)' = {}
      <3>1. CASE u = t
        <4>1. Older(t) \subseteq tx[t].out
          BY <1>1 DEF ReplacementInv, OlderAreTaken
        <4> QED
          BY <1>1, <1>4, <1>5, <2>1, <3>1, <4>1
      <3>2. CASE u # t
        BY <1>4, <1>6, <2>1, <3>2 DEF ReplacementInv, OlderAreTaken, Committed
      <3> QED
        BY <3>1, <3>2
    <2> QED
      BY <2>2 DEF OlderAreTaken
  <1>11. Unique'
    <2>1. \A a, b : Collides(a, b)' <=> Collides(a, b)
      BY <1>2 DEF Collides, Same
    <2>2. Free(Visible(t))
      BY <1>1 DEF ReplacementInv, Unique
    <2>3. Free(table)'
      BY <1>2, <2>1, <2>2 DEF Free
    <2>4. ASSUME NEW u \in Transactions, Active(u)'
          PROVE  Free(Visible(u))'
      <3>1. u # t /\ Active(u) /\ tx'[u] = tx[u]
        BY <1>4, <1>6, <2>4
      <3>2. Visible(u)' = (Visible(t) \ tx[u].out) \cup tx[u].in
        BY <1>2, <3>1 DEF Visible
      <3>3. Free(Visible(u))
        BY <3>1 DEF ReplacementInv, Unique
      <3>4. \A a \in tx[t].in, b \in tx[u].in : ~Collides(a, b) /\ ~Collides(b, a)
        BY <1>1, <3>1 DEF ReplacementInv, Unique
      <3>5. \A a, b \in (Visible(t) \ tx[u].out) \cup tx[u].in : Collides(a, b) => a = b
        BY <2>2, <3>3, <3>4 DEF Free, Visible
      <3> QED
        BY <2>1, <3>2, <3>5 DEF Free
    <2>5. \A u, w \in Transactions :
              Active(u)' /\ Active(w)' /\ u # w =>
                  \A a \in tx'[u].in, b \in tx'[w].in : ~Collides(a, b)'
      BY <1>4, <1>6, <2>1 DEF ReplacementInv, Unique
    <2> QED
      BY <2>3, <2>4, <2>5 DEF Unique
  <1> QED
    BY <1>7, <1>9, <1>10, <1>11 DEF ReplacementInv

-----------------------------------------------------------------------------
LEMMA FailsActive ==
    ASSUME NEW t \in Transactions, Duplicate(t) \/ Missing(t) \/ DeadlockAborts(t)
    PROVE  Active(t)
  <1>1. CASE Duplicate(t) \/ Missing(t)
    BY <1>1 DEF Duplicate, Missing, Active, Open
  <1>2. CASE DeadlockAborts(t)
    <2>1. Blockers(t) # {}
      BY <1>2 DEF DeadlockAborts
    <2> QED
      BY <2>1 DEF Blockers, Active, Open
  <1> QED
    BY <1>1, <1>2

LEMMA InvNext == ReplacementInv /\ [Next]_vars => ReplacementInv'
  <1> SUFFICES ASSUME ReplacementInv, [Next]_vars
               PROVE  ReplacementInv'
    OBVIOUS
  <1>1. CASE UNCHANGED vars
    BY <1>1 DEF vars, ReplacementInv, Shape, Ages, OlderAreTaken, Older, Unique, Free, Visible, Active,
                Committed, Collides, Same, OpenTx, EndedTx
  <1>2. ASSUME NEW t \in Transactions, Duplicate(t) \/ Missing(t) \/ DeadlockAborts(t)
        PROVE  ReplacementInv'
    <2>1. Active(t)
      BY <1>2, FailsActive
    <2> QED
      BY <1>2, <2>1, InvFails DEF Duplicate, Missing, DeadlockAborts
  <1>3. ASSUME NEW t \in Transactions, Step(t)
        PROVE  ReplacementInv'
    BY <1>2, <1>3, InvDeleteBegins, InvDeleteEnds, InvInsert, InvCommit DEF Step
  <1>4. ASSUME NEW t \in Transactions, NEW l \in Lists[onConflict], Begin(t, l)
        PROVE  ReplacementInv'
    BY <1>4, InvBegin
  <1> QED
    BY <1>1, <1>3, <1>4 DEF Next

(* All four parts hold whatever replacements overlap, whatever they ask for*)
(* and however their statements, waits and failures interleave.            *)
THEOREM ReplacementInvariance == Spec => []ReplacementInv
  BY InvInit, InvNext, PTL DEF Spec

(* Every row is one of the table and the UNIQUE constraint of each table   *)
(* holds, whatever replacements overlap.                                   *)
THEOREM ReplacementTypeCorrect == Spec => []TypeOK
  <1>1. ReplacementInv => TypeOK
    <2> SUFFICES ASSUME ReplacementInv
                 PROVE  TypeOK
      OBVIOUS
    <2>1. onConflict \in Tables /\ table \subseteq Rows
      BY DEF ReplacementInv, Shape
    <2>2. \A t \in Transactions :
              /\ tx[t].at \in Open \cup {"new", "committed", "failed"}
              /\ tx[t].at # "new" => tx[t].list \in Lists[onConflict] /\ tx[t].before \subseteq Transactions
              /\ tx[t].at \in Open => UNION {tx[t].seen, tx[t].out, tx[t].in} \subseteq Rows
      BY DEF ReplacementInv, Shape, NewTx, OpenTx, EndedTx, Open
    <2>3. \A r, s \in table : r[1] = s[1] /\ (onConflict = "update" \/ r[2] = s[2]) => r = s
      BY DEF ReplacementInv, Unique, Free, Collides, Same
    <2> QED
      BY <2>1, <2>2, <2>3 DEF TypeOK
  <1> QED
    BY <1>1, ReplacementInvariance, PTL

(* A replacement removes all that replacements before it had left.         *)
THEOREM OlderRowsGone == Spec => []OlderRowsAreGone
  <1>1. ReplacementInv => OlderRowsAreGone
    BY DEF ReplacementInv, OlderAreTaken, Older, OlderRowsAreGone
  <1> QED
    BY <1>1, ReplacementInvariance, PTL

-----------------------------------------------------------------------------
(* What was asked for is there *)

(* A committed transaction that t may not have seen has taken the pair p.  *)
Excused(t, before, p) ==
    \E u \in Transactions \ ({t} \cup before) :
        /\ Committed(u)
        /\ \/ Covers(tx[u].list, p) /\ p \notin Wanted(tx[u].list)
           \/ \E w \in Wanted(tx[u].list) : Collides(w, p) /\ w # p

(* The pairs whose INSERT is done. *)
Inserted(r) == {PairOf(r.list, r.list.list[n]) : n \in 1..(r.next - 1)}

(* Of the record r of a transaction t: a row that it removes is under its  *)
(* key or has been overwritten by a pair that it inserted; a row that it   *)
(* removes and inserts again is among those it adds; and for whatever it   *)
(* has inserted it sees a row, unless it is excused.                       *)
Removals(r) ==
    \A a \in r.out : Committed(a[3]) /\ (Covers(r.list, a) \/ \E p \in Inserted(r) : Collides(a, p))
Redone(r) == \A p \in Inserted(r), a \in table \cap r.out : Same(a, p) => \E b \in r.in : Same(b, p)
Seen(t, r) ==
    \A p \in Inserted(r) :
        (\E b \in (table \ r.out) \cup r.in : Same(b, p)) \/ Excused(t, r.before, p)
AskedOf(t, r) ==
    /\ r.at = "deleting" => \A a \in r.seen : Covers(r.list, a)
    /\ r.at = "commit" => r.next = Len(r.list.list) + 1
    /\ r.at \in {"insert", "commit"} => Removals(r) /\ Redone(r) /\ Seen(t, r)
    /\ r.at = "committed" =>
          \A p \in Wanted(r.list) : (\E b \in table : Same(b, p)) \/ Excused(t, r.before, p)

Asked == \A t \in Transactions : AskedOf(t, tx[t])
AskedInv == ReplacementInv /\ Asked

(* The lists of a transaction, and the pairs of it. *)
LEMMA ListOf ==
    ASSUME Shape, NEW t \in Transactions, tx[t].at # "new"
    PROVE  /\ Len(tx[t].list.list) \in Nat
           /\ DOMAIN tx[t].list.list = 1..Len(tx[t].list.list)
           /\ \A n \in 1..Len(tx[t].list.list) : PairOf(tx[t].list, tx[t].list.list[n]) \in Pairs
           /\ onConflict = "update" => tx[t].list.by = "y"
           /\ tx[t].list.by \in {"x", "y"}
  <1> DEFINE l == tx[t].list
  <1>1. l \in Lists[onConflict] /\ onConflict \in Tables
    BY DEF Shape, NewTx, OpenTx, EndedTx
  <1>2. CASE l.by = "x" /\ l.key \in Xs /\ l.list \in Seq(Ys) /\ onConflict # "update"
    BY <1>2 DEF PairOf, Pairs
  <1>3. CASE l.by = "y" /\ l.key \in Ys /\ l.list \in Seq(Xs)
    BY <1>3 DEF PairOf, Pairs
  <1> HIDE DEF l
  <1>4. \/ l.by = "x" /\ l.key \in Xs /\ l.list \in Seq(Ys) /\ onConflict # "update"
        \/ l.by = "y" /\ l.key \in Ys /\ l.list \in Seq(Xs)
    BY <1>1, ReplacementAssumption
  <1> QED
    BY <1>2, <1>3, <1>4

(* At the end everything that was asked for has been inserted. *)
LEMMA InsertedAll ==
    ASSUME Shape, NEW t \in Transactions, tx[t].at = "commit",
           tx[t].next = Len(tx[t].list.list) + 1
    PROVE  Inserted(tx[t]) = Wanted(tx[t].list)
  <1>1. Len(tx[t].list.list) \in Nat /\ DOMAIN tx[t].list.list = 1..Len(tx[t].list.list)
    BY ListOf
  <1>2. 1..(tx[t].next - 1) = DOMAIN tx[t].list.list
    BY <1>1
  <1> QED
    BY <1>2 DEF Inserted, Wanted

LEMMA AskedInit == Init => Asked
  BY DEF Init, Asked, AskedOf

(* An excuse is for ever. *)
LEMMA ExcusedStays ==
    ASSUME UNCHANGED onConflict,
           \A u \in Transactions : Committed(u) => Committed(u)' /\ tx'[u].list = tx[u].list,
           NEW t, NEW before, NEW p, Excused(t, before, p)
    PROVE  Excused(t, before, p)'
  BY DEF Excused, Covers, Wanted, PairOf, Collides, Same

(* While the table stays, only the record that changes is to be looked at. *)
LEMMA AskedMoves ==
    ASSUME AskedInv, NEW t \in Transactions, NEW r \in NewTx \cup OpenTx \cup EndedTx,
           tx' = [tx EXCEPT ![t] = r], UNCHANGED <<onConflict, table>>,
           ~Committed(t), r.at # "committed", AskedOf(t, r)
    PROVE  Asked'
  <1>1. /\ tx'[t] = r
        /\ \A u \in Transactions : u # t => tx'[u] = tx[u]
    BY OneMoves DEF AskedInv, ReplacementInv
  <1>2. \A u \in Transactions : Committed(u)' <=> Committed(u)
    BY <1>1 DEF Committed
  <1>3. \A u \in Transactions : Committed(u) => Committed(u)' /\ tx'[u].list = tx[u].list
    BY <1>1, <1>2
  <1>4. ASSUME NEW u \in Transactions
        PROVE  AskedOf(u, tx[u])'
    <2>1. PICK s : s = tx'[u]
      OBVIOUS
    <2>2. AskedOf(u, s) /\ s \in NewTx \cup OpenTx \cup EndedTx
      BY <1>1, <2>1 DEF AskedInv, Asked, ReplacementInv, Shape
    <2>3. s.at \in {"insert", "commit"} => \A a \in s.out : a[3] \in Transactions
      BY <2>2 DEF OpenTx, NewTx, EndedTx, Rows
    <2>4. \A before, p : Excused(u, before, p) => Excused(u, before, p)'
      BY <1>3, ExcusedStays
    <2>5. /\ \A l, a : Covers(l, a)' <=> Covers(l, a)
          /\ \A a, q : (Collides(a, q)' <=> Collides(a, q)) /\ (Same(a, q)' <=> Same(a, q))
      BY DEF Covers, Collides, Same
    <2>6. AskedOf(u, s)'
      BY <1>2, <2>2, <2>3, <2>4, <2>5 DEF AskedOf, Removals, Redone, Seen, Inserted, Wanted, PairOf
    <2> QED
      BY SMTT(30), <2>1, <2>6 DEF AskedOf, Removals, Redone, Seen, Inserted, Wanted, PairOf, Excused, Committed,
                        Covers, Collides, Same
  <1> QED
    BY <1>4 DEF Asked

LEMMA AskedBegin ==
    ASSUME AskedInv, NEW t \in Transactions, NEW l \in Lists[onConflict], Begin(t, l)
    PROVE  Asked'
  <1> DEFINE r == [at |-> "delete", list |-> l, next |-> 1, seen |-> {}, out |-> {}, in |-> {}, before |-> {}]
  <1>1. /\ r \in OpenTx /\ tx' = [tx EXCEPT ![t] = r] /\ UNCHANGED <<onConflict, table>> /\ ~Committed(t)
    BY DEF Begin, OpenTx, Open, Committed
  <1>2. AskedOf(t, r) /\ r.at # "committed"
    BY DEF AskedOf
  <1> HIDE DEF r
  <1> QED
    BY <1>1, <1>2, AskedMoves

LEMMA AskedDeleteBegins ==
    ASSUME AskedInv, NEW t \in Transactions, DeleteBegins(t)
    PROVE  Asked'
  <1> DEFINE seen == {a \in table : Covers(tx[t].list, a)}
  <1> DEFINE before == {u \in Transactions : Committed(u)}
  <1> DEFINE r == [tx[t] EXCEPT !.at = "deleting", !.seen = seen, !.before = before]
  <1>1. tx[t].at = "delete" /\ tx[t] \in OpenTx /\ ~Committed(t)
    BY OpenIsRecord DEF DeleteBegins, AskedInv, ReplacementInv, Active, Open, Committed
  <1>2. tx' = [tx EXCEPT ![t] = r] /\ UNCHANGED <<onConflict, table>>
    BY DEF DeleteBegins
  <1>3. seen \in SUBSET Rows /\ before \in SUBSET Transactions /\ \A a \in seen : Covers(tx[t].list, a)
    BY DEF AskedInv, ReplacementInv, Shape
  <1> HIDE DEF seen, before
  <1>4. r \in OpenTx /\ r.at = "deleting" /\ r.list = tx[t].list /\ r.seen = seen
    BY <1>1, <1>3 DEF OpenTx, Open
  <1> HIDE DEF r
  <1>5. AskedOf(t, r)
    BY <1>3, <1>4 DEF AskedOf
  <1> QED
    BY <1>1, <1>2, <1>4, <1>5, AskedMoves

(* It has removed rows of its key and inserted nothing. *)
LEMMA AskedDeleteEnds ==
    ASSUME AskedInv, NEW t \in Transactions, DeleteEnds(t)
    PROVE  Asked'
  <1> DEFINE at == IF tx[t].list.list = <<>> THEN "commit" ELSE "insert"
  <1> DEFINE r == [tx[t] EXCEPT !.at = at, !.out = tx[t].seen \cap table]
  <1>1. tx[t].at = "deleting" /\ tx[t] \in OpenTx /\ ~Committed(t)
    BY OpenIsRecord DEF DeleteEnds, AskedInv, ReplacementInv, Active, Open, Committed
  <1>2. tx' = [tx EXCEPT ![t] = r] /\ UNCHANGED <<onConflict, table>>
    BY DEF DeleteEnds
  <1>3. /\ r \in OpenTx /\ r.at \in {"insert", "commit"} /\ r.list = tx[t].list
        /\ r.out = tx[t].seen \cap table /\ r.next = 1
        /\ r.at = "commit" => tx[t].list.list = <<>>
    BY <1>1 DEF OpenTx, Open, AskedInv, ReplacementInv, Shape
  <1> HIDE DEF r
  <1>4. Inserted(r) = {}
    BY <1>3 DEF Inserted
  <1>5. \A a \in r.out : Committed(a[3]) /\ Covers(r.list, a)
    BY <1>1, <1>3 DEF AskedInv, Asked, AskedOf, ReplacementInv, Ages
  <1>6. AskedOf(t, r)
    BY <1>3, <1>4, <1>5 DEF AskedOf, Removals, Redone, Seen
  <1> QED
    BY <1>1, <1>2, <1>3, <1>6, AskedMoves

(* The pair is visible now, whether its row was there or has been added;   *)
(* and so is every pair before it, as only a row of the same pair has been *)
(* overwritten.                                                            *)
LEMMA AskedInsert ==
    ASSUME AskedInv, NEW t \in Transactions, Insert(t)
    PROVE  Asked'
  <1> DEFINE p == Pending(t)
  <1>1. tx[t].at = "insert" /\ tx[t] \in OpenTx /\ ~Committed(t) /\ Active(t)
    BY OpenIsRecord DEF Insert, AskedInv, ReplacementInv, Active, Open, Committed
  <1>2. PICK r \in OpenTx :
           /\ tx' = [tx EXCEPT ![t] = r] /\ UNCHANGED <<onConflict, table>>
           /\ r.at \in {"insert", "commit"} /\ r.list = tx[t].list /\ r.before = tx[t].before
           /\ r.out = OutOf(t) /\ r.in = InOf(t) /\ r.next = tx[t].next + 1
           /\ r.at = "insert" <=> tx[t].next # Len(tx[t].list.list)
           /\ tx[t].next \in 1..Len(tx[t].list.list) /\ Len(tx[t].list.list) \in Nat
    BY InsertRecord DEF AskedInv
  <1>3. Inserted(r) = Inserted(tx[t]) \cup {p}
    <2>1. 1..(r.next - 1) = 1..(tx[t].next - 1) \cup {tx[t].next}
      BY <1>2
    <2> QED
      BY <1>2, <2>1 DEF Inserted, Pending
  <1>4. Same(RowOf(t), p)
    BY <1>1, RowOfPending DEF AskedInv, ReplacementInv
  <1>5. Removals(tx[t]) /\ Redone(tx[t]) /\ Seen(t, tx[t])
    BY <1>1 DEF AskedInv, Asked, AskedOf
  (* What has been overwritten is of the same pair as what comes. *)
  <1>6. ~Skips(t) => \A a \in InTheWay(t), q \in Inserted(tx[t]) : Same(a, q) => q = p
    <2> SUFFICES ASSUME ~Skips(t), NEW a \in InTheWay(t), NEW q \in Inserted(tx[t]), Same(a, q)
                 PROVE  q = p
      OBVIOUS
    <2> USE DEF InTheWay
    <2>1. Collides(a, p) /\ onConflict = "update"
      <3>1. onConflict \in {"error", "nothing", "update"}
        BY ReplacementAssumption DEF AskedInv, ReplacementInv, Shape
      <3>2. onConflict # "error"
        BY DEF Insert
      <3> QED
        BY <3>1, <3>2 DEF Skips
    <2>2. tx[t].list.by = "y"
      BY <1>1, <2>1, ListOf DEF AskedInv, ReplacementInv
    <2> QED
      BY <2>1, <2>2 DEF Collides, Same, Inserted, Pending, PairOf
  <1>7. Removals(r)
    <2>1. \A a \in InTheWay(t) \cap table : Committed(a[3]) /\ Collides(a, p)
      BY DEF InTheWay, AskedInv, ReplacementInv, Ages
    <2> QED
      BY <1>2, <1>3, <1>5, <2>1 DEF Removals, OutOf
  <1>8. Redone(r)
    <2> SUFFICES ASSUME NEW q \in Inserted(tx[t]) \cup {p}, NEW a \in table \cap r.out, Same(a, q)
                 PROVE  \E b \in r.in : Same(b, q)
      BY <1>3 DEF Redone
    <2>1. CASE Skips(t) /\ q = p
      <3>1. PICK b \in Visible(t) : Same(b, p)
        BY <2>1 DEF Skips, InTheWay, Collides
      <3>2. CASE b \in tx[t].in
        BY <1>2, <2>1, <3>1, <3>2 DEF InOf
      <3>3. CASE b \in table \ tx[t].out
        <4>1. a = b
          BY <2>1, <3>1, <3>3 DEF Same, Collides, AskedInv, ReplacementInv, Unique, Free
        <4> QED
          BY <1>2, <2>1, <3>3, <4>1 DEF OutOf
      <3> QED
        BY <3>1, <3>2, <3>3 DEF Visible
    <2>2. CASE Skips(t) /\ q # p
      BY <1>2, <1>5, <2>2 DEF Redone, OutOf, InOf
    <2>3. CASE ~Skips(t) /\ q = p
      BY <1>2, <1>4, <2>3 DEF InOf
    <2>4. CASE ~Skips(t) /\ q # p
      <3>1. a \in tx[t].out
        BY <1>2, <1>6, <2>4 DEF OutOf
      <3>2. PICK b \in tx[t].in : Same(b, q)
        BY <1>5, <2>4, <3>1 DEF Redone
      <3>3. b \notin InTheWay(t)
        BY <1>6, <2>4, <3>2
      <3> QED
        BY <1>2, <2>4, <3>2, <3>3 DEF InOf
    <2> QED
      BY <2>1, <2>2, <2>3, <2>4
  <1>9. Seen(t, r)
    <2> SUFFICES ASSUME NEW q \in Inserted(tx[t]) \cup {p}, ~Excused(t, tx[t].before, q)
                 PROVE  \E b \in (table \ r.out) \cup r.in : Same(b, q)
      BY <1>2, <1>3 DEF Seen
    <2>1. CASE Skips(t) /\ q = p
      BY <1>2, <2>1 DEF Skips, InTheWay, Collides, Visible, OutOf, InOf
    <2>2. CASE Skips(t) /\ q # p
      BY <1>2, <1>5, <2>2 DEF Seen, OutOf, InOf
    <2>3. CASE ~Skips(t) /\ q = p
      BY <1>2, <1>4, <2>3 DEF InOf
    <2>4. CASE ~Skips(t) /\ q # p
      <3>1. PICK b \in (table \ tx[t].out) \cup tx[t].in : Same(b, q)
        BY <1>5, <2>4 DEF Seen
      <3>2. b \notin InTheWay(t)
        BY <1>6, <2>4, <3>1
      <3> QED
        BY <1>2, <2>4, <3>1, <3>2 DEF InOf, OutOf
    <2> QED
      BY <2>1, <2>2, <2>3, <2>4
  <1>10. AskedOf(t, r)
    BY <1>2, <1>7, <1>8, <1>9 DEF AskedOf
  <1> QED
    BY <1>1, <1>2, <1>10, AskedMoves

LEMMA AskedFails ==
    ASSUME AskedInv, NEW t \in Transactions, Active(t), EndsAs(t, "failed"), UNCHANGED <<onConflict, table>>
    PROVE  Asked'
  <1> DEFINE r == [at |-> "failed", list |-> tx[t].list, before |-> tx[t].before]
  <1>1. tx[t] \in OpenTx /\ ~Committed(t)
    BY OpenIsRecord DEF AskedInv, ReplacementInv, Active, Open, Committed
  <1>2. tx' = [tx EXCEPT ![t] = r] /\ r \in EndedTx /\ r.at = "failed" /\ AskedOf(t, r)
    BY <1>1 DEF EndsAs, OpenTx, EndedTx, AskedOf
  <1> HIDE DEF r
  <1> QED
    BY <1>1, <1>2, AskedMoves

(* A row that leaves the table with the commit of t is one that t asks for *)
(* itself, and then t adds another, or t is the excuse of who asked for it.*)
LEMMA CommitKeeps ==
    ASSUME AskedInv, NEW t \in Transactions, tx[t].at = "commit",
           NEW a \in table, NEW p, Same(a, p)
    PROVE  \/ \E b \in Visible(t) : Same(b, p) /\ (b = a \/ b \in tx[t].in)
           \/ Covers(tx[t].list, p) /\ p \notin Wanted(tx[t].list)
           \/ \E w \in Wanted(tx[t].list) : Collides(w, p) /\ w # p
  <1>1. Removals(tx[t]) /\ Redone(tx[t]) /\ Inserted(tx[t]) = Wanted(tx[t].list)
    BY InsertedAll DEF AskedInv, Asked, AskedOf, ReplacementInv
  <1>2. CASE a \notin tx[t].out
    BY <1>2 DEF Visible
  <1>3. CASE a \in tx[t].out /\ p \in Wanted(tx[t].list)
    BY <1>1, <1>3 DEF Redone, Visible
  <1>4. CASE a \in tx[t].out /\ p \notin Wanted(tx[t].list)
    <2>1. Covers(tx[t].list, a) => Covers(tx[t].list, p)
      BY DEF Covers, Same
    <2>2. \A w : Collides(a, w) => Collides(w, p)
      BY DEF Collides, Same
    <2> QED
      BY <1>1, <1>4, <2>1, <2>2 DEF Removals
  <1> QED
    BY <1>2, <1>3, <1>4

LEMMA AskedCommit ==
    ASSUME AskedInv, NEW t \in Transactions, Commit(t)
    PROVE  Asked'
  <1> DEFINE r == [at |-> "committed", list |-> tx[t].list, before |-> tx[t].before]
  <1>1. tx[t].at = "commit" /\ tx[t] \in OpenTx /\ ~Committed(t) /\ Active(t)
    BY OpenIsRecord DEF Commit, AskedInv, ReplacementInv, Active, Open, Committed
  <1>2. tx' = [tx EXCEPT ![t] = r] /\ table' = Visible(t) /\ onConflict' = onConflict
    BY DEF Commit, EndsAs, Visible
  <1>3. r \in EndedTx /\ r.at = "committed" /\ r.list = tx[t].list /\ r.before = tx[t].before
    BY <1>1 DEF OpenTx, EndedTx
  <1> HIDE DEF r
  <1>4. tx'[t] = r /\ \A u \in Transactions : u # t => tx'[u] = tx[u]
    BY <1>2, <1>3, OneMoves DEF AskedInv, ReplacementInv
  <1>5. \A u \in Transactions : Committed(u)' <=> Committed(u) \/ u = t
    BY <1>3, <1>4 DEF Committed
  <1>6. \A u \in Transactions : tx'[u].list = tx[u].list /\ tx'[u].before = tx[u].before
    BY <1>3, <1>4
  <1>7. \A u, before, p : Excused(u, before, p) => Excused(u, before, p)'
    BY <1>2, <1>5, <1>6, ExcusedStays
  <1>8. Inserted(tx[t]) = Wanted(tx[t].list) /\ Seen(t, tx[t])
    BY <1>1, InsertedAll DEF AskedInv, Asked, AskedOf, ReplacementInv
  (* A row that another sees stays, or t excuses its loss. *)
  <1>9. ASSUME NEW u \in Transactions \ {t}, tx[u].at # "new", NEW a \in table, NEW p, Same(a, p)
        PROVE  \/ \E b \in Visible(t) : Same(b, p) /\ (b = a \/ b \in tx[t].in)
               \/ Excused(u, tx[u].before, p)'
    <2>1. t \in Transactions \ ({u} \cup tx[u].before)
      BY <1>1, <1>9 DEF AskedInv, ReplacementInv, Ages
    <2>2. Committed(t)'
      BY <1>5
    <2>3. /\ Covers(tx[t].list, p) /\ p \notin Wanted(tx[t].list) => Excused(u, tx[u].before, p)'
          /\ (\E w \in Wanted(tx[t].list) : Collides(w, p) /\ w # p) => Excused(u, tx[u].before, p)'
      BY <1>2, <1>6, <2>1, <2>2 DEF Excused, Covers, Wanted, PairOf, Collides, Same
    <2> QED
      BY <1>1, <1>9, <2>3, CommitKeeps
  <1>10. ASSUME NEW u \in Transactions
         PROVE  AskedOf(u, tx[u])'
    <2>1. PICK s : s = tx'[u]
      OBVIOUS
    <2>2. /\ \A l, a : Covers(l, a)' <=> Covers(l, a)
          /\ \A a, q : (Collides(a, q)' <=> Collides(a, q)) /\ (Same(a, q)' <=> Same(a, q))
      BY <1>2 DEF Covers, Collides, Same
    <2>3. CASE u = t
      <3>1. \A p \in Wanted(s.list) : (\E b \in table' : Same(b, p)) \/ Excused(t, s.before, p)'
        BY <1>2, <1>3, <1>4, <1>7, <1>8, <2>1, <2>3 DEF Seen, Visible
      <3>2. AskedOf(u, s)'
        BY <1>3, <1>4, <2>1, <2>2, <2>3, <3>1 DEF AskedOf, Wanted, PairOf
      <3> QED
        BY <2>1, <3>2 DEF AskedOf, Removals, Redone, Seen, Inserted, Wanted, PairOf, Excused, Committed,
                          Covers, Collides, Same
    <2>4. CASE u # t
      <3>1. s = tx[u] /\ AskedOf(u, s)
        BY <1>4, <2>1, <2>4 DEF AskedInv, Asked
      <3>2. s.at \in {"insert", "commit"} => \A a \in s.out : a[3] \in Transactions
        BY <3>1 DEF AskedInv, ReplacementInv, Shape, OpenTx, NewTx, EndedTx, Rows
      <3>3. ASSUME s.at \in {"insert", "commit", "committed"}, NEW a \in table, NEW p, Same(a, p)
            PROVE  \/ \E b \in Visible(t) : Same(b, p) /\ (b = a \/ b \in tx[t].in)
                   \/ Excused(u, s.before, p)'
        <4>1. tx[u].at # "new" /\ tx'[u].before = s.before
          BY <1>4, <3>1, <3>3, <2>4
        <4> QED
          BY <1>9, <2>4, <3>3, <4>1 DEF Excused
      <3>4. \A b \in tx[t].in : b[3] = t /\ ~Committed(t)
        BY <1>1 DEF AskedInv, ReplacementInv, Ages
      <3>5. ASSUME s.at \in {"insert", "commit"}
            PROVE  Removals(s)' /\ Redone(s)' /\ Seen(u, s)'
        <4>1. Removals(s) /\ Redone(s) /\ Seen(u, s)
          BY <3>1, <3>5 DEF AskedOf
        <4>2. Removals(s)'
          BY <1>5, <2>2, <3>2, <3>5, <4>1 DEF Removals, Inserted, PairOf
        <4>3. \A a \in table' \cap s.out : a \in table
          BY <1>2, <3>4, <4>1 DEF Visible, Removals
        <4>4. Redone(s)'
          BY <2>2, <4>1, <4>3 DEF Redone, Inserted, PairOf
        <4>5. ASSUME NEW p \in Inserted(s)
              PROVE  (\E b \in (table' \ s.out) \cup s.in : Same(b, p)) \/ Excused(u, s.before, p)'
          <5>1. CASE \E b \in s.in : Same(b, p)
            BY <5>1
          <5>2. CASE Excused(u, s.before, p)
            BY <5>2, <1>7
          <5>3. ASSUME NEW a \in table \ s.out, Same(a, p)
                PROVE  (\E b \in (table' \ s.out) \cup s.in : Same(b, p)) \/ Excused(u, s.before, p)'
            BY <1>2, <3>3, <3>4, <3>5, <4>1, <5>3 DEF Removals
          <5> QED
            BY <4>1, <5>1, <5>2, <5>3 DEF Seen
        <4>6. Seen(u, s)'
          BY <2>2, <4>5 DEF Seen, Inserted, PairOf
        <4> QED
          BY <4>2, <4>4, <4>6
      <3>6. ASSUME s.at = "committed", NEW p \in Wanted(s.list)
            PROVE  (\E b \in table' : Same(b, p)) \/ Excused(u, s.before, p)'
        BY <1>2, <1>7, <3>1, <3>3, <3>6 DEF AskedOf
      <3>7. AskedOf(u, s)'
        BY <2>2, <3>1, <3>5, <3>6 DEF AskedOf, Wanted, PairOf
      <3> QED
        BY <2>1, <3>7 DEF AskedOf, Removals, Redone, Seen, Inserted, Wanted, PairOf, Excused, Committed,
                          Covers, Collides, Same
    <2> QED
      BY <2>3, <2>4
  <1> QED
    BY <1>10 DEF Asked

LEMMA AskedNext == AskedInv /\ [Next]_vars => Asked'
  <1> SUFFICES ASSUME AskedInv, [Next]_vars
               PROVE  Asked'
    OBVIOUS
  <1>1. CASE UNCHANGED vars
    <2>1. tx' = tx /\ table' = table /\ onConflict' = onConflict
      BY <1>1 DEF vars
    <2>2. \A u, before, p : Excused(u, before, p) => Excused(u, before, p)'
      BY <2>1 DEF Excused, Committed, Covers, Wanted, PairOf, Collides, Same
    <2>3. ASSUME NEW u \in Transactions
          PROVE  AskedOf(u, tx[u])'
      <3>1. PICK s : s = tx'[u]
        OBVIOUS
      <3>2. AskedOf(u, s)
        BY <2>1, <3>1 DEF AskedInv, Asked
      <3>3. /\ \A l, a : Covers(l, a)' <=> Covers(l, a)
            /\ \A a, q : (Collides(a, q)' <=> Collides(a, q)) /\ (Same(a, q)' <=> Same(a, q))
            /\ \A w : Committed(w)' <=> Committed(w)
        BY <2>1 DEF Covers, Collides, Same, Committed
      <3>4. Removals(s)' <=> Removals(s)
        BY <3>3 DEF Removals, Inserted, PairOf
      <3>5. Redone(s)' <=> Redone(s)
        BY <2>1, <3>3 DEF Redone, Inserted, PairOf
      <3>6. Seen(u, s) => Seen(u, s)'
        BY <2>1, <2>2, <3>3 DEF Seen, Inserted, PairOf
      <3>7. AskedOf(u, s)'
        BY <2>1, <2>2, <3>2, <3>3, <3>4, <3>5, <3>6 DEF AskedOf, Wanted, PairOf
      <3> QED
        BY <3>1, <3>7 DEF AskedOf, Removals, Redone, Seen, Inserted, Wanted, PairOf, Excused, Committed,
                          Covers, Collides, Same
    <2> QED
      BY <2>3 DEF Asked
  <1>2. ASSUME NEW t \in Transactions, Duplicate(t) \/ Missing(t) \/ DeadlockAborts(t)
        PROVE  Asked'
    BY <1>2, FailsActive, AskedFails DEF Duplicate, Missing, DeadlockAborts
  <1>3. ASSUME NEW t \in Transactions, Step(t)
        PROVE  Asked'
    BY <1>2, <1>3, AskedDeleteBegins, AskedDeleteEnds, AskedInsert, AskedCommit DEF Step
  <1>4. ASSUME NEW t \in Transactions, NEW l \in Lists[onConflict], Begin(t, l)
        PROVE  Asked'
    BY <1>4, AskedBegin
  <1> QED
    BY <1>1, <1>3, <1>4 DEF Next

(* What a committed replacement asked for is in the table, unless another  *)
(* that it did not replace has taken the pair or moved the vehicle.        *)
THEOREM AskedThere == Spec => []AskedIsThere
  <1>1. Init => AskedInv
    BY InvInit, AskedInit DEF AskedInv
  <1>2. AskedInv /\ [Next]_vars => AskedInv'
    BY InvNext, AskedNext DEF AskedInv
  <1>3. AskedInv => AskedIsThere
    BY DEF AskedInv, Asked, AskedOf, AskedIsThere, Committed, Excused
  <1> QED
    BY <1>1, <1>2, <1>3, PTL DEF Spec
=============================================================================
