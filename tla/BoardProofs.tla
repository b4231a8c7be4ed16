---------------------------- MODULE BoardProofs -----------------------------
(***************************************************************************)
(* The safety properties of BoardJournal and BoardStream, for any          *)
(* resources, contents, history length, batch size and bounds.             *)
(***************************************************************************)
EXTENDS BoardStream, FiniteSetTheorems, WellFoundedInduction, TLAPS

-----------------------------------------------------------------------------
(* Least and greatest numbers. *)

\* A set of natural numbers that is not empty has a least element.
LEMMA LeastExists ==
  ASSUME NEW S \in SUBSET Nat, S # {}
  PROVE  \E x \in S : \A y \in S : x <= y
<1>1. \E x \in S : \A y \in S : ~ (<<y, x>> \in OpToRel(<, Nat))
  BY NatLessThanWellFounded, WFMin
<1>2. PICK x \in S : \A y \in S : ~ (<<y, x>> \in OpToRel(<, Nat))
  BY <1>1
<1>3. ASSUME NEW y \in S PROVE x <= y
  <2>1. ~(y < x)
    BY <1>2 DEF OpToRel
  <2> QED
    BY <2>1
<1> QED
  BY <1>2, <1>3

\* A bounded set of integers that is not empty has a greatest element, which Max names.
LEMMA MaxIsGreatest ==
  ASSUME NEW S \in SUBSET Int, S # {}, NEW b \in Int, \A x \in S : x <= b
  PROVE  Max(S) \in S /\ \A x \in S : x <= Max(S)
<1> DEFINE T == {b - x : x \in S}
<1>1. T \in SUBSET Nat /\ T # {}
  <2>1. ASSUME NEW x \in S PROVE b - x \in Nat
    <3>1. x \in Int /\ x <= b
      OBVIOUS
    <3> QED
      BY <3>1
  <2>2. PICK x \in S : TRUE
    OBVIOUS
  <2>3. b - x \in T
    OBVIOUS
  <2> QED
    BY <2>1, <2>3
<1>2. PICK t \in T : \A y \in T : t <= y
  BY <1>1, LeastExists
<1>3. PICK m \in S : t = b - m
  OBVIOUS
<1>4. \A x \in S : b - x \in T
  OBVIOUS
<1>5. \A x \in S : m >= x
  BY <1>2, <1>3, <1>4
<1>6. \E x \in S : \A y \in S : x >= y
  BY <1>5
<1> QED
  BY <1>6 DEF Max

\* Greatest(S, least) is the greatest of both.
LEMMA GreatestIs ==
  ASSUME NEW S \in SUBSET Int, NEW least \in Int, NEW b \in Int, \A x \in S : x <= b
  PROVE  /\ Greatest(S, least) \in S \cup {least}
         /\ Greatest(S, least) >= least
         /\ \A x \in S : x <= Greatest(S, least)
<1> DEFINE c == IF least <= b THEN b ELSE least
<1>1. S \cup {least} \in SUBSET Int /\ S \cup {least} # {}
  OBVIOUS
<1>2. c \in Int /\ \A x \in S \cup {least} : x <= c
  OBVIOUS
<1>3. /\ Max(S \cup {least}) \in S \cup {least}
      /\ \A x \in S \cup {least} : x <= Max(S \cup {least})
  <2> HIDE DEF c
  <2> QED
    BY <1>1, <1>2, MaxIsGreatest
<1> QED
  BY <1>1, <1>3 DEF Greatest

-----------------------------------------------------------------------------
(* The history.  H[c] is the event of cursor c, D[c] the number of decisions *)
(* committed with it.  The rows are what is left of it.                      *)

Events ==
  [kind : {"absolute"}, resource : Resources, content : Contents]
    \cup [kind : {"decision"}, decision : Nat]
    \cup [kind : {"all"}, decisions : Nat]

About(e, r) == e.kind = "absolute" /\ e.resource = r

\* Rows are exactly the history after the floor, one row per cursor.
RowsHold(H) ==
  /\ rows \subseteq [cursor : (retained + 1)..latest, old : BOOLEAN, event : Events]
  /\ \A row \in rows : row.event = H[row.cursor]
  /\ \A c \in (retained + 1)..latest : \E row \in rows : row.cursor = c
  /\ \A x, y \in rows : x.cursor = y.cursor => x = y

\* How an event moves the number of decisions from m to n.
Counts(e, m, n) ==
  /\ e.kind = "absolute" => n = m
  /\ e.kind = "decision" => \/ e.decision <= m /\ n = m
                            \/ e.decision = m + 1 /\ n = m + 1
  /\ e.kind = "all" => n = e.decisions /\ n >= m

DecisionsCounted(H, D) ==
  /\ D[latest] = decided
  /\ \A c \in 1..latest : Counts(H[c], D[c - 1], D[c])
  /\ \A c, d \in 0..latest : c <= d => D[c] <= D[d]

\* The last event about a resource carries its committed content, its head too;
\* event identities are of the past.
LastIsContent(H) ==
  /\ heads = content
  /\ \A id \in identities : id[3] <= commits
  /\ \A r \in Resources, c \in 1..latest :
       About(H[c], r) /\ (\A d \in (c + 1)..latest : ~About(H[d], r))
         => H[c].content = content[r]

JournalHolds(H, D) ==
  /\ H \in [1..latest -> Events]
  /\ D \in [0..latest -> Nat]
  /\ RowsHold(H)
  /\ DecisionsCounted(H, D)
  /\ LastIsContent(H)

\* The floor a reader is compared with is one of the cursors given so far.
LEMMA FloorBounds ==
  ASSUME JournalTypeOK, NEW H, RowsHold(H)
  PROVE  LogicalFloor \in retained..latest
<1> DEFINE S == {latest - MaxEvents} \cup {row.cursor : row \in {x \in rows : x.old}}
<1>1. latest \in Nat /\ retained \in 0..latest /\ MaxEvents \in Nat \ {0}
  BY JournalAssumption DEF JournalTypeOK
<1>2. \A row \in rows : row.cursor \in (retained + 1)..latest
  BY DEF RowsHold
<1>3. \A x \in S : x \in Int /\ x <= latest
  BY <1>1, <1>2
<1>4. Greatest(S, retained) \in S \cup {retained} /\ Greatest(S, retained) >= retained
  <2>1. S \in SUBSET Int
    BY <1>3
  <2>2. latest \in Int /\ retained \in Int /\ \A x \in S : x <= latest
    BY <1>1, <1>3
  <2> HIDE DEF S
  <2> QED
    BY <2>1, <2>2, GreatestIs
<1>5. LogicalFloor = Greatest(S, retained)
  BY DEF LogicalFloor
<1> HIDE DEF S
<1> QED
  BY <1>1, <1>3, <1>4, <1>5

\* What a reader that is not told to refresh finds.
LEMMA RowsAfter ==
  ASSUME JournalTypeOK, NEW H, RowsHold(H), NEW c \in retained..latest
  PROVE  {row.cursor : row \in {x \in rows : x.cursor > c}} = (c + 1)..latest
<1>1. latest \in Nat /\ retained \in 0..latest
  BY DEF JournalTypeOK
<1>2. ASSUME NEW row \in rows PROVE row.cursor \in (retained + 1)..latest
  BY DEF RowsHold
<1>3. ASSUME NEW d \in (c + 1)..latest PROVE \E row \in rows : row.cursor = d
  <2>1. d \in (retained + 1)..latest
    BY <1>1
  <2> QED
    BY <2>1 DEF RowsHold
<1>4. ASSUME NEW d \in (c + 1)..latest
      PROVE  d \in {row.cursor : row \in {x \in rows : x.cursor > c}}
  BY <1>1, <1>3
<1> QED
  BY <1>1, <1>2, <1>4

LEMMA GaplessFromRows ==
  ASSUME JournalTypeOK, NEW H, RowsHold(H)
  PROVE  ReadsAreGapless
<1>1. LogicalFloor \in retained..latest
  BY FloorBounds
<1>2. latest \in Nat /\ retained \in 0..latest
  BY DEF JournalTypeOK
<1>3. \A c \in LogicalFloor..latest : c \in retained..latest
  BY <1>1, <1>2
<1> QED
  BY <1>3, RowsAfter DEF ReadsAreGapless

\* Appending keeps the rows a suffix of the history, whatever is pruned with it.
LEMMA InsertKeepsRows ==
  ASSUME JournalTypeOK, NEW H \in [1..latest -> Events], RowsHold(H),
         NEW entries \in Seq(Events), Insert(entries),
         NEW G, G = [c \in 1..(latest + Len(entries)) |->
                       IF c <= latest THEN H[c] ELSE entries[c - latest]]
  PROVE  /\ latest' = latest + Len(entries)
         /\ retained' \in retained..latest'
         /\ RowsHold(G)'
<1> DEFINE last == latest + Len(entries)
           added == {[cursor |-> latest + i, old |-> FALSE, event |-> entries[i]] :
                       i \in 1..Len(entries)}
           all == rows \cup added
           gone == {row.cursor : row \in {x \in all : x.old \/ x.cursor <= last - MaxEvents}}
           floor == Greatest(gone, 0)
<1>1. /\ rows' = {row \in all : row.cursor > floor}
      /\ latest' = last
      /\ retained' = Greatest(gone, retained)
  BY DEF Insert, RaisedFloor
<1>2. latest \in Nat /\ retained \in 0..latest /\ Len(entries) \in Nat /\ last \in Nat
  BY DEF JournalTypeOK
<1>3. ASSUME NEW row \in added
      PROVE  /\ row \in [cursor : (latest + 1)..last, old : BOOLEAN, event : Events]
             /\ row.event = G[row.cursor]
  <2>1. PICK i \in 1..Len(entries) :
               row = [cursor |-> latest + i, old |-> FALSE, event |-> entries[i]]
    OBVIOUS
  <2>2. entries[i] \in Events
    BY <2>1
  <2>3. latest + i \in (latest + 1)..last /\ latest + i \in 1..last
    BY <1>2, <2>1
  <2>4. G[latest + i] = entries[i]
    <3>1. \A c \in 1..(latest + Len(entries)) : c > latest => G[c] = entries[c - latest]
      BY <1>2
    <3> DEFINE c == latest + i
    <3>2. c \in 1..(latest + Len(entries)) /\ c > latest /\ c - latest = i
      BY <1>2, <2>1, <2>3
    <3> HIDE DEF added, c
    <3>3. G[c] = entries[i]
      BY <3>1, <3>2
    <3> QED
      BY <3>3 DEF c
  <2> QED
    BY <2>1, <2>2, <2>3, <2>4
<1>4. ASSUME NEW row \in rows
      PROVE  /\ row \in [cursor : (retained + 1)..latest, old : BOOLEAN, event : Events]
             /\ row.event = G[row.cursor]
  <2>1. row \in [cursor : (retained + 1)..latest, old : BOOLEAN, event : Events]
        /\ row.event = H[row.cursor]
    BY DEF RowsHold
  <2>2. row.cursor \in 1..last /\ row.cursor <= latest
    BY <1>2, <2>1
  <2> QED
    BY <2>1, <2>2
<1>5. ASSUME NEW row \in all
      PROVE  /\ row \in [cursor : (retained + 1)..last, old : BOOLEAN, event : Events]
             /\ row.event = G[row.cursor]
  <2>1. CASE row \in rows
    <3>1. row.cursor \in (retained + 1)..last
      BY <1>2, <1>4, <2>1
    <3> QED
      BY <1>4, <2>1, <3>1
  <2>2. CASE row \in added
    <3>1. row.cursor \in (retained + 1)..last
      BY <1>2, <1>3, <2>2
    <3> QED
      BY <1>3, <2>2, <3>1
  <2> QED
    BY <2>1, <2>2
<1>6. ASSUME NEW c \in (retained + 1)..last PROVE \E row \in all : row.cursor = c
  <2>1. CASE c <= latest
    <3>1. c \in (retained + 1)..latest
      BY <1>2, <2>1
    <3> QED
      BY <3>1 DEF RowsHold
  <2>2. CASE c > latest
    <3> DEFINE i == c - latest
               row == [cursor |-> latest + i, old |-> FALSE, event |-> entries[i]]
    <3>1. i \in 1..Len(entries) /\ latest + i = c
      BY <1>2, <2>2
    <3>2. row \in added
      BY <3>1
    <3>3. row.cursor = c
      BY <3>1
    <3> QED
      BY <3>2, <3>3
  <2> QED
    BY <1>2, <2>1, <2>2
<1>7. ASSUME NEW x \in all, NEW y \in all, x.cursor = y.cursor PROVE x = y
  <2>1. CASE x \in rows /\ y \in rows
    BY <1>7, <2>1 DEF RowsHold
  <2>2. CASE x \in added /\ y \in added
    <3>1. PICK i \in 1..Len(entries) :
                 x = [cursor |-> latest + i, old |-> FALSE, event |-> entries[i]]
      BY <2>2
    <3>2. PICK j \in 1..Len(entries) :
                 y = [cursor |-> latest + j, old |-> FALSE, event |-> entries[j]]
      BY <2>2
    <3>3. x.cursor = latest + i /\ y.cursor = latest + j /\ i \in Int /\ j \in Int
      BY <1>2, <3>1, <3>2
    <3>4. latest + i = latest + j
      BY <1>7, <3>3
    <3>5. i = j
      BY <1>2, <3>3, <3>4
    <3> QED
      BY <3>1, <3>2, <3>5
  <2>3. \A row \in rows : row.cursor <= latest
    BY <1>2, <1>4
  <2>4. \A row \in added : row.cursor > latest
    BY <1>2, <1>3
  <2>5. x.cursor \in Int /\ y.cursor \in Int
    BY <1>2, <1>5
  <2> QED
    BY <1>2, <1>7, <2>1, <2>2, <2>3, <2>4, <2>5
<1>8. /\ gone \in SUBSET Int
      /\ \A c \in gone : retained < c /\ c <= last
  <2>1. \A c \in gone : c \in (retained + 1)..last
    BY <1>5
  <2> HIDE DEF gone, last
  <2>2. \A c \in gone : c \in Int /\ retained < c /\ c <= last
    BY <1>2, <2>1
  <2> QED
    BY <2>2
<1>9. /\ Greatest(gone, retained) \in gone \cup {retained}
      /\ Greatest(gone, retained) >= retained
      /\ \A c \in gone : c <= Greatest(gone, retained)
      /\ floor \in gone \cup {0}
      /\ \A c \in gone : c <= floor
  <2>1. retained \in Int /\ last \in Int /\ 0 \in Int
    BY <1>2
  <2> HIDE DEF gone, last
  <2> QED
    BY <1>8, <2>1, GreatestIs
<1>10. retained' \in retained..last
  <2>1. retained' = Greatest(gone, retained)
    BY <1>1
  <2>2. retained \in Int /\ last \in Int /\ retained <= last
    BY <1>2
  <2> HIDE DEF gone, last
  <2>3. CASE Greatest(gone, retained) \in gone
    <3>1. retained' \in Int /\ retained < retained' /\ retained' <= last
      BY <1>8, <2>1, <2>3
    <3> QED
      BY <2>2, <3>1
  <2>4. CASE Greatest(gone, retained) = retained
    BY <2>1, <2>2, <2>4
  <2> QED
    BY <1>9, <2>3, <2>4
<1>11. ASSUME NEW c \in (retained + 1)..last PROVE c > floor <=> c > retained'
  <2>3. retained' = Greatest(gone, retained) /\ retained \in Nat
    BY <1>1, <1>2
  <2> HIDE DEF gone, last, floor
  <2>1. CASE gone = {}
    <3>1. floor = 0 /\ retained' = retained
      BY <1>9, <2>1, <2>3
    <3> QED
      BY <1>2, <3>1
  <2>2. CASE gone # {}
    <3> PICK c0 \in gone : TRUE
      BY <2>2
    <3>0. c0 \in Int /\ retained < c0
      BY <1>8
    <3>1. retained' \in gone
      BY <1>9, <2>3, <3>0
    <3>2. floor \in gone
      BY <1>9, <2>3, <3>0
    <3>3. retained' <= floor /\ floor <= retained'
      BY <1>9, <2>3, <3>1, <3>2
    <3>4. retained' \in Int /\ floor \in Int
      BY <1>8, <3>1, <3>2
    <3>5. retained' = floor
      BY <3>3, <3>4
    <3> QED
      BY <3>5
  <2> QED
    BY <2>1, <2>2
<1>12. rows' = {row \in all : row.cursor > retained'}
  <2>1. \A row \in all : row.cursor \in (retained + 1)..last
    BY <1>5
  <2> HIDE DEF all, floor, last
  <2> QED
    BY <1>1, <1>11, <2>1
<1>13. rows' \subseteq [cursor : (retained' + 1)..latest', old : BOOLEAN, event : Events]
  <2> SUFFICES ASSUME NEW row \in rows'
               PROVE  row \in [cursor : (retained' + 1)..latest', old : BOOLEAN, event : Events]
    OBVIOUS
  <2>1. row \in all /\ row.cursor > retained'
    BY <1>12
  <2>2. row \in [cursor : (retained + 1)..last, old : BOOLEAN, event : Events]
    BY <1>5, <2>1
  <2>3. row.cursor \in (retained' + 1)..latest'
    BY <1>1, <1>2, <1>10, <2>1, <2>2
  <2> HIDE DEF all, last
  <2> QED
    BY <2>2, <2>3
<1>14. \A row \in rows' : row.event = G[row.cursor]
  BY <1>5, <1>12
<1>15. ASSUME NEW c \in (retained' + 1)..latest' PROVE \E row \in rows' : row.cursor = c
  <2>1. c \in (retained + 1)..last /\ c > retained'
    BY <1>1, <1>2, <1>10
  <2> HIDE DEF all, last
  <2> QED
    BY <1>6, <1>12, <2>1
<1>16. \A x, y \in rows' : x.cursor = y.cursor => x = y
  <2> HIDE DEF all
  <2> QED
    BY <1>7, <1>12
<1> HIDE DEF all, gone, floor, added
<1> QED
  BY <1>1, <1>10, <1>13, <1>14, <1>15, <1>16 DEF RowsHold

-----------------------------------------------------------------------------
(* The history grows: what is in it stays, and whatever changes a content    *)
(* adds an event about it.                                                   *)

Grows(H, D, G, E) ==
  /\ latest' \in Nat /\ latest' >= latest
  /\ \A c \in 1..latest : G[c] = H[c]
  /\ \A c \in 0..latest : E[c] = D[c]
  /\ \A r \in Resources, c \in 0..latest :
       content'[r] = content[r] \/ \E d \in (c + 1)..latest' : About(G[d], r)

\* What the entries of a transaction have to say of the contents and of the decisions.
Tell(entries) ==
  /\ decided' \in Nat /\ decided' >= decided
  /\ \A i \in 1..Len(entries) :
       /\ i = 1 => Counts(entries[i], decided, decided')
       /\ i > 1 => Counts(entries[i], decided', decided')
  /\ entries = << >> => decided' = decided
  /\ \A r \in Resources :
       content'[r] = content[r] \/ \E i \in 1..Len(entries) : About(entries[i], r)
  /\ \A r \in Resources, i \in 1..Len(entries) :
       About(entries[i], r) => entries[i].content = content'[r]
  /\ heads' = content'
  /\ \A id \in identities' : id[3] <= commits'

LEMMA HistoryGrows ==
  ASSUME JournalTypeOK, NEW H, NEW D, JournalHolds(H, D),
         NEW entries \in Seq(Events), Insert(entries), Tell(entries)
  PROVE  /\ latest' \in Nat /\ retained' \in 0..latest'
         /\ \A row \in rows' : row.cursor \in 1..latest' /\ row.old \in BOOLEAN
                               /\ row.event.kind \in Kinds
         /\ \E G, E : JournalHolds(G, E)' /\ Grows(H, D, G, E)
<1> DEFINE last == latest + Len(entries)
           G == [c \in 1..last |-> IF c <= latest THEN H[c] ELSE entries[c - latest]]
           E == [c \in 0..last |-> IF c <= latest THEN D[c] ELSE decided']
<1>1. /\ latest \in Nat /\ retained \in 0..latest /\ Len(entries) \in Nat
      /\ last \in Nat /\ last >= latest /\ decided \in Nat
  BY DEF JournalTypeOK
<1>2. /\ H \in [1..latest -> Events] /\ D \in [0..latest -> Nat]
      /\ RowsHold(H) /\ DecisionsCounted(H, D) /\ LastIsContent(H)
  BY DEF JournalHolds
<1>3. PICK F : F = G
  OBVIOUS
<1>4. /\ latest' = last
      /\ retained' \in retained..latest'
      /\ RowsHold(F)'
  <2>1. F = [c \in 1..(latest + Len(entries)) |->
               IF c <= latest THEN H[c] ELSE entries[c - latest]]
    BY <1>3
  <2> QED
    BY <1>2, <2>1, InsertKeepsRows
<1>5. PICK K : K = E
  OBVIOUS
<1>6. ASSUME NEW c \in 1..last
      PROVE  /\ c <= latest => F[c] = H[c] /\ c \in 1..latest
             /\ c > latest => F[c] = entries[c - latest] /\ c - latest \in 1..Len(entries)
  BY <1>1, <1>3
<1>7. ASSUME NEW c \in 0..last
      PROVE  /\ c <= latest => K[c] = D[c] /\ c \in 0..latest
             /\ c > latest => K[c] = decided'
  BY <1>1, <1>5
<1>8. F \in [1..last -> Events]
  <2>1. ASSUME NEW c \in 1..last PROVE F[c] \in Events
    <3>1. CASE c <= latest
      BY <1>2, <1>6, <3>1
    <3>2. CASE c > latest
      BY <1>6, <3>2
    <3> QED
      BY <1>1, <3>1, <3>2
  <2>2. F = [c \in 1..last |-> F[c]]
    BY <1>3
  <2> HIDE DEF last
  <2> QED
    BY <2>1, <2>2
<1>9. decided' \in Nat /\ decided' >= decided
  BY DEF Tell
<1>10. K \in [0..last -> Nat]
  <2>1. ASSUME NEW c \in 0..last PROVE K[c] \in Nat
    <3>1. CASE c <= latest
      BY <1>2, <1>7, <3>1
    <3>2. CASE c > latest
      BY <1>7, <1>9, <3>2
    <3> QED
      BY <1>1, <3>1, <3>2
  <2>2. K = [c \in 0..last |-> K[c]]
    BY <1>5
  <2> HIDE DEF last
  <2> QED
    BY <2>1, <2>2
<1> HIDE DEF last, G, E
<1>11. D[latest] = decided /\ latest \in 0..latest
  BY <1>1, <1>2 DEF DecisionsCounted
<1>12. K[last] = decided'
  <2>1. CASE entries = << >>
    <3>1. last = latest
      BY <1>1, <2>1 DEF last
    <3> QED
      BY <1>1, <1>7, <1>11, <2>1, <3>1 DEF Tell
  <2>2. CASE entries # << >>
    <3>1. last > latest
      BY <1>1, <2>2 DEF last
    <3> QED
      BY <1>1, <1>7, <3>1
  <2> QED
    BY <2>1, <2>2
<1>13. ASSUME NEW c \in 1..last PROVE Counts(F[c], K[c - 1], K[c])
  <2>1. CASE c <= latest
    <3>1. c \in 1..latest /\ c - 1 \in 0..latest /\ c - 1 \in 0..last /\ c \in 0..last
          /\ c - 1 <= latest
      BY <1>1, <2>1
    <3>2. F[c] = H[c] /\ K[c - 1] = D[c - 1] /\ K[c] = D[c]
      BY <1>6, <1>7, <2>1, <3>1
    <3>3. Counts(H[c], D[c - 1], D[c])
      BY <1>2, <3>1 DEF DecisionsCounted
    <3> QED
      BY <3>2, <3>3
  <2>2. CASE c > latest
    <3> DEFINE i == c - latest
    <3>1. i \in 1..Len(entries) /\ F[c] = entries[i] /\ c \in 0..last /\ K[c] = decided'
      BY <1>1, <1>6, <1>7, <2>2
    <3>2. CASE i = 1
      <4>1. c - 1 = latest /\ latest \in 0..last
        BY <1>1, <3>2
      <4>2. K[c - 1] = decided
        BY <1>1, <1>7, <1>11, <4>1
      <4>3. Counts(entries[i], decided, decided')
        BY <3>1, <3>2 DEF Tell
      <4> QED
        BY <3>1, <4>2, <4>3
    <3>3. CASE i > 1
      <4>1. c - 1 \in 0..last /\ c - 1 > latest
        BY <1>1, <3>3
      <4>2. K[c - 1] = decided'
        BY <1>7, <4>1
      <4>3. Counts(entries[i], decided', decided')
        BY <3>1, <3>3 DEF Tell
      <4> QED
        BY <3>1, <4>2, <4>3
    <3> QED
      BY <3>1, <3>2, <3>3
  <2> QED
    BY <1>1, <2>1, <2>2
<1>14. ASSUME NEW c \in 0..last, NEW d \in 0..last, c <= d PROVE K[c] <= K[d]
  <2>1. ASSUME NEW x \in 0..latest PROVE D[x] <= decided
    BY <1>1, <1>2, <1>11, <2>1 DEF DecisionsCounted
  <2>2. CASE d <= latest
    <3>1. c \in 0..latest /\ d \in 0..latest /\ c <= latest
      BY <1>1, <1>14, <2>2
    <3>2. D[c] <= D[d]
      BY <1>2, <1>14, <3>1 DEF DecisionsCounted
    <3> QED
      BY <1>7, <2>2, <3>1, <3>2
  <2>3. CASE d > latest /\ c <= latest
    <3>1. K[c] = D[c] /\ c \in 0..latest /\ K[d] = decided'
      BY <1>7, <2>3
    <3>2. D[c] <= decided /\ D[c] \in Nat
      BY <1>2, <2>1, <3>1
    <3> QED
      BY <1>1, <1>9, <3>1, <3>2
  <2>4. CASE d > latest /\ c > latest
    <3>1. K[c] = decided' /\ K[d] = decided'
      BY <1>7, <2>4
    <3> QED
      BY <1>9, <3>1
  <2> QED
    BY <1>1, <2>2, <2>3, <2>4
<1>15. DecisionsCounted(F, K)'
  BY <1>4, <1>12, <1>13, <1>14 DEF DecisionsCounted
<1>16. ASSUME NEW r \in Resources, NEW i \in 1..Len(entries), About(entries[i], r)
       PROVE  /\ latest + i \in 1..last /\ latest + i > latest
              /\ About(F[latest + i], r)
  <2> DEFINE c == latest + i
  <2>1. c \in 1..last /\ c > latest /\ c - latest = i
    BY <1>1 DEF last
  <2> HIDE DEF c
  <2>2. F[c] = entries[i]
    BY <1>6, <2>1
  <2>3. About(F[c], r)
    BY <1>16, <2>2
  <2> QED
    BY <2>1, <2>3 DEF c
<1>17. ASSUME NEW r \in Resources, NEW c \in 1..last, About(F[c], r),
              \A d \in (c + 1)..last : ~About(F[d], r)
       PROVE  F[c].content = content'[r]
  <2>1. CASE c > latest
    <3>1. F[c] = entries[c - latest] /\ c - latest \in 1..Len(entries)
      BY <1>6, <2>1
    <3> QED
      BY <1>17, <3>1 DEF Tell
  <2>2. CASE c <= latest
    <3>1. F[c] = H[c] /\ c \in 1..latest
      BY <1>6, <2>2
    <3>2. ASSUME NEW d \in (c + 1)..latest PROVE ~About(H[d], r)
      <4>1. d \in (c + 1)..last /\ d \in 1..last /\ d <= latest
        BY <1>1
      <4> QED
        BY <1>6, <1>17, <4>1
    <3>3. H[c].content = content[r]
      BY <1>2, <1>17, <3>1, <3>2 DEF LastIsContent
    <3>4. ASSUME NEW i \in 1..Len(entries) PROVE ~About(entries[i], r)
      <4>1. SUFFICES ASSUME About(entries[i], r) PROVE FALSE
        OBVIOUS
      <4>2. latest + i \in 1..last /\ latest + i > latest /\ About(F[latest + i], r)
        BY <1>16, <4>1
      <4>3. latest + i \in (c + 1)..last
        BY <1>1, <2>2, <4>2
      <4> QED
        BY <1>17, <4>2, <4>3
    <3>5. content'[r] = content[r]
      BY <3>4 DEF Tell
    <3> QED
      BY <3>1, <3>3, <3>5
  <2> QED
    BY <1>1, <2>1, <2>2
<1>18. LastIsContent(F)'
  <2>1. heads' = content' /\ \A id \in identities' : id[3] <= commits'
    BY DEF Tell
  <2> QED
    BY <1>4, <1>17, <2>1 DEF LastIsContent
<1>19. JournalHolds(F, K)'
  BY <1>4, <1>8, <1>10, <1>15, <1>18 DEF JournalHolds
<1>20. ASSUME NEW r \in Resources, NEW c \in 0..latest
       PROVE  content'[r] = content[r] \/ \E d \in (c + 1)..latest' : About(F[d], r)
  <2>1. CASE content'[r] = content[r]
    BY <2>1
  <2>2. CASE \E i \in 1..Len(entries) : About(entries[i], r)
    <3>1. PICK i \in 1..Len(entries) : About(entries[i], r)
      BY <2>2
    <3>2. latest + i \in 1..last /\ latest + i > latest /\ About(F[latest + i], r)
      BY <1>16, <3>1
    <3>3. latest + i \in (c + 1)..latest'
      BY <1>1, <1>4, <3>2
    <3> QED
      BY <3>2, <3>3
  <2> QED
    BY <2>1, <2>2 DEF Tell
<1>21. Grows(H, D, F, K)
  <2>1. latest' \in Nat /\ latest' >= latest
    BY <1>1, <1>4
  <2>2. ASSUME NEW c \in 1..latest PROVE F[c] = H[c]
    <3>1. c \in 1..last /\ c <= latest
      BY <1>1
    <3> QED
      BY <1>6, <3>1
  <2>3. ASSUME NEW c \in 0..latest PROVE K[c] = D[c]
    <3>1. c \in 0..last /\ c <= latest
      BY <1>1
    <3> QED
      BY <1>7, <3>1
  <2> QED
    BY <1>20, <2>1, <2>2, <2>3 DEF Grows
<1>22. retained' \in 0..latest'
  BY <1>1, <1>4
<1>23. ASSUME NEW row \in rows'
       PROVE  row.cursor \in 1..latest' /\ row.old \in BOOLEAN /\ row.event.kind \in Kinds
  <2>1. row \in [cursor : (retained' + 1)..latest', old : BOOLEAN, event : Events]
    BY <1>4 DEF RowsHold
  <2>2. row.cursor \in 1..latest'
    BY <1>1, <1>4, <1>22, <2>1
  <2>3. \A e \in Events : e.kind \in Kinds
    BY DEF Events, Kinds
  <2> QED
    BY <2>1, <2>2, <2>3
<1> QED
  BY <1>1, <1>4, <1>19, <1>21, <1>22, <1>23

\* Steps that leave the history alone.
LEMMA HistoryStays ==
  ASSUME JournalTypeOK, NEW H, NEW D, JournalHolds(H, D), UNCHANGED journalVars
  PROVE  JournalTypeOK' /\ JournalHolds(H, D)' /\ Grows(H, D, H, D)
<1>1. JournalTypeOK'
  BY DEF JournalTypeOK, journalVars
<1>2. JournalHolds(H, D)'
  BY DEF JournalHolds, RowsHold, DecisionsCounted, LastIsContent, journalVars
<1>3. latest \in Nat /\ latest' = latest /\ content' = content
  BY DEF JournalTypeOK, journalVars
<1>4. Grows(H, D, H, D)
  BY <1>3 DEF Grows
<1> QED
  BY <1>1, <1>2, <1>4

LEMMA SaveKeeps ==
  ASSUME JournalTypeOK, NEW H, NEW D, JournalHolds(H, D),
         NEW r \in Resources, NEW c \in Contents, Save(r, c)
  PROVE  JournalTypeOK' /\ \E G, E : JournalHolds(G, E)' /\ Grows(H, D, G, E)
<1>1. /\ commits < MaxCommits /\ commits' = commits + 1
      /\ content' = [content EXCEPT ![r] = c]
      /\ identities' = identities \cup {EventId(r, c)}
      /\ decided' = decided
  BY DEF Save
<1>2. /\ content \in [Resources -> Contents] /\ decided \in Nat /\ latest \in Nat
      /\ retained \in 0..latest /\ heads \in [Resources -> Contents]
      /\ identities \subseteq Resources \X Contents \X Nat
      /\ commits \in 0..MaxCommits /\ MaxCommits \in Nat
  BY JournalAssumption DEF JournalTypeOK
<1>3. /\ heads = content /\ \A id \in identities : id[3] <= commits
  BY DEF JournalHolds, LastIsContent
<1>4. EventId(r, c) \in Resources \X Contents \X Nat /\ EventId(r, c)[3] = commits + 1
  BY <1>2 DEF EventId
<1>5. EventId(r, c) \notin identities
  <2>1. SUFFICES ASSUME EventId(r, c) \in identities PROVE FALSE
    OBVIOUS
  <2>2. EventId(r, c)[3] <= commits
    BY <1>3, <2>1
  <2> QED
    BY <1>2, <1>4, <2>2
<1>6. /\ content' \in [Resources -> Contents] /\ decided' \in Nat
      /\ identities' \subseteq Resources \X Contents \X Nat
      /\ commits' \in 0..MaxCommits
  BY <1>1, <1>2, <1>4
<1>7. \A id \in identities' : id[3] <= commits'
  <2>1. \A id \in identities : id[3] \in Nat
    BY <1>2
  <2> QED
    BY <1>1, <1>2, <1>3, <1>4, <2>1
<1>8. content'[r] = c /\ \A s \in Resources : s # r => content'[s] = content[s]
  BY <1>1, <1>2
<1>9. CASE IsNews(r, c) /\ heads' = [heads EXCEPT ![r] = c]
           /\ Insert(<<[kind |-> "absolute", resource |-> r, content |-> c]>>)
  <2> DEFINE e == [kind |-> "absolute", resource |-> r, content |-> c]
  <2>1. e \in Events /\ e.kind = "absolute" /\ e.resource = r /\ e.content = c
    BY DEF Events
  <2> HIDE DEF e
  <2>2. <<e>> \in Seq(Events) /\ Len(<<e>>) = 1 /\ <<e>>[1] = e /\ <<e>> # << >>
        /\ 1..Len(<<e>>) = {1}
    BY <2>1
  <2>3. heads' = content'
    BY <1>1, <1>3, <1>9
  <2>4. Counts(e, decided, decided')
    BY <1>1, <2>1 DEF Counts
  <2>5. About(e, r) /\ \A s \in Resources : About(e, s) => s = r
    BY <2>1 DEF About
  <2>6. decided' >= decided
    BY <1>1, <1>2
  <2>7. \A s \in Resources :
          content'[s] = content[s] \/ \E i \in 1..Len(<<e>>) : About(<<e>>[i], s)
    BY <1>8, <2>2, <2>5
  <2>8. \A s \in Resources, i \in 1..Len(<<e>>) :
          About(<<e>>[i], s) => <<e>>[i].content = content'[s]
    BY <1>8, <2>1, <2>2, <2>5
  <2>9. \A i \in 1..Len(<<e>>) :
          /\ i = 1 => Counts(<<e>>[i], decided, decided')
          /\ i > 1 => Counts(<<e>>[i], decided', decided')
    BY <2>2, <2>4
  <2>10. Tell(<<e>>)
    BY <1>6, <1>7, <2>2, <2>3, <2>6, <2>7, <2>8, <2>9 DEF Tell
  <2>11. Insert(<<e>>)
    BY <1>9 DEF e
  <2>12. /\ latest' \in Nat /\ retained' \in 0..latest'
         /\ \A row \in rows' : row.cursor \in 1..latest' /\ row.old \in BOOLEAN
                               /\ row.event.kind \in Kinds
         /\ \E G, E : JournalHolds(G, E)' /\ Grows(H, D, G, E)
    BY <2>2, <2>10, <2>11, HistoryGrows
  <2>13. heads' \in [Resources -> Contents]
    BY <1>6, <2>3
  <2>14. JournalTypeOK'
    BY <1>6, <2>12, <2>13 DEF JournalTypeOK
  <2> QED
    BY <2>12, <2>14
<1>10. CASE ~IsNews(r, c) /\ UNCHANGED <<rows, latest, retained, heads>>
  <2>1. heads[r] = c
    BY <1>5, <1>10 DEF IsNews
  <2>2. content' = content
    BY <1>1, <1>2, <1>3, <2>1
  <2>3. JournalTypeOK'
    BY <1>6, <1>10 DEF JournalTypeOK
  <2>4. JournalHolds(H, D)'
    BY <1>1, <1>7, <1>10, <2>2 DEF JournalHolds, RowsHold, DecisionsCounted, LastIsContent
  <2>5. Grows(H, D, H, D)
    BY <1>2, <1>10, <2>2 DEF Grows
  <2> QED
    BY <2>3, <2>4, <2>5
<1> QED
  BY <1>9, <1>10 DEF Save

\* Transactions that append decision events only.
LEMMA DecisionsKeep ==
  ASSUME JournalTypeOK, NEW H, NEW D, JournalHolds(H, D), commits < MaxCommits,
         commits' = commits + 1, UNCHANGED <<content, heads, identities>>,
         decided' \in Nat, decided' >= decided,
         NEW entries \in Seq(Events), entries # << >>, Insert(entries),
         \A i \in 1..Len(entries) :
           /\ entries[i].kind # "absolute"
           /\ i = 1 => Counts(entries[i], decided, decided')
           /\ i > 1 => Counts(entries[i], decided', decided')
  PROVE  JournalTypeOK' /\ \E G, E : JournalHolds(G, E)' /\ Grows(H, D, G, E)
<1>1. /\ identities \subseteq Resources \X Contents \X Nat
      /\ commits \in 0..MaxCommits /\ MaxCommits \in Nat
  BY JournalAssumption DEF JournalTypeOK
<1>2. /\ heads = content /\ \A id \in identities : id[3] <= commits
  BY DEF JournalHolds, LastIsContent
<1>3. \A id \in identities' : id[3] <= commits'
  <2>1. \A id \in identities : id[3] \in Nat
    BY <1>1
  <2> QED
    BY <1>1, <1>2, <2>1
<1>4. \A r \in Resources, i \in 1..Len(entries) : ~About(entries[i], r)
  BY DEF About
<1>5. heads' = content' /\ content' = content
  BY <1>2
<1>6. Tell(entries)
  BY <1>3, <1>4, <1>5 DEF Tell
<1>7. /\ latest' \in Nat /\ retained' \in 0..latest'
      /\ \A row \in rows' : row.cursor \in 1..latest' /\ row.old \in BOOLEAN
                            /\ row.event.kind \in Kinds
      /\ \E G, E : JournalHolds(G, E)' /\ Grows(H, D, G, E)
  BY <1>6, HistoryGrows
<1>8. JournalTypeOK'
  BY <1>1, <1>7 DEF JournalTypeOK
<1> QED
  BY <1>7, <1>8

LEMMA SaveDecisionKeeps ==
  ASSUME JournalTypeOK, NEW H, NEW D, JournalHolds(H, D),
         NEW n \in 1..(decided + 1), SaveDecision(n)
  PROVE  JournalTypeOK' /\ \E G, E : JournalHolds(G, E)' /\ Grows(H, D, G, E)
<1> DEFINE e == DecisionEvent(n)
<1>1. /\ commits < MaxCommits /\ commits' = commits + 1
      /\ decided' = Greatest({n}, decided)
      /\ Insert(<<e>>)
      /\ UNCHANGED <<content, heads, identities>>
  BY DEF SaveDecision
<1>2. decided \in Nat
  BY DEF JournalTypeOK
<1>3. decided' \in {n, decided} /\ decided' >= decided /\ n <= decided'
  <2>1. {n} \in SUBSET Int /\ decided \in Int /\ n \in Int /\ \A x \in {n} : x <= n
    BY <1>2
  <2>2. /\ Greatest({n}, decided) \in {n} \cup {decided}
        /\ Greatest({n}, decided) >= decided
        /\ \A x \in {n} : x <= Greatest({n}, decided)
    BY <2>1, GreatestIs
  <2> QED
    BY <1>1, <2>2
<1>4. decided' \in Nat
  BY <1>2, <1>3
<1>5. e \in Events /\ e.kind = "decision" /\ e.decision = n
  BY <1>2 DEF Events, DecisionEvent
<1> HIDE DEF e
<1>6. Counts(e, decided, decided')
  <2>1. (n <= decided /\ decided' = decided) \/ (n = decided + 1 /\ decided' = decided + 1)
    BY <1>2, <1>3
  <2> QED
    BY <1>5, <2>1 DEF Counts
<1>7. <<e>> \in Seq(Events) /\ <<e>> # << >> /\ <<e>>[1] = e /\ 1..Len(<<e>>) = {1}
  BY <1>5
<1>8. \A i \in 1..Len(<<e>>) :
        /\ <<e>>[i].kind # "absolute"
        /\ i = 1 => Counts(<<e>>[i], decided, decided')
        /\ i > 1 => Counts(<<e>>[i], decided', decided')
  BY <1>5, <1>6, <1>7
<1> QED
  BY <1>1, <1>3, <1>4, <1>7, <1>8, DecisionsKeep

LEMMA ReplaceDecisionsKeeps ==
  ASSUME JournalTypeOK, NEW H, NEW D, JournalHolds(H, D), ReplaceDecisions
  PROVE  JournalTypeOK' /\ \E G, E : JournalHolds(G, E)' /\ Grows(H, D, G, E)
<1> DEFINE entries == [n \in 1..decided |-> DecisionEvent(n)]
<1>1. /\ commits < MaxCommits /\ commits' = commits + 1
      /\ decided > 0
      /\ Insert(entries)
      /\ UNCHANGED <<content, heads, identities>> /\ decided' = decided
  BY DEF ReplaceDecisions
<1>2. decided \in Nat /\ decided' \in Nat /\ decided' >= decided
  BY <1>1 DEF JournalTypeOK
<1>3. ASSUME NEW n \in 1..decided
      PROVE  /\ DecisionEvent(n) \in Events
             /\ DecisionEvent(n).kind = "decision" /\ DecisionEvent(n).decision = n
  BY <1>2 DEF Events, DecisionEvent
<1>4. entries \in Seq(Events) /\ Len(entries) = decided
  BY <1>2, <1>3
<1>5. entries # << >>
  BY <1>1, <1>2, <1>4
<1>6. \A i \in 1..Len(entries) : entries[i] = DecisionEvent(i) /\ i \in 1..decided
  BY <1>4
<1> HIDE DEF entries
<1>7. ASSUME NEW i \in 1..Len(entries)
      PROVE  /\ entries[i].kind # "absolute"
             /\ i = 1 => Counts(entries[i], decided, decided')
             /\ i > 1 => Counts(entries[i], decided', decided')
  <2>1. entries[i].kind = "decision" /\ entries[i].decision = i /\ i <= decided
    BY <1>2, <1>3, <1>6
  <2>2. decided' = decided
    BY <1>1
  <2> QED
    BY <2>1, <2>2 DEF Counts
<1> QED
  BY <1>1, <1>2, <1>4, <1>5, <1>7, DecisionsKeep

LEMMA ReconcileKeeps ==
  ASSUME JournalTypeOK, NEW H, NEW D, JournalHolds(H, D), Reconcile
  PROVE  JournalTypeOK' /\ \E G, E : JournalHolds(G, E)' /\ Grows(H, D, G, E)
<1> DEFINE e == [kind |-> "all", decisions |-> decided']
<1>1. /\ commits < MaxCommits /\ commits' = commits + 1
      /\ decided' \in {decided, decided + 1}
      /\ Insert(<<e>>)
      /\ UNCHANGED <<content, heads, identities>>
  BY DEF Reconcile
<1>2. decided \in Nat /\ decided' \in Nat /\ decided' >= decided
  BY <1>1 DEF JournalTypeOK
<1>3. e \in Events /\ e.kind = "all" /\ e.decisions = decided'
  BY <1>2 DEF Events
<1> HIDE DEF e
<1>4. Counts(e, decided, decided')
  BY <1>2, <1>3 DEF Counts
<1>5. <<e>> \in Seq(Events) /\ <<e>> # << >> /\ <<e>>[1] = e /\ 1..Len(<<e>>) = {1}
  BY <1>3
<1>6. \A i \in 1..Len(<<e>>) :
        /\ <<e>>[i].kind # "absolute"
        /\ i = 1 => Counts(<<e>>[i], decided, decided')
        /\ i > 1 => Counts(<<e>>[i], decided', decided')
  BY <1>3, <1>4, <1>5
<1> QED
  BY <1>1, <1>2, <1>5, <1>6, DecisionsKeep

LEMMA AgeKeeps ==
  ASSUME JournalTypeOK, NEW H, NEW D, JournalHolds(H, D), Age
  PROVE  JournalTypeOK' /\ JournalHolds(H, D)' /\ Grows(H, D, H, D)
<1>1. PICK row \in rows :
        /\ ~row.old
        /\ rows' = (rows \ {row}) \cup {[row EXCEPT !.old = TRUE]}
  BY DEF Age
<1>2. UNCHANGED <<content, decided, latest, retained, heads, identities, commits>>
  BY DEF Age
<1> DEFINE aged == [row EXCEPT !.old = TRUE]
<1>3. RowsHold(H)
  BY DEF JournalHolds
<1>4. row \in [cursor : (retained + 1)..latest, old : BOOLEAN, event : Events]
  BY <1>3 DEF RowsHold
<1>5. /\ aged \in [cursor : (retained + 1)..latest, old : BOOLEAN, event : Events]
      /\ aged.cursor = row.cursor /\ aged.event = row.event /\ aged.old = TRUE
  BY <1>4
<1> HIDE DEF aged
<1>6. rows' = (rows \ {row}) \cup {aged}
  BY <1>1 DEF aged
<1>7. rows' \subseteq [cursor : (retained + 1)..latest, old : BOOLEAN, event : Events]
  BY <1>3, <1>5, <1>6 DEF RowsHold
<1>8. \A x \in rows' : x.event = H[x.cursor]
  BY <1>3, <1>5, <1>6 DEF RowsHold
<1>9. ASSUME NEW c \in (retained + 1)..latest PROVE \E x \in rows' : x.cursor = c
  BY <1>3, <1>5, <1>6 DEF RowsHold
<1>10. ASSUME NEW x \in rows', NEW y \in rows', x.cursor = y.cursor PROVE x = y
  BY <1>3, <1>5, <1>6, <1>10 DEF RowsHold
<1>11. RowsHold(H)'
  BY <1>2, <1>7, <1>8, <1>9, <1>10 DEF RowsHold
<1>12. JournalHolds(H, D)'
  BY <1>2, <1>11 DEF JournalHolds, DecisionsCounted, LastIsContent
<1>13. \A x \in rows' : x.cursor \in 1..latest /\ x.old \in BOOLEAN /\ x.event.kind \in Kinds
  <2>1. \A x \in rows : x.cursor \in 1..latest /\ x.old \in BOOLEAN /\ x.event.kind \in Kinds
    BY DEF JournalTypeOK
  <2> QED
    BY <1>5, <1>6, <2>1
<1>14. JournalTypeOK'
  BY <1>2, <1>13 DEF JournalTypeOK
<1>15. Grows(H, D, H, D)
  BY <1>2 DEF Grows, JournalTypeOK
<1> QED
  BY <1>12, <1>14, <1>15

LEMMA JournalStep ==
  ASSUME JournalTypeOK, NEW H, NEW D, JournalHolds(H, D), JournalNext
  PROVE  JournalTypeOK' /\ \E G, E : JournalHolds(G, E)' /\ Grows(H, D, G, E)
<1>1. CASE \E r \in Resources, c \in Contents : Save(r, c)
  BY <1>1, SaveKeeps
<1>2. CASE \E n \in 1..(decided + 1) : SaveDecision(n)
  BY <1>2, SaveDecisionKeeps
<1>3. CASE ReplaceDecisions
  BY <1>3, ReplaceDecisionsKeeps
<1>4. CASE Reconcile
  BY <1>4, ReconcileKeeps
<1>5. CASE Age
  BY <1>5, AgeKeeps
<1> QED
  BY <1>1, <1>2, <1>3, <1>4, <1>5 DEF JournalNext

-----------------------------------------------------------------------------
(* One read of the journal. *)

\* From the floor on there is one row per cursor.
LEMMA RowCount ==
  ASSUME JournalTypeOK, NEW H, RowsHold(H), NEW c \in retained..latest, NEW k \in c..latest
  PROVE  LET S == {x \in rows : x.cursor > c /\ x.cursor <= k}
         IN  IsFiniteSet(S) /\ Cardinality(S) = k - c
<1> DEFINE S == {x \in rows : x.cursor > c /\ x.cursor <= k}
           f == [d \in (c + 1)..k |-> CHOOSE x \in rows : x.cursor = d]
<1>1. latest \in Nat /\ retained \in 0..latest /\ c \in Int /\ k \in Int
  BY DEF JournalTypeOK
<1>2. \A x \in rows : x.cursor \in (retained + 1)..latest
  BY DEF RowsHold
<1>3. ASSUME NEW d \in (c + 1)..k PROVE f[d] \in rows /\ f[d].cursor = d /\ f[d] \in S
  <2>1. d \in (retained + 1)..latest /\ d > c /\ d <= k
    BY <1>1
  <2>2. \E x \in rows : x.cursor = d
    BY <2>1 DEF RowsHold
  <2>3. f[d] \in rows /\ f[d].cursor = d
    BY <2>2
  <2> QED
    BY <2>1, <2>3
<1>4. ASSUME NEW x \in S PROVE \E d \in (c + 1)..k : f[d] = x
  <2>1. x \in rows /\ x.cursor \in (c + 1)..k
    BY <1>1, <1>2
  <2>2. f[x.cursor] \in rows /\ f[x.cursor].cursor = x.cursor
    BY <1>3, <2>1
  <2>3. f[x.cursor] = x
    BY <2>1, <2>2 DEF RowsHold
  <2> QED
    BY <2>1, <2>3
<1>5. \A d, e \in (c + 1)..k : f[d] = f[e] => d = e
  <2> SUFFICES ASSUME NEW d \in (c + 1)..k, NEW e \in (c + 1)..k, f[d] = f[e]
               PROVE  d = e
    OBVIOUS
  <2>1. f[d].cursor = d /\ f[e].cursor = e
    BY <1>3
  <2> HIDE DEF f
  <2> QED
    BY <2>1
<1>6. f \in [(c + 1)..k -> S]
  BY <1>3
<1> HIDE DEF f, S
<1>7. f \in Bijection((c + 1)..k, S)
  BY <1>4, <1>5, <1>6 DEF Bijection, Injection, Surjection, IsInjective
<1>8. IsFiniteSet((c + 1)..k) /\ Cardinality((c + 1)..k) = k - c
  <2>1. c + 1 \in Int /\ k \in Int /\ c <= k
    BY <1>1
  <2>2. /\ IsFiniteSet((c + 1)..k)
        /\ Cardinality((c + 1)..k) = IF c + 1 > k THEN 0 ELSE k - (c + 1) + 1
    BY <2>1, FS_Interval
  <2> QED
    BY <1>1, <2>1, <2>2
<1>9. ExistsBijection((c + 1)..k, S)
  BY <1>7 DEF ExistsBijection
<1>10. IsFiniteSet(S) /\ Cardinality(S) = Cardinality((c + 1)..k)
  BY <1>8, <1>9, FS_Bijection
<1> QED
  BY <1>8, <1>10 DEF S

\* A batch is the next rows in order, as many as there are up to the limit.
LEMMA BatchIs ==
  ASSUME JournalTypeOK, NEW H, RowsHold(H), NEW c \in retained..latest,
         NEW limit \in Nat \ {0}
  PROVE  \E n \in Nat :
           /\ c + n <= latest
           /\ DOMAIN Batch(c, limit) = 1..n
           /\ Batch(c, limit) \in Seq(rows)
           /\ \A i \in 1..n : Batch(c, limit)[i] \in rows /\ Batch(c, limit)[i].cursor = c + i
<1> DEFINE later == {row \in rows : row.cursor > c}
           size == Min({limit, Cardinality(later)})
           Nth(i) == CHOOSE row \in later :
                       Cardinality({x \in later : x.cursor <= row.cursor}) = i
           batch == [i \in 1..size |-> Nth(i)]
<1>1. Batch(c, limit) = batch
  BY DEF Batch
<1>2. latest \in Nat /\ retained \in 0..latest /\ c \in Nat /\ c <= latest
  BY DEF JournalTypeOK
<1>3. \A x \in rows : x.cursor \in (retained + 1)..latest
  BY DEF RowsHold
<1>4. Cardinality(later) = latest - c
  <2>1. latest \in c..latest
    BY <1>2
  <2>2. Cardinality({x \in rows : x.cursor > c /\ x.cursor <= latest}) = latest - c
    BY <2>1, RowCount
  <2>3. later = {x \in rows : x.cursor > c /\ x.cursor <= latest}
    BY <1>2, <1>3
  <2> QED
    BY <2>2, <2>3
<1>5. size \in Nat /\ c + size <= latest
  <2> DEFINE m == Cardinality(later)
  <2>1. m \in Nat /\ limit \in Nat /\ m = latest - c
    BY <1>2, <1>4
  <2> HIDE DEF m
  <2>2. \E x \in {limit, m} : \A y \in {limit, m} : x <= y
    BY <2>1
  <2>3. Min({limit, m}) \in {limit, m} /\ Min({limit, m}) <= m
    BY <2>2 DEF Min
  <2>4. size = Min({limit, m})
    BY DEF m
  <2> HIDE DEF size
  <2> QED
    BY <1>2, <2>1, <2>3, <2>4
<1>6. ASSUME NEW row \in later
      PROVE  Cardinality({x \in later : x.cursor <= row.cursor}) = row.cursor - c
  <2> DEFINE k == row.cursor
  <2>1. k \in c..latest
    BY <1>2, <1>3
  <2> HIDE DEF k
  <2>2. Cardinality({x \in rows : x.cursor > c /\ x.cursor <= k}) = k - c
    BY <2>1, RowCount
  <2>3. {x \in later : x.cursor <= k} = {x \in rows : x.cursor > c /\ x.cursor <= k}
    OBVIOUS
  <2> QED
    BY <2>2, <2>3 DEF k
<1>7. ASSUME NEW i \in 1..size
      PROVE  batch[i] \in rows /\ batch[i].cursor = c + i
  <2>1. c + i \in (retained + 1)..latest /\ c + i > c
    BY <1>2, <1>5
  <2>2. PICK row \in rows : row.cursor = c + i
    BY <2>1 DEF RowsHold
  <2>3. row \in later
    BY <2>1, <2>2
  <2>4. row.cursor - c = i
    BY <1>2, <2>2
  <2>5. Cardinality({x \in later : x.cursor <= row.cursor}) = i
    BY <1>6, <2>3, <2>4
  <2>6. batch[i] \in later
        /\ Cardinality({x \in later : x.cursor <= batch[i].cursor}) = i
    <3> HIDE DEF later, size
    <3> QED
      BY <2>3, <2>5
  <2>7. batch[i].cursor - c = i
    <3> HIDE DEF batch, later
    <3> QED
      BY <1>6, <2>6
  <2>8. batch[i] \in rows /\ batch[i].cursor \in Int
    <3> HIDE DEF batch
    <3> QED
      BY <1>2, <1>3, <2>6
  <2> HIDE DEF batch
  <2> QED
    BY <1>2, <2>7, <2>8
<1> HIDE DEF Nth
<1>8. DOMAIN batch = 1..size
  OBVIOUS
<1>9. batch \in [1..size -> rows]
  <2>1. ASSUME NEW i \in 1..size PROVE Nth(i) \in rows
    BY <1>7
  <2> HIDE DEF size
  <2> QED
    BY <2>1
<1> HIDE DEF batch, size
<1>10. batch \in Seq(rows)
  BY <1>5, <1>9
<1> QED
  BY <1>1, <1>5, <1>7, <1>8, <1>10

-----------------------------------------------------------------------------
(* The reducer over one frame. *)

Boards == [content : [Resources -> Contents], count : Nat, newest : Nat]

\* Board b is the committed state up to the events after c: C are the contents and n
\* the newest cursor.
Leads(b, c, C, n, H, D) ==
  /\ \A r \in Resources : b.content[r] = C[r] \/ \E d \in (c + 1)..n : About(H[d], r)
  /\ b.count >= D[c]
  /\ b.newest > D[c] => b.count >= b.newest

LEMMA ReducedIs ==
  ASSUME NEW b \in Boards, NEW e \in Events
  PROVE  /\ Reduced(b, e) \in Boards
         /\ e.kind = "absolute" =>
              /\ Reduced(b, e).count = b.count /\ Reduced(b, e).newest = b.newest
              /\ \A r \in Resources : Reduced(b, e).content[r] =
                   IF r = e.resource THEN e.content ELSE b.content[r]
         /\ e.kind = "decision" =>
              /\ e.decision \in Nat
              /\ Reduced(b, e).content = b.content /\ Reduced(b, e).newest = e.decision
              /\ b.newest = e.decision => Reduced(b, e).count = b.count
              /\ b.newest # e.decision => Reduced(b, e).count = b.count + 1
         /\ e.kind = "all" =>
              /\ e.decisions \in Nat
              /\ Reduced(b, e).content = b.content
              /\ Reduced(b, e).newest = e.decisions /\ Reduced(b, e).count = e.decisions
<1>1. /\ b.content \in [Resources -> Contents] /\ b.count \in Nat /\ b.newest \in Nat
      /\ b = [content |-> b.content, count |-> b.count, newest |-> b.newest]
  BY DEF Boards
<1>2. CASE e \in [kind : {"absolute"}, resource : Resources, content : Contents]
  <2>1. e.kind = "absolute" /\ e.resource \in Resources /\ e.content \in Contents
    BY <1>2
  <2> DEFINE C == [b.content EXCEPT ![e.resource] = e.content]
  <2>2. Reduced(b, e) = [content |-> C, count |-> b.count, newest |-> b.newest]
    BY <1>1, <2>1 DEF Reduced
  <2>3. C \in [Resources -> Contents]
        /\ \A r \in Resources : C[r] = IF r = e.resource THEN e.content ELSE b.content[r]
    BY <1>1, <2>1
  <2> HIDE DEF C
  <2> QED
    BY <1>1, <2>1, <2>2, <2>3 DEF Boards
<1>3. CASE e \in [kind : {"decision"}, decision : Nat]
  <2>1. e.kind = "decision" /\ e.decision \in Nat
    BY <1>3
  <2> DEFINE n == b.count + (IF b.newest = e.decision THEN 0 ELSE 1)
  <2>2. Reduced(b, e) = [content |-> b.content, count |-> n, newest |-> e.decision]
    BY <1>1, <2>1 DEF Reduced
  <2>3. n \in Nat /\ (b.newest = e.decision => n = b.count)
        /\ (b.newest # e.decision => n = b.count + 1)
    BY <1>1
  <2> HIDE DEF n
  <2> QED
    BY <1>1, <2>1, <2>2, <2>3 DEF Boards
<1>4. CASE e \in [kind : {"all"}, decisions : Nat]
  <2>1. e.kind = "all" /\ e.decisions \in Nat
    BY <1>4
  <2>2. Reduced(b, e) = [content |-> b.content, count |-> e.decisions,
                         newest |-> e.decisions]
    BY <1>1, <2>1 DEF Reduced
  <2> QED
    BY <1>1, <2>1, <2>2 DEF Boards
<1> QED
  BY <1>2, <1>3, <1>4 DEF Events

\* One event keeps a board that leads to the committed state on its way, decisions
\* that it shows already included.
LEMMA OneEvent ==
  ASSUME JournalTypeOK, NEW H, NEW D, JournalHolds(H, D), NEW b \in Boards,
         NEW c \in 0..latest, c < latest, Leads(b, c, content, latest, H, D)
  PROVE  Leads(Reduced(b, H[c + 1]), c + 1, content, latest, H, D)
<1> DEFINE e == H[c + 1]
           R == Reduced(b, e)
<1>1. latest \in Nat /\ c \in Nat /\ c + 1 \in 1..latest /\ c + 1 \in 0..latest
  BY DEF JournalTypeOK
<1>2. /\ H \in [1..latest -> Events] /\ D \in [0..latest -> Nat]
      /\ DecisionsCounted(H, D) /\ LastIsContent(H)
  BY DEF JournalHolds
<1>3. e \in Events
  BY <1>1, <1>2
<1>4. D[c] \in Nat /\ D[c + 1] \in Nat /\ Counts(e, D[c], D[c + 1])
  <2>1. c + 1 - 1 = c
    BY <1>1
  <2>2. Counts(H[c + 1], D[c + 1 - 1], D[c + 1])
    BY <1>1, <1>2 DEF DecisionsCounted
  <2> QED
    BY <1>1, <1>2, <2>1, <2>2
<1>5. /\ b.count \in Nat /\ b.newest \in Nat
      /\ b.count >= D[c] /\ (b.newest > D[c] => b.count >= b.newest)
  BY DEF Boards, Leads
<1>6. e.kind \in {"absolute", "decision", "all"}
  BY <1>3 DEF Events
<1>7. ASSUME NEW r \in Resources, ~About(e, r), R.content[r] = b.content[r]
      PROVE  R.content[r] = content[r] \/ \E d \in (c + 1 + 1)..latest : About(H[d], r)
  <2>1. CASE b.content[r] = content[r]
    BY <1>7, <2>1
  <2>2. CASE \E d \in (c + 1)..latest : About(H[d], r)
    <3>1. PICK d \in (c + 1)..latest : About(H[d], r)
      BY <2>2
    <3>2. d # c + 1
      BY <1>7, <3>1
    <3>3. d \in (c + 1 + 1)..latest
      BY <1>1, <3>2
    <3> QED
      BY <3>1, <3>3
  <2> QED
    BY <2>1, <2>2 DEF Leads
<1> HIDE DEF e
<1>8. R = Reduced(b, e)
  OBVIOUS
<1> HIDE DEF R
<1>9. CASE e.kind = "absolute"
  <2>1. /\ R.count = b.count /\ R.newest = b.newest
        /\ \A r \in Resources : R.content[r] =
             IF r = e.resource THEN e.content ELSE b.content[r]
    BY <1>3, <1>8, <1>9, ReducedIs
  <2>2. D[c + 1] = D[c]
    BY <1>4, <1>9 DEF Counts
  <2>3. ASSUME NEW r \in Resources
        PROVE  R.content[r] = content[r] \/ \E d \in (c + 1 + 1)..latest : About(H[d], r)
    <3>1. CASE r = e.resource
      <4>1. About(H[c + 1], r)
        BY <1>9, <3>1 DEF About, e
      <4>2. SUFFICES ASSUME \A d \in (c + 1 + 1)..latest : ~About(H[d], r)
                     PROVE  R.content[r] = content[r]
        OBVIOUS
      <4>3. H[c + 1].content = content[r]
        BY <1>1, <1>2, <4>1, <4>2 DEF LastIsContent
      <4> QED
        BY <2>1, <3>1, <4>3 DEF e
    <3>2. CASE r # e.resource
      <4>1. ~About(e, r) /\ R.content[r] = b.content[r]
        BY <2>1, <3>2 DEF About
      <4> QED
        BY <1>7, <4>1
    <3> QED
      BY <3>1, <3>2
  <2>4. Leads(R, c + 1, content, latest, H, D)
    BY <1>5, <2>1, <2>2, <2>3 DEF Leads
  <2> QED
    BY <1>8, <2>4 DEF e
<1>10. ASSUME e.kind # "absolute", R.content = b.content, NEW r \in Resources
       PROVE  R.content[r] = content[r] \/ \E d \in (c + 1 + 1)..latest : About(H[d], r)
  <2>1. ~About(e, r)
    BY <1>10 DEF About
  <2> QED
    BY <1>7, <1>10, <2>1
<1>11. CASE e.kind = "decision"
  <2>1. /\ e.decision \in Nat /\ R.content = b.content /\ R.newest = e.decision
        /\ b.newest = e.decision => R.count = b.count
        /\ b.newest # e.decision => R.count = b.count + 1
    BY <1>3, <1>8, <1>11, ReducedIs
  <2>2. \/ e.decision <= D[c] /\ D[c + 1] = D[c]
        \/ e.decision = D[c] + 1 /\ D[c + 1] = D[c] + 1
    BY <1>4, <1>11 DEF Counts
  <2>3. R.count >= D[c + 1] /\ ~(R.newest > D[c + 1])
    BY <1>4, <1>5, <2>1, <2>2
  <2>4. Leads(R, c + 1, content, latest, H, D)
    BY <1>10, <1>11, <2>1, <2>3 DEF Leads
  <2> QED
    BY <1>8, <2>4 DEF e
<1>12. CASE e.kind = "all"
  <2>1. /\ e.decisions \in Nat /\ R.content = b.content
        /\ R.newest = e.decisions /\ R.count = e.decisions
    BY <1>3, <1>8, <1>12, ReducedIs
  <2>2. D[c + 1] = e.decisions
    BY <1>4, <1>12 DEF Counts
  <2>3. R.count >= D[c + 1] /\ ~(R.newest > D[c + 1])
    BY <2>1, <2>2
  <2>4. Leads(R, c + 1, content, latest, H, D)
    BY <1>10, <1>12, <2>1, <2>3 DEF Leads
  <2> QED
    BY <1>8, <2>4 DEF e
<1> QED
  BY <1>6, <1>9, <1>11, <1>12

\* f is the states a board goes through while the events are applied.
IsRun(f, b, events) ==
  f = [i \in 0..Len(events) |-> IF i = 0 THEN b ELSE Reduced(f[i - 1], events[i])]

LEMMA RunExists ==
  ASSUME NEW b, NEW events \in Seq(Events)
  PROVE  \E f : IsRun(f, b, events)
<1> DEFINE Runs(n) == \E f : f = [i \in 0..n |->
                                    IF i = 0 THEN b ELSE Reduced(f[i - 1], events[i])]
           T == {n \in Nat : ~Runs(n)}
<1>1. Runs(0)
  <2> DEFINE f == [i \in 0..0 |-> b]
  <2>1. f = [i \in 0..0 |-> IF i = 0 THEN b ELSE Reduced(f[i - 1], events[i])]
    <3>1. \A i \in 0..0 : i = 0
      OBVIOUS
    <3> QED
      BY <3>1
  <2> QED
    BY <2>1
<1>2. ASSUME NEW n \in Nat, n > 0, Runs(n - 1) PROVE Runs(n)
  <2>1. PICK f : f = [i \in 0..(n - 1) |->
                        IF i = 0 THEN b ELSE Reduced(f[i - 1], events[i])]
    BY <1>2
  <2>2. \A i \in 0..(n - 1) :
          f[i] = IF i = 0 THEN b ELSE Reduced(f[i - 1], events[i])
    BY <2>1
  <2> DEFINE g == [i \in 0..n |-> IF i < n THEN f[i] ELSE Reduced(f[n - 1], events[n])]
  <2>3. ASSUME NEW i \in 0..n
        PROVE  g[i] = IF i = 0 THEN b ELSE Reduced(g[i - 1], events[i])
    <3>1. CASE i = 0
      <4>1. i \in 0..(n - 1) /\ i < n
        BY <1>2, <3>1
      <4>2. g[i] = f[i]
        BY <4>1
      <4>3. f[i] = b
        BY <2>2, <3>1, <4>1
      <4> QED
        BY <3>1, <4>2, <4>3
    <3>2. CASE i # 0 /\ i < n
      <4>1. i \in 0..(n - 1) /\ i - 1 \in 0..n /\ i - 1 < n
        BY <1>2, <3>2
      <4>2. g[i] = f[i] /\ g[i - 1] = f[i - 1]
        BY <3>2, <4>1
      <4> HIDE DEF g
      <4>3. f[i] = Reduced(f[i - 1], events[i])
        BY <2>2, <3>2, <4>1
      <4> QED
        BY <3>2, <4>2, <4>3
    <3>3. CASE i # 0 /\ i = n
      <4>1. n \in 0..n /\ n - 1 \in 0..n /\ n - 1 < n
        BY <1>2
      <4>2. g[n] = Reduced(f[n - 1], events[n]) /\ g[n - 1] = f[n - 1]
        BY <4>1
      <4> HIDE DEF g
      <4> QED
        BY <3>3, <4>2
    <3> QED
      BY <1>2, <3>1, <3>2, <3>3
  <2>4. g = [i \in 0..n |-> g[i]]
    OBVIOUS
  <2> HIDE DEF g
  <2>5. g = [i \in 0..n |-> IF i = 0 THEN b ELSE Reduced(g[i - 1], events[i])]
    BY <2>3, <2>4
  <2> QED
    BY <2>5
<1>3. T = {}
  <2> SUFFICES ASSUME T # {} PROVE FALSE
    OBVIOUS
  <2>1. T \in SUBSET Nat
    OBVIOUS
  <2>2. PICK n \in T : \A m \in T : n <= m
    <3> HIDE DEF T
    <3> QED
      BY <2>1, LeastExists
  <2> HIDE DEF Runs
  <2>3. n \in Nat /\ ~Runs(n)
    OBVIOUS
  <2>4. n > 0
    BY <1>1, <2>3
  <2>5. n - 1 \in Nat /\ n - 1 < n
    BY <2>3, <2>4
  <2>6. n - 1 \notin T
    BY <2>2, <2>3, <2>5
  <2>7. Runs(n - 1)
    BY <2>5, <2>6
  <2> QED
    BY <1>2, <2>3, <2>4, <2>7
<1>4. Len(events) \in Nat
  OBVIOUS
<1>5. Runs(Len(events))
  <2> HIDE DEF Runs
  <2> QED
    BY <1>3, <1>4
<1> QED
  BY <1>5 DEF IsRun

\* An applied frame ends the states that start with the board and follow the reducer.
LEMMA ApplyAllIs ==
  ASSUME NEW b, NEW events \in Seq(Events), page = "ready"
  PROVE  \E f : /\ \A i \in 0..Len(events) :
                     f[i] = IF i = 0 THEN b ELSE Reduced(f[i - 1], events[i])
                /\ ApplyAll(b, events) = f[Len(events)]
<1> DEFINE f == CHOOSE g : IsRun(g, b, events)
<1>1. \E g : IsRun(g, b, events)
  BY RunExists
<1>2. IsRun(f, b, events)
  BY <1>1
<1>3. ApplyAll(b, events) = f[Len(events)]
  BY DEF ApplyAll, IsRun
<1> HIDE DEF f
<1>4. \A i \in 0..Len(events) :
        f[i] = IF i = 0 THEN b ELSE Reduced(f[i - 1], events[i])
  BY <1>2 DEF IsRun
<1> QED
  BY <1>3, <1>4

LEMMA FrameType ==
  ASSUME NEW b \in Boards, NEW events \in Seq(Events)
  PROVE  ApplyAll(b, events) \in Boards
<1>1. CASE page # "ready"
  BY <1>1 DEF ApplyAll
<1>2. CASE page = "ready"
  <2>1. PICK f : /\ \A i \in 0..Len(events) :
                      f[i] = IF i = 0 THEN b ELSE Reduced(f[i - 1], events[i])
                 /\ ApplyAll(b, events) = f[Len(events)]
    BY <1>2, ApplyAllIs
  <2> DEFINE T == {n \in 0..Len(events) : f[n] \notin Boards}
  <2>2. T = {}
    <3> SUFFICES ASSUME T # {} PROVE FALSE
      OBVIOUS
    <3>1. T \in SUBSET Nat
      OBVIOUS
    <3>2. PICK n \in T : \A m \in T : n <= m
      <4> HIDE DEF T
      <4> QED
        BY <3>1, LeastExists
    <3>3. n \in 0..Len(events) /\ f[n] \notin Boards /\ Len(events) \in Nat
      OBVIOUS
    <3>4. n # 0
      BY <2>1, <3>3
    <3>5. n - 1 \in 0..Len(events) /\ n - 1 < n /\ n \in 1..Len(events)
      BY <3>3, <3>4
    <3>6. n - 1 \notin T
      BY <3>2, <3>3, <3>5
    <3>7. f[n - 1] \in Boards
      BY <3>5, <3>6
    <3>8. f[n] = Reduced(f[n - 1], events[n])
      BY <2>1, <3>3, <3>4
    <3>9. events[n] \in Events
      BY <3>5
    <3> QED
      BY <3>3, <3>7, <3>8, <3>9, ReducedIs
  <2>3. Len(events) \in 0..Len(events)
    OBVIOUS
  <2> QED
    BY <2>1, <2>2, <2>3
<1> QED
  BY <1>1, <1>2

LEMMA FrameLeads ==
  ASSUME JournalTypeOK, NEW H, NEW D, JournalHolds(H, D), page = "ready",
         NEW b \in Boards, NEW events \in Seq(Events), NEW c \in 0..latest,
         c + Len(events) <= latest, \A i \in 1..Len(events) : events[i] = H[c + i],
         Leads(b, c, content, latest, H, D)
  PROVE  Leads(ApplyAll(b, events), c + Len(events), content, latest, H, D)
<1>1. PICK f : /\ \A i \in 0..Len(events) :
                    f[i] = IF i = 0 THEN b ELSE Reduced(f[i - 1], events[i])
               /\ ApplyAll(b, events) = f[Len(events)]
  BY ApplyAllIs
<1> DEFINE P(n) == f[n] \in Boards /\ Leads(f[n], c + n, content, latest, H, D)
           T == {n \in 0..Len(events) : ~P(n)}
<1>2. Len(events) \in Nat /\ latest \in Nat /\ c \in Nat
  BY DEF JournalTypeOK
<1>3. P(0)
  <2>1. c + 0 = c /\ 0 \in 0..Len(events)
    BY <1>2
  <2>2. f[0] = b
    BY <1>1, <2>1
  <2> QED
    BY <2>1, <2>2
<1>4. ASSUME NEW n \in 1..Len(events), P(n - 1) PROVE P(n)
  <2>1. n - 1 \in 0..Len(events) /\ n \in 0..Len(events) /\ n # 0
        /\ c + (n - 1) \in 0..latest /\ c + (n - 1) < latest /\ c + (n - 1) + 1 = c + n
    BY <1>2
  <2>2. f[n] = Reduced(f[n - 1], events[n])
    BY <1>1, <2>1
  <2>3. events[n] = H[c + n] /\ events[n] \in Events
    OBVIOUS
  <2>4. f[n] \in Boards
    BY <1>4, <2>2, <2>3, ReducedIs
  <2> DEFINE k == c + (n - 1)
  <2>5. k \in 0..latest /\ k < latest /\ k + 1 = c + n
    BY <2>1
  <2>6. f[n - 1] \in Boards /\ Leads(f[n - 1], k, content, latest, H, D)
    BY <1>4
  <2> HIDE DEF k
  <2>7. Leads(Reduced(f[n - 1], H[k + 1]), k + 1, content, latest, H, D)
    BY <2>5, <2>6, OneEvent
  <2> QED
    BY <2>2, <2>3, <2>4, <2>5, <2>7
<1>5. T = {}
  <2> SUFFICES ASSUME T # {} PROVE FALSE
    OBVIOUS
  <2>1. T \in SUBSET Nat
    OBVIOUS
  <2>2. PICK n \in T : \A m \in T : n <= m
    <3> HIDE DEF T
    <3> QED
      BY <2>1, LeastExists
  <2> HIDE DEF P
  <2>3. n \in 0..Len(events) /\ ~P(n)
    OBVIOUS
  <2>4. n # 0
    BY <1>3, <2>3
  <2>5. n - 1 \in 0..Len(events) /\ n - 1 < n /\ n \in 1..Len(events)
    BY <1>2, <2>3, <2>4
  <2>6. n - 1 \notin T
    BY <1>2, <2>2, <2>3, <2>5
  <2>7. P(n - 1)
    BY <2>5, <2>6
  <2> QED
    BY <1>4, <2>3, <2>5, <2>7
<1>6. Len(events) \in 0..Len(events)
  BY <1>2
<1>7. P(Len(events))
  <2> HIDE DEF P
  <2> QED
    BY <1>5, <1>6
<1> QED
  BY <1>1, <1>7

-----------------------------------------------------------------------------
(* The page and its connection. *)

Frames == [status : {"open", "refresh_required"}, cursor : Nat, events : Seq(Events)]

\* The cursor before the events of frame k.
SentBefore(k) == IF k = 1 THEN cursor ELSE wire[k - 1].cursor

\* The frames on the wire carry the history from the page's cursor to the server's.
WireHolds(H) ==
  /\ wire \in Seq(Frames)
  /\ socket # "open" => wire = << >>
  /\ socket = "open" =>
       position = IF wire = << >> THEN cursor ELSE wire[Len(wire)].cursor
  /\ \A k \in 1..Len(wire) :
       /\ wire[k].cursor \in 0..latest
       /\ wire[k].cursor = SentBefore(k) + Len(wire[k].events)
       /\ \A i \in 1..Len(wire[k].events) : wire[k].events[i] = H[SentBefore(k) + i]

\* What a page shows, and what an answered request holds, leads to the committed state.
PagesHold(H, D) ==
  /\ page = "ready" /\ ~overtaken => Leads(board, cursor, content, latest, H, D)
  /\ \A l \in Loads : request[l].stage = "answered" =>
       Leads(request[l].board, request[l].cursor, content, latest, H, D)

Holds(H, D) == JournalHolds(H, D) /\ WireHolds(H) /\ PagesHold(H, D)

Inv == TypeOK /\ \E H, D : Holds(H, D)

Requests(n) == [stage : Stages, cursor : 0..n, board : Boards]

LEMMA TypeParts ==
  TypeOK <=>
    /\ JournalTypeOK
    /\ page \in {"loading", "ready", "error"}
    /\ board \in Boards
    /\ cursor \in 0..latest
    /\ request \in [Loads -> Requests(latest)]
    /\ socket \in {"none", "open", "closed"}
    /\ position \in 0..latest
    /\ Len(wire) <= MaxWire
    /\ overtaken \in BOOLEAN
    /\ drops \in 0..MaxDrops /\ failures \in 0..MaxFailures /\ refreshes \in 0..MaxRefreshes
BY DEF TypeOK, Boards, Requests

LEMMA RequestChanged ==
  ASSUME NEW l \in Loads, NEW n, NEW q \in Requests(n), NEW S,
         NEW f \in [Loads -> Requests(n)], S = [f EXCEPT ![l] = q]
  PROVE  /\ S \in [Loads -> Requests(n)]
         /\ S[l] = q
         /\ \A m \in Loads : m # l => S[m] = f[m]
OBVIOUS

LEMMA BlankType ==
  /\ Blank \in Boards
  /\ NoRequest.stage = "idle"
  /\ \A n \in Nat : NoRequest \in Requests(n)
<1>1. Blank \in Boards
  BY JournalAssumption DEF Blank, Boards
<1>2. NoRequest = [stage |-> "idle", cursor |-> 0, board |-> Blank]
  BY DEF NoRequest
<1>3. "idle" \in Stages /\ \A n \in Nat : 0 \in 0..n
  BY DEF Stages
<1> QED
  BY <1>1, <1>2, <1>3 DEF Requests

\* A board that leads on from a cursor does so when the history grows, and from any
\* earlier cursor.
LEMMA LeadsGrows ==
  ASSUME latest \in Nat, NEW H, NEW D, NEW G, NEW E, Grows(H, D, G, E),
         NEW b, NEW c \in 0..latest, Leads(b, c, content, latest, H, D)
  PROVE  Leads(b, c, content', latest', G, E)
<1>1. /\ latest' \in Nat /\ latest' >= latest /\ E[c] = D[c]
      /\ \A d \in 1..latest : G[d] = H[d]
  BY DEF Grows
<1>2. ASSUME NEW r \in Resources
      PROVE  b.content[r] = content'[r] \/ \E d \in (c + 1)..latest' : About(G[d], r)
  <2>1. CASE \E d \in (c + 1)..latest' : About(G[d], r)
    BY <2>1
  <2>2. CASE content'[r] = content[r] /\ b.content[r] = content[r]
    BY <2>2
  <2>3. CASE \E d \in (c + 1)..latest : About(H[d], r)
    <3>1. PICK d \in (c + 1)..latest : About(H[d], r)
      BY <2>3
    <3>2. d \in 1..latest /\ d \in (c + 1)..latest'
      BY <1>1
    <3> QED
      BY <1>1, <3>1, <3>2
  <2> QED
    BY <2>1, <2>2, <2>3 DEF Grows, Leads
<1> QED
  BY <1>1, <1>2 DEF Leads

LEMMA LeadsEarlier ==
  ASSUME JournalTypeOK, NEW H, NEW D, JournalHolds(H, D), NEW b \in Boards,
         NEW d \in 0..latest, NEW c \in 0..latest, c <= d,
         Leads(b, d, content, latest, H, D)
  PROVE  Leads(b, c, content, latest, H, D)
<1>1. latest \in Nat /\ D \in [0..latest -> Nat] /\ D[c] <= D[d]
  BY DEF JournalTypeOK, JournalHolds, DecisionsCounted
<1>2. D[c] \in Nat /\ D[d] \in Nat /\ b.count \in Nat /\ b.newest \in Nat
  BY <1>1 DEF Boards
<1>3. b.count >= D[c] /\ (b.newest > D[c] => b.count >= b.newest)
  BY <1>1, <1>2 DEF Leads
<1>4. \A x \in (d + 1)..latest : x \in (c + 1)..latest
  BY <1>1
<1> QED
  BY <1>3, <1>4 DEF Leads

LEMMA CommitKeeps ==
  ASSUME TypeOK, NEW H, NEW D, Holds(H, D), Commit
  PROVE  Inv'
<1>1. /\ JournalTypeOK /\ page \in {"loading", "ready", "error"} /\ board \in Boards
      /\ cursor \in 0..latest /\ request \in [Loads -> Requests(latest)]
      /\ position \in 0..latest
  BY TypeParts
<1>2. JournalHolds(H, D) /\ WireHolds(H) /\ PagesHold(H, D)
  BY DEF Holds
<1>3. JournalNext /\ UNCHANGED <<pageVars, streamVars, boundVars>>
  BY DEF Commit
<1>4. JournalTypeOK' /\ \E G, E : JournalHolds(G, E)' /\ Grows(H, D, G, E)
  BY <1>1, <1>2, <1>3, JournalStep
<1>5. PICK G, E : JournalHolds(G, E)' /\ Grows(H, D, G, E)
  BY <1>4
<1>6. latest \in Nat /\ latest' \in Nat /\ latest' >= latest
      /\ \A c \in 1..latest : G[c] = H[c]
  BY <1>1, <1>5 DEF JournalTypeOK, Grows
<1>7. /\ page' = page /\ board' = board /\ cursor' = cursor /\ request' = request
      /\ overtaken' = overtaken /\ socket' = socket /\ position' = position /\ wire' = wire
      /\ drops' = drops /\ failures' = failures /\ refreshes' = refreshes
  BY <1>3 DEF pageVars, streamVars, boundVars
<1>8. \A x \in 0..latest : x \in 0..latest'
  BY <1>6
<1>9. request' \in [Loads -> Requests(latest')]
  <2>1. \A q \in Requests(latest) : q \in Requests(latest')
    BY <1>8 DEF Requests
  <2> QED
    BY <1>1, <1>7, <2>1
<1>10. TypeOK'
  BY <1>4, <1>7, <1>8, <1>9, TypeParts DEF TypeOK, Boards, Requests
<1>11. WireHolds(G)'
  <2>1. \A k : SentBefore(k)' = SentBefore(k)
    BY <1>7 DEF SentBefore
  <2>2. ASSUME NEW k \in 1..Len(wire)
        PROVE  /\ wire[k].cursor \in 0..latest'
               /\ wire[k].cursor = SentBefore(k) + Len(wire[k].events)
               /\ \A i \in 1..Len(wire[k].events) : wire[k].events[i] = G[SentBefore(k) + i]
    <3>1. /\ wire[k].cursor \in 0..latest
          /\ wire[k].cursor = SentBefore(k) + Len(wire[k].events)
          /\ \A i \in 1..Len(wire[k].events) : wire[k].events[i] = H[SentBefore(k) + i]
      BY <1>2 DEF WireHolds
    <3>2. wire[k].events \in Seq(Events) /\ SentBefore(k) \in Nat
      <4>1. wire \in Seq(Frames)
        BY <1>2 DEF WireHolds
      <4>2. wire[k] \in Frames /\ (k # 1 => wire[k - 1] \in Frames)
        BY <4>1
      <4> QED
        BY <1>1, <1>6, <4>2 DEF Frames, SentBefore
    <3>3. ASSUME NEW i \in 1..Len(wire[k].events)
          PROVE  H[SentBefore(k) + i] = G[SentBefore(k) + i]
      <4>1. Len(wire[k].events) \in Nat
        BY <3>2
      <4>2. SentBefore(k) + i \in 1..latest
        BY <1>6, <3>1, <3>2, <4>1
      <4> QED
        BY <1>6, <4>2
    <3> QED
      BY <1>8, <3>1, <3>3
  <2> QED
    BY <1>2, <1>7, <2>1, <2>2 DEF WireHolds
<1>12. PagesHold(G, E)'
  <2>1. page = "ready" /\ ~overtaken => Leads(board, cursor, content', latest', G, E)
    BY <1>1, <1>2, <1>5, <1>6, LeadsGrows DEF PagesHold
  <2>2. ASSUME NEW l \in Loads, request[l].stage = "answered"
        PROVE  Leads(request[l].board, request[l].cursor, content', latest', G, E)
    <3>1. request[l].cursor \in 0..latest
      BY <1>1 DEF Requests
    <3>2. Leads(request[l].board, request[l].cursor, content, latest, H, D)
      BY <1>2, <2>2 DEF PagesHold
    <3> QED
      BY <1>5, <1>6, <3>1, <3>2, LeadsGrows
  <2> QED
    BY <1>7, <2>1, <2>2 DEF PagesHold
<1> QED
  BY <1>5, <1>10, <1>11, <1>12 DEF Inv, Holds

-----------------------------------------------------------------------------
(* Steps of the page and of its connection: the journal stays. *)

\* What such a step has to preserve.
LEMMA JournalAside ==
  ASSUME TypeOK, NEW H, NEW D, Holds(H, D), UNCHANGED journalVars
  PROVE  /\ JournalTypeOK' /\ JournalHolds(H, D)'
         /\ latest' = latest /\ content' = content /\ latest \in Nat
         /\ WireHolds(H)' /\ PagesHold(H, D)' /\ TypeOK' => Inv'
<1>1. JournalTypeOK /\ JournalHolds(H, D)
  BY DEF TypeOK, Holds
<1>2. JournalTypeOK' /\ JournalHolds(H, D)'
  BY <1>1, HistoryStays
<1>3. latest' = latest /\ content' = content /\ latest \in Nat
  BY <1>1 DEF journalVars, JournalTypeOK
<1> QED
  BY <1>2, <1>3 DEF Inv, Holds

\* The wire is not touched, nor where it starts and ends.
LEMMA WireStays ==
  ASSUME NEW H, WireHolds(H), latest' = latest, cursor' = cursor,
         UNCHANGED streamVars
  PROVE  WireHolds(H)'
<1>1. socket' = socket /\ position' = position /\ wire' = wire
  BY DEF streamVars
<1>2. \A k : SentBefore(k)' = SentBefore(k)
  BY <1>1 DEF SentBefore
<1> QED
  BY <1>1, <1>2 DEF WireHolds

\* The wire is empty: a new connection or none.
LEMMA WireEmptied ==
  ASSUME NEW H, wire' = << >>, socket' = "open" => position' = cursor'
  PROVE  WireHolds(H)'
BY DEF WireHolds

LEMMA ReadCursorKeeps ==
  ASSUME TypeOK, NEW H, NEW D, Holds(H, D), NEW l \in Loads, ReadCursor(l)
  PROVE  Inv'
<1> DEFINE q == [request[l] EXCEPT !.stage = "cursor", !.cursor = latest]
<1>1. /\ request' = [request EXCEPT ![l] = q]
      /\ UNCHANGED journalVars /\ UNCHANGED streamVars
      /\ page' = page /\ board' = board /\ cursor' = cursor /\ overtaken' = overtaken
      /\ drops' = drops /\ failures' = failures /\ refreshes' = refreshes
  BY DEF ReadCursor, boundVars
<1>2. /\ board \in Boards /\ request \in [Loads -> Requests(latest)]
      /\ JournalTypeOK' /\ latest' = latest /\ content' = content /\ latest \in Nat
  BY <1>1, TypeParts, JournalAside
<1>3. WireHolds(H)'
  BY <1>1, <1>2, WireStays DEF Holds
<1>4. q \in Requests(latest) /\ q.stage = "cursor"
  <2>1. request[l] \in Requests(latest)
    BY <1>2
  <2>2. latest \in 0..latest /\ "cursor" \in Stages
    BY <1>2 DEF Stages
  <2> QED
    BY <2>1, <2>2 DEF Requests
<1> HIDE DEF q
<1>5. /\ request' \in [Loads -> Requests(latest)] /\ request'[l] = q
      /\ \A m \in Loads : m # l => request'[m] = request[m]
  BY <1>1, <1>2, <1>4, RequestChanged
<1>6. PagesHold(H, D)'
  BY <1>1, <1>2, <1>4, <1>5 DEF PagesHold, Holds
<1>7. TypeOK'
  BY <1>1, <1>2, <1>5 DEF TypeOK, Boards, Requests, streamVars
<1> QED
  BY <1>1, <1>3, <1>6, <1>7, JournalAside

LEMMA ReadBoardKeeps ==
  ASSUME TypeOK, NEW H, NEW D, Holds(H, D), NEW l \in Loads, ReadBoard(l)
  PROVE  Inv'
<1> DEFINE b == [content |-> content, count |-> decided, newest |-> decided]
           q == [stage |-> "answered", cursor |-> request[l].cursor, board |-> b]
<1>1. /\ request' = [request EXCEPT ![l] = q]
      /\ UNCHANGED journalVars /\ UNCHANGED streamVars
      /\ page' = page /\ board' = board /\ cursor' = cursor /\ overtaken' = overtaken
      /\ drops' = drops /\ failures' = failures /\ refreshes' = refreshes
  BY DEF ReadBoard, boundVars, SnapshotCursor
<1>2. /\ board \in Boards /\ request \in [Loads -> Requests(latest)]
      /\ JournalTypeOK' /\ latest' = latest /\ content' = content /\ latest \in Nat
      /\ JournalTypeOK
  BY <1>1, TypeParts, JournalAside
<1>3. WireHolds(H)'
  BY <1>1, <1>2, WireStays DEF Holds
<1>4. /\ b \in Boards /\ b.content = content /\ b.count = decided /\ b.newest = decided
  BY <1>2 DEF JournalTypeOK, Boards
<1>5. request[l].cursor \in 0..latest
  BY <1>2 DEF Requests
<1> HIDE DEF b
<1>6. /\ q \in Requests(latest) /\ q.stage = "answered" /\ q.cursor = request[l].cursor
      /\ q.board = b
  BY <1>4, <1>5 DEF Requests, Stages
<1>7. Leads(b, request[l].cursor, content, latest, H, D)
  <2>1. D[latest] = decided /\ D \in [0..latest -> Nat] /\ decided \in Nat
        /\ \A c, d \in 0..latest : c <= d => D[c] <= D[d]
    BY <1>2 DEF Holds, JournalHolds, DecisionsCounted, JournalTypeOK
  <2>2. latest \in 0..latest /\ request[l].cursor <= latest
    BY <1>2, <1>5
  <2>3. D[request[l].cursor] <= decided /\ D[request[l].cursor] \in Nat
    BY <1>5, <2>1, <2>2
  <2> QED
    BY <1>4, <2>1, <2>3 DEF Leads
<1> HIDE DEF q
<1>8. /\ request' \in [Loads -> Requests(latest)] /\ request'[l] = q
      /\ \A m \in Loads : m # l => request'[m] = request[m]
  BY <1>1, <1>2, <1>6, RequestChanged
<1>9. PagesHold(H, D)'
  BY <1>1, <1>2, <1>6, <1>7, <1>8 DEF PagesHold, Holds
<1>10. TypeOK'
  BY <1>1, <1>2, <1>8 DEF TypeOK, Boards, Requests, streamVars
<1> QED
  BY <1>1, <1>3, <1>9, <1>10, JournalAside

LEMMA LoadedKeeps ==
  ASSUME TypeOK, NEW H, NEW D, Holds(H, D), NEW l \in Loads, Loaded(l)
  PROVE  Inv'
<1>1. /\ request[l].stage = "answered"
      /\ page' = "ready" /\ board' = request[l].board
      /\ request' = [request EXCEPT ![l] = NoRequest]
      /\ UNCHANGED journalVars
      /\ drops' = drops /\ failures' = failures /\ refreshes' = refreshes
  BY DEF Loaded, boundVars
<1>2. /\ request \in [Loads -> Requests(latest)] /\ cursor \in 0..latest
      /\ JournalTypeOK' /\ latest' = latest /\ content' = content /\ latest \in Nat
      /\ JournalTypeOK
  BY <1>1, TypeParts, JournalAside
<1>3. /\ JournalHolds(H, D) /\ WireHolds(H)
      /\ Leads(request[l].board, request[l].cursor, content, latest, H, D)
  BY <1>1 DEF Holds, PagesHold
<1>4. request[l].cursor \in 0..latest /\ request[l].board \in Boards
  BY <1>2 DEF Requests
<1>5. NoRequest \in Requests(latest) /\ NoRequest.stage = "idle"
  BY <1>2, BlankType
<1>6. /\ request' \in [Loads -> Requests(latest)] /\ request'[l] = NoRequest
      /\ \A m \in Loads : m # l => request'[m] = request[m]
  BY <1>1, <1>2, <1>5, RequestChanged
<1>7. ASSUME NEW m \in Loads, request'[m].stage = "answered"
      PROVE  Leads(request'[m].board, request'[m].cursor, content, latest, H, D)
  <2>1. m # l
    BY <1>5, <1>6, <1>7
  <2>2. request'[m] = request[m]
    BY <1>6, <2>1
  <2> QED
    BY <1>7, <2>2 DEF Holds, PagesHold
<1>8. CASE /\ cursor' = request[l].cursor /\ overtaken' = FALSE
           /\ socket' = "open" /\ position' = request[l].cursor /\ wire' = << >>
  <2>1. WireHolds(H)'
    BY <1>8, WireEmptied
  <2>2. PagesHold(H, D)'
    BY <1>1, <1>2, <1>3, <1>7, <1>8 DEF PagesHold
  <2>3. Len(wire') <= MaxWire
    BY <1>8, StreamAssumption
  <2>4. TypeOK'
    BY <1>1, <1>2, <1>4, <1>6, <1>8, <2>3 DEF TypeOK, Boards, Requests
  <2> QED
    BY <1>1, <2>1, <2>2, <2>4, JournalAside
<1>9. CASE /\ overtaken' = (request[l].cursor < cursor)
           /\ cursor' = cursor /\ UNCHANGED streamVars
  <2>1. WireHolds(H)'
    BY <1>2, <1>3, <1>9, WireStays
  <2>2. ASSUME ~overtaken' PROVE Leads(board', cursor', content, latest, H, D)
    <3>1. cursor <= request[l].cursor
      <4>1. ~(request[l].cursor < cursor)
        BY <1>9, <2>2, Zenon
      <4> QED
        BY <1>2, <1>4, <4>1
    <3>2. Leads(request[l].board, cursor, content, latest, H, D)
      BY <1>2, <1>3, <1>4, <3>1, LeadsEarlier
    <3> QED
      BY <1>1, <1>9, <3>2
  <2>3. PagesHold(H, D)'
    BY <1>2, <1>7, <2>2 DEF PagesHold
  <2>4. overtaken' \in BOOLEAN
    BY <1>9
  <2>5. TypeOK'
    BY <1>1, <1>2, <1>4, <1>6, <1>9, <2>4 DEF TypeOK, Boards, Requests, streamVars
  <2> QED
    BY <1>1, <2>1, <2>3, <2>5, JournalAside
<1> QED
  BY <1>8, <1>9 DEF Loaded, Connect, NewCursor

LEMMA LoadFailsKeeps ==
  ASSUME TypeOK, NEW H, NEW D, Holds(H, D), NEW l \in Loads, LoadFails(l)
  PROVE  Inv'
<1>1. /\ failures < MaxFailures /\ failures' = failures + 1
      /\ page' = "error" /\ board' = Blank
      /\ request' = [request EXCEPT ![l] = NoRequest]
      /\ UNCHANGED journalVars /\ UNCHANGED streamVars
      /\ cursor' = cursor /\ overtaken' = overtaken
      /\ drops' = drops /\ refreshes' = refreshes
  BY DEF LoadFails
<1>2. /\ request \in [Loads -> Requests(latest)]
      /\ JournalTypeOK' /\ latest' = latest /\ content' = content /\ latest \in Nat
  BY <1>1, TypeParts, JournalAside
<1>3. WireHolds(H)'
  BY <1>1, <1>2, WireStays DEF Holds
<1>4. NoRequest \in Requests(latest) /\ NoRequest.stage = "idle" /\ Blank \in Boards
  BY <1>2, BlankType
<1>5. /\ request' \in [Loads -> Requests(latest)] /\ request'[l] = NoRequest
      /\ \A m \in Loads : m # l => request'[m] = request[m]
  BY <1>1, <1>2, <1>4, RequestChanged
<1>6. PagesHold(H, D)'
  BY <1>1, <1>2, <1>4, <1>5 DEF PagesHold, Holds
<1>7. failures' \in 0..MaxFailures
  BY <1>1, StreamAssumption DEF TypeOK
<1>8. TypeOK'
  BY <1>1, <1>2, <1>4, <1>5, <1>7 DEF TypeOK, Boards, Requests, streamVars
<1> QED
  BY <1>1, <1>3, <1>6, <1>8, JournalAside

LEMMA RefreshKeeps ==
  ASSUME TypeOK, NEW H, NEW D, Holds(H, D), Refresh
  PROVE  Inv'
<1> DEFINE q == [request["manual"] EXCEPT !.stage = "asked"]
<1>1. /\ refreshes < MaxRefreshes /\ refreshes' = refreshes + 1
      /\ page' = "loading" /\ board' = Blank
      /\ request' = [request EXCEPT !["manual"] = q]
      /\ UNCHANGED journalVars /\ UNCHANGED streamVars
      /\ cursor' = cursor /\ overtaken' = overtaken
      /\ drops' = drops /\ failures' = failures
  BY DEF Refresh
<1>2. /\ request \in [Loads -> Requests(latest)] /\ "manual" \in Loads
      /\ JournalTypeOK' /\ latest' = latest /\ content' = content /\ latest \in Nat
  BY <1>1, TypeParts, JournalAside DEF Loads
<1>3. WireHolds(H)'
  BY <1>1, <1>2, WireStays DEF Holds
<1>4. q \in Requests(latest) /\ q.stage = "asked"
  <2>1. request["manual"] \in Requests(latest) /\ "asked" \in Stages
    BY <1>2 DEF Stages
  <2> QED
    BY <2>1 DEF Requests
<1> HIDE DEF q
<1>5. /\ request' \in [Loads -> Requests(latest)] /\ request'["manual"] = q
      /\ \A m \in Loads : m # "manual" => request'[m] = request[m]
  BY <1>1, <1>2, <1>4, RequestChanged
<1>6. PagesHold(H, D)'
  BY <1>1, <1>2, <1>4, <1>5 DEF PagesHold, Holds
<1>7. refreshes' \in 0..MaxRefreshes
  BY <1>1, StreamAssumption DEF TypeOK
<1>8. TypeOK'
  BY <1>1, <1>2, <1>5, <1>7, BlankType DEF TypeOK, Boards, Requests, streamVars
<1> QED
  BY <1>1, <1>3, <1>6, <1>8, JournalAside

LEMMA ReconnectKeeps ==
  ASSUME TypeOK, NEW H, NEW D, Holds(H, D), Reconnect
  PROVE  Inv'
<1>1. /\ socket' = "open" /\ position' = cursor /\ wire' = << >>
      /\ UNCHANGED journalVars
      /\ page' = page /\ board' = board /\ cursor' = cursor /\ request' = request
      /\ overtaken' = overtaken
      /\ drops' = drops /\ failures' = failures /\ refreshes' = refreshes
  BY DEF Reconnect, Connect, ResumeCursor, pageVars, boundVars
<1>2. JournalTypeOK' /\ latest' = latest /\ content' = content
  BY <1>1, JournalAside
<1>3. WireHolds(H)'
  BY <1>1, WireEmptied
<1>4. PagesHold(H, D)'
  BY <1>1, <1>2 DEF PagesHold, Holds
<1>5. Len(wire') <= MaxWire
  BY <1>1, StreamAssumption
<1>6. TypeOK'
  BY <1>1, <1>2, <1>5 DEF TypeOK
<1> QED
  BY <1>1, <1>3, <1>4, <1>6, JournalAside

LEMMA DropKeeps ==
  ASSUME TypeOK, NEW H, NEW D, Holds(H, D), Drop
  PROVE  Inv'
<1>1. /\ drops < MaxDrops /\ drops' = drops + 1
      /\ socket' = "closed" /\ position' = 0 /\ wire' = << >>
      /\ UNCHANGED journalVars
      /\ page' = page /\ board' = board /\ cursor' = cursor /\ request' = request
      /\ overtaken' = overtaken
      /\ failures' = failures /\ refreshes' = refreshes
  BY DEF Drop, Disconnect, pageVars
<1>2. JournalTypeOK' /\ latest' = latest /\ content' = content /\ latest \in Nat
  BY <1>1, JournalAside
<1>3. WireHolds(H)'
  BY <1>1, WireEmptied
<1>4. PagesHold(H, D)'
  BY <1>1, <1>2 DEF PagesHold, Holds
<1>5. Len(wire') <= MaxWire /\ drops' \in 0..MaxDrops /\ position' \in 0..latest
  BY <1>1, <1>2, StreamAssumption DEF TypeOK
<1>6. TypeOK'
  BY <1>1, <1>2, <1>5 DEF TypeOK
<1> QED
  BY <1>1, <1>3, <1>4, <1>6, JournalAside

LEMMA ReceiveExpiredKeeps ==
  ASSUME TypeOK, NEW H, NEW D, Holds(H, D), ReceiveExpired
  PROVE  Inv'
<1> DEFINE q == [request["stream"] EXCEPT !.stage = "asked"]
<1>1. /\ socket' = "closed" /\ position' = 0 /\ wire' = << >>
      /\ page' = "loading" /\ board' = Blank
      /\ request' = [request EXCEPT !["stream"] = q]
      /\ UNCHANGED journalVars
      /\ cursor' = cursor /\ overtaken' = overtaken
      /\ drops' = drops /\ failures' = failures /\ refreshes' = refreshes
  BY DEF ReceiveExpired, Disconnect, boundVars
<1>2. /\ request \in [Loads -> Requests(latest)] /\ "stream" \in Loads
      /\ JournalTypeOK' /\ latest' = latest /\ content' = content /\ latest \in Nat
  BY <1>1, TypeParts, JournalAside DEF Loads
<1>3. WireHolds(H)'
  BY <1>1, WireEmptied
<1>4. q \in Requests(latest) /\ q.stage = "asked"
  <2>1. request["stream"] \in Requests(latest) /\ "asked" \in Stages
    BY <1>2 DEF Stages
  <2> QED
    BY <2>1 DEF Requests
<1> HIDE DEF q
<1>5. /\ request' \in [Loads -> Requests(latest)] /\ request'["stream"] = q
      /\ \A m \in Loads : m # "stream" => request'[m] = request[m]
  BY <1>1, <1>2, <1>4, RequestChanged
<1>6. PagesHold(H, D)'
  BY <1>1, <1>2, <1>4, <1>5 DEF PagesHold, Holds
<1>7. Len(wire') <= MaxWire /\ position' \in 0..latest
  BY <1>1, <1>2, StreamAssumption
<1>8. TypeOK'
  BY <1>1, <1>2, <1>5, <1>7, BlankType DEF TypeOK, Boards, Requests
<1> QED
  BY <1>1, <1>3, <1>6, <1>8, JournalAside

\* The first frame is applied: the wire starts after it.
LEMMA ReceiveEventsKeeps ==
  ASSUME TypeOK, NEW H, NEW D, Holds(H, D), ReceiveEvents
  PROVE  Inv'
<1>1. /\ socket = "open" /\ wire # << >>
      /\ board' = ApplyAll(board, Head(wire).events)
      /\ cursor' = Head(wire).cursor
      /\ wire' = Tail(wire)
      /\ UNCHANGED journalVars
      /\ page' = page /\ request' = request /\ overtaken' = overtaken
      /\ socket' = socket /\ position' = position
      /\ drops' = drops /\ failures' = failures /\ refreshes' = refreshes
  BY DEF ReceiveEvents, boundVars
<1>2. /\ JournalTypeOK' /\ latest' = latest /\ content' = content /\ latest \in Nat
      /\ JournalTypeOK /\ board \in Boards /\ cursor \in 0..latest
  BY <1>1, TypeParts, JournalAside
<1>3. JournalHolds(H, D) /\ WireHolds(H) /\ PagesHold(H, D)
  BY DEF Holds
<1>4. wire \in Seq(Frames) /\ Len(wire) \in Nat /\ Len(wire) > 0 /\ Head(wire) = wire[1]
  BY <1>1, <1>3 DEF WireHolds
<1>5. /\ wire[1] \in Frames /\ wire[1].events \in Seq(Events)
      /\ wire[1].cursor \in 0..latest
      /\ wire[1].cursor = cursor + Len(wire[1].events)
      /\ \A i \in 1..Len(wire[1].events) : wire[1].events[i] = H[cursor + i]
  <2>1. 1 \in 1..Len(wire) /\ SentBefore(1) = cursor
    BY <1>4 DEF SentBefore
  <2>2. wire[1] \in Frames
    BY <1>4, <2>1
  <2> QED
    BY <1>3, <2>1, <2>2 DEF WireHolds, Frames
<1>6. /\ wire' \in Seq(Frames) /\ Len(wire') = Len(wire) - 1
      /\ \A k \in 1..Len(wire') : wire'[k] = wire[k + 1]
  BY <1>1, <1>4
<1>7. ASSUME NEW k \in 1..Len(wire')
      PROVE  k + 1 \in 1..Len(wire) /\ SentBefore(k)' = SentBefore(k + 1)
  <2>1. k + 1 \in 1..Len(wire) /\ k + 1 # 1 /\ k + 1 - 1 = k
    BY <1>4, <1>6
  <2>2. SentBefore(k + 1) = wire[k].cursor
    BY <2>1 DEF SentBefore
  <2>3. CASE k = 1
    BY <1>1, <1>4, <2>1, <2>2, <2>3 DEF SentBefore
  <2>4. CASE k # 1
    <3>1. k - 1 \in 1..Len(wire') /\ k - 1 + 1 = k
      BY <1>4, <1>6, <2>4
    <3>2. wire'[k - 1] = wire[k]
      BY <1>6, <3>1
    <3> QED
      BY <2>1, <2>2, <2>4, <3>2 DEF SentBefore
  <2> QED
    BY <2>3, <2>4
<1>8. position' = IF wire' = << >> THEN cursor' ELSE wire'[Len(wire')].cursor
  <2>1. position = wire[Len(wire)].cursor
    BY <1>1, <1>3, <1>4 DEF WireHolds
  <2>2. CASE wire' = << >>
    <3>1. Len(wire) = 1
      BY <1>4, <1>6, <2>2
    <3> QED
      BY <1>1, <1>4, <2>1, <2>2, <3>1
  <2>3. CASE wire' # << >>
    <3>1. Len(wire') \in 1..Len(wire') /\ Len(wire') + 1 = Len(wire)
      BY <1>4, <1>6, <2>3
    <3>2. wire'[Len(wire')] = wire[Len(wire)]
      BY <1>6, <3>1
    <3> QED
      BY <1>1, <2>1, <2>3, <3>2
  <2> QED
    BY <2>2, <2>3
<1>9. ASSUME NEW k \in 1..Len(wire')
      PROVE  /\ wire'[k].cursor \in 0..latest'
             /\ wire'[k].cursor = SentBefore(k)' + Len(wire'[k].events)
             /\ \A i \in 1..Len(wire'[k].events) :
                  wire'[k].events[i] = H[SentBefore(k)' + i]
  <2> DEFINE j == k + 1
  <2>1. j \in 1..Len(wire) /\ SentBefore(k)' = SentBefore(j) /\ wire'[k] = wire[j]
    BY <1>6, <1>7
  <2> HIDE DEF j
  <2>2. /\ wire[j].cursor \in 0..latest
        /\ wire[j].cursor = SentBefore(j) + Len(wire[j].events)
        /\ \A i \in 1..Len(wire[j].events) : wire[j].events[i] = H[SentBefore(j) + i]
    BY <1>3, <2>1 DEF WireHolds
  <2> QED
    BY <1>2, <2>1, <2>2
<1>10. WireHolds(H)'
  BY <1>1, <1>6, <1>8, <1>9 DEF WireHolds
<1>11. board' \in Boards
  BY <1>1, <1>2, <1>4, <1>5, FrameType
<1>12. ASSUME page = "ready", ~overtaken
       PROVE  Leads(board', cursor', content, latest, H, D)
  <2>1. Leads(board, cursor, content, latest, H, D)
    BY <1>3, <1>12 DEF PagesHold
  <2>2. cursor + Len(wire[1].events) <= latest
    BY <1>2, <1>5
  <2>3. Leads(ApplyAll(board, wire[1].events), cursor + Len(wire[1].events),
              content, latest, H, D)
    BY <1>2, <1>3, <1>5, <1>12, <2>1, <2>2, FrameLeads
  <2> QED
    BY <1>1, <1>4, <1>5, <2>3
<1>13. PagesHold(H, D)'
  BY <1>1, <1>2, <1>3, <1>12 DEF PagesHold
<1>14. Len(wire') <= MaxWire /\ cursor' \in 0..latest
  BY <1>1, <1>4, <1>5, <1>6, StreamAssumption DEF TypeOK
<1>15. TypeOK'
  BY <1>1, <1>2, <1>11, <1>14 DEF TypeOK, Boards
<1> QED
  BY <1>1, <1>10, <1>13, <1>15, JournalAside

\* A frame that continues where the wire ends keeps it in order.
LEMMA FrameSent ==
  ASSUME NEW H, WireHolds(H), latest \in Nat, cursor \in 0..latest, socket = "open",
         NEW frame \in Frames, frame.cursor \in 0..latest,
         frame.cursor = position + Len(frame.events),
         \A i \in 1..Len(frame.events) : frame.events[i] = H[position + i],
         wire' = Append(wire, frame), position' = frame.cursor,
         latest' = latest, cursor' = cursor, socket' = socket
  PROVE  WireHolds(H)' /\ Len(wire') = Len(wire) + 1
<1> DEFINE n == Len(wire)
<1>1. wire \in Seq(Frames) /\ n \in Nat
  BY DEF WireHolds
<1>2. /\ wire' \in Seq(Frames) /\ Len(wire') = n + 1 /\ wire'[n + 1] = frame
      /\ wire' # << >>
      /\ \A k \in 1..n : wire'[k] = wire[k]
  BY <1>1
<1>3. ASSUME NEW k \in 1..(n + 1) PROVE SentBefore(k)' = SentBefore(k)
  <2>1. CASE k = 1
    BY <2>1 DEF SentBefore
  <2>2. CASE k # 1
    <3>1. k - 1 \in 1..n
      BY <1>1, <2>2
    <3>2. wire'[k - 1] = wire[k - 1]
      BY <1>2, <3>1
    <3> QED
      BY <2>2, <3>2 DEF SentBefore
  <2> QED
    BY <2>1, <2>2
<1>4. SentBefore(n + 1) = position
  <2>1. position = IF wire = << >> THEN cursor ELSE wire[n].cursor
    BY DEF WireHolds
  <2>2. CASE wire = << >>
    <3>1. n + 1 = 1
      BY <1>1, <2>2
    <3> QED
      BY <2>1, <2>2, <3>1 DEF SentBefore
  <2>3. CASE wire # << >>
    <3>1. n + 1 # 1 /\ n + 1 - 1 = n
      BY <1>1, <2>3
    <3> QED
      BY <2>1, <2>3, <3>1 DEF SentBefore
  <2> QED
    BY <2>2, <2>3
<1>5. ASSUME NEW k \in 1..n
      PROVE  /\ wire[k].cursor \in 0..latest
             /\ wire[k].cursor = SentBefore(k) + Len(wire[k].events)
             /\ \A i \in 1..Len(wire[k].events) : wire[k].events[i] = H[SentBefore(k) + i]
  BY DEF WireHolds
<1> HIDE DEF n
<1>6. ASSUME NEW k \in 1..(n + 1)
      PROVE  /\ wire'[k].cursor \in 0..latest'
             /\ wire'[k].cursor = SentBefore(k)' + Len(wire'[k].events)
             /\ \A i \in 1..Len(wire'[k].events) :
                  wire'[k].events[i] = H[SentBefore(k)' + i]
  <2>1. CASE k = n + 1
    <3>1. wire'[k] = frame /\ SentBefore(k)' = position
      BY <1>2, <1>3, <1>4, <2>1
    <3> QED
      BY <3>1
  <2>2. CASE k # n + 1
    <3>1. k \in 1..n
      BY <1>1, <2>2
    <3>2. wire'[k] = wire[k] /\ SentBefore(k)' = SentBefore(k)
      BY <1>2, <1>3, <3>1
    <3> QED
      BY <1>5, <3>1, <3>2
  <2> QED
    BY <2>1, <2>2
<1>7. position' = wire'[Len(wire')].cursor
  BY <1>2
<1>8. WireHolds(H)'
  BY <1>2, <1>6, <1>7 DEF WireHolds
<1> QED
  BY <1>2, <1>8 DEF n

LEMMA SendEventsKeeps ==
  ASSUME TypeOK, NEW H, NEW D, Holds(H, D), SendEvents
  PROVE  Inv'
<1> DEFINE batch == Batch(position, BatchSize)
           frame == [status |-> "open", cursor |-> batch[Len(batch)].cursor,
                     events |-> [i \in DOMAIN batch |-> batch[i].event]]
<1>1. /\ socket = "open" /\ Len(wire) < MaxWire
      /\ position >= LogicalFloor /\ batch # << >>
      /\ position' = frame.cursor /\ wire' = Append(wire, frame)
      /\ UNCHANGED journalVars
      /\ page' = page /\ board' = board /\ cursor' = cursor /\ request' = request
      /\ overtaken' = overtaken /\ socket' = socket
      /\ drops' = drops /\ failures' = failures /\ refreshes' = refreshes
  BY DEF SendEvents, pageVars, boundVars
<1>2. /\ JournalTypeOK' /\ latest' = latest /\ content' = content /\ latest \in Nat
      /\ JournalTypeOK /\ cursor \in 0..latest /\ position \in 0..latest
  BY <1>1, TypeParts, JournalAside
<1>3. JournalHolds(H, D) /\ WireHolds(H) /\ PagesHold(H, D) /\ RowsHold(H)
  BY DEF Holds, JournalHolds
<1>4. position \in retained..latest
  <2>1. LogicalFloor \in retained..latest /\ retained \in Int
    BY <1>2, <1>3, FloorBounds DEF JournalTypeOK
  <2> QED
    BY <1>1, <1>2, <2>1
<1>5. BatchSize \in Nat \ {0}
  BY StreamAssumption
<1>6. PICK n \in Nat :
        /\ position + n <= latest
        /\ DOMAIN batch = 1..n
        /\ batch \in Seq(rows)
        /\ \A i \in 1..n : batch[i] \in rows /\ batch[i].cursor = position + i
  <2> HIDE DEF batch
  <2> QED
    BY <1>2, <1>3, <1>4, <1>5, BatchIs DEF batch
<1> HIDE DEF batch
<1>7. Len(batch) = n /\ n > 0
  BY <1>1, <1>6
<1>8. /\ frame.status = "open" /\ frame.cursor = position + n
      /\ frame.events = [i \in 1..n |-> batch[i].event]
  <2>1. n \in 1..n
    BY <1>7
  <2> QED
    BY <1>6, <1>7, <2>1
<1>9. ASSUME NEW i \in 1..n
      PROVE  batch[i].event \in Events /\ batch[i].event = H[position + i]
  <2>1. batch[i] \in rows /\ batch[i].cursor = position + i
    BY <1>6
  <2> QED
    BY <1>3, <2>1 DEF RowsHold
<1>10. /\ frame.events \in Seq(Events) /\ Len(frame.events) = n
       /\ \A i \in 1..n : frame.events[i] = H[position + i]
  <2>1. frame.events \in [1..n -> Events]
    BY <1>8, <1>9
  <2>2. \A i \in 1..n : frame.events[i] = H[position + i]
    BY <1>8, <1>9
  <2> HIDE DEF frame
  <2> QED
    BY <2>1, <2>2
<1>11. frame.cursor \in 0..latest
  BY <1>2, <1>6, <1>8
<1>12. frame \in Frames
  <2>1. frame.cursor \in Nat
    BY <1>2, <1>11
  <2> QED
    BY <1>10, <2>1 DEF Frames
<1> HIDE DEF frame
<1>13. WireHolds(H)' /\ Len(wire') = Len(wire) + 1
  <2>1. frame.cursor = position + Len(frame.events)
    BY <1>8, <1>10
  <2>2. \A i \in 1..Len(frame.events) : frame.events[i] = H[position + i]
    BY <1>10
  <2> QED
    BY <1>1, <1>2, <1>3, <1>11, <1>12, <2>1, <2>2, FrameSent
<1>14. PagesHold(H, D)'
  BY <1>1, <1>2, <1>3 DEF PagesHold
<1>15. Len(wire') <= MaxWire
  <2>1. Len(wire) \in Nat /\ MaxWire \in Nat
    BY <1>3, StreamAssumption DEF WireHolds
  <2> QED
    BY <1>1, <1>13, <2>1
<1>16. TypeOK'
  BY <1>1, <1>2, <1>11, <1>15 DEF TypeOK
<1> QED
  BY <1>1, <1>13, <1>14, <1>16, JournalAside

LEMMA SendExpiredKeeps ==
  ASSUME TypeOK, NEW H, NEW D, Holds(H, D), SendExpired
  PROVE  Inv'
<1> DEFINE frame == [status |-> "refresh_required", cursor |-> position, events |-> << >>]
<1>1. /\ socket = "open" /\ Len(wire) < MaxWire
      /\ position' = position /\ wire' = Append(wire, frame)
      /\ UNCHANGED journalVars
      /\ page' = page /\ board' = board /\ cursor' = cursor /\ request' = request
      /\ overtaken' = overtaken /\ socket' = socket
      /\ drops' = drops /\ failures' = failures /\ refreshes' = refreshes
  BY DEF SendExpired, pageVars, boundVars
<1>2. /\ JournalTypeOK' /\ latest' = latest /\ content' = content /\ latest \in Nat
      /\ cursor \in 0..latest /\ position \in 0..latest
  BY <1>1, TypeParts, JournalAside
<1>3. WireHolds(H) /\ PagesHold(H, D)
  BY DEF Holds
<1>4. << >> \in Seq(Events) /\ Len(<< >>) = 0
  OBVIOUS
<1>5. /\ frame \in Frames /\ frame.cursor = position /\ frame.events = << >>
  BY <1>2, <1>4 DEF Frames
<1> HIDE DEF frame
<1>6. /\ frame.cursor = position + Len(frame.events)
      /\ \A i \in 1..Len(frame.events) : frame.events[i] = H[position + i]
  BY <1>2, <1>4, <1>5
<1>7. WireHolds(H)' /\ Len(wire') = Len(wire) + 1
  BY <1>1, <1>2, <1>3, <1>5, <1>6, FrameSent
<1>8. PagesHold(H, D)'
  BY <1>1, <1>2, <1>3 DEF PagesHold
<1>9. Len(wire') <= MaxWire
  <2>1. Len(wire) \in Nat /\ MaxWire \in Nat
    BY <1>3, StreamAssumption DEF WireHolds
  <2> QED
    BY <1>1, <1>7, <2>1
<1>10. TypeOK'
  BY <1>1, <1>2, <1>9 DEF TypeOK
<1> QED
  BY <1>1, <1>7, <1>8, <1>10, JournalAside

-----------------------------------------------------------------------------
(* The theorems. *)

LEMMA InvInit ==
  ASSUME Init
  PROVE  Inv
<1> DEFINE H == [c \in 1..0 |-> Blank]
           D == [c \in 0..0 |-> 0]
<1>1. /\ content = [r \in Resources |-> Initial] /\ heads = [r \in Resources |-> Initial]
      /\ decided = 0 /\ rows = {} /\ latest = 0 /\ retained = 0 /\ identities = {}
      /\ commits = 0
  BY DEF Init, JournalInit
<1>2. JournalTypeOK
  BY <1>1, JournalAssumption DEF JournalTypeOK
<1>3. 1..0 = {} /\ 0..0 = {0}
  OBVIOUS
<1>4. H \in [1..latest -> Events] /\ D \in [0..latest -> Nat] /\ D[0] = 0
  BY <1>1, <1>3
<1> HIDE DEF H, D
<1>5. RowsHold(H)
  BY <1>1 DEF RowsHold
<1>6. DecisionsCounted(H, D)
  BY <1>1, <1>3, <1>4 DEF DecisionsCounted
<1>7. LastIsContent(H)
  BY <1>1 DEF LastIsContent
<1>8. JournalHolds(H, D)
  BY <1>4, <1>5, <1>6, <1>7 DEF JournalHolds
<1>9. /\ page = "loading" /\ board = Blank /\ cursor = 0 /\ socket = "none"
      /\ position = 0 /\ wire = << >> /\ overtaken = FALSE
      /\ drops = 0 /\ failures = 0 /\ refreshes = 0
      /\ request = [l \in Loads |-> IF l = "stream" THEN [NoRequest EXCEPT !.stage = "asked"]
                                    ELSE NoRequest]
  BY DEF Init
<1>10. WireHolds(H)
  BY <1>9 DEF WireHolds
<1>11. /\ [NoRequest EXCEPT !.stage = "asked"] \in Requests(0)
       /\ [NoRequest EXCEPT !.stage = "asked"].stage = "asked"
       /\ NoRequest \in Requests(0) /\ NoRequest.stage = "idle" /\ Blank \in Boards
  <2>1. NoRequest \in Requests(0) /\ NoRequest.stage = "idle" /\ Blank \in Boards
    BY BlankType
  <2>2. "asked" \in Stages
    BY DEF Stages
  <2> QED
    BY <2>1, <2>2 DEF Requests
<1>12. request \in [Loads -> Requests(latest)] /\ \A l \in Loads : request[l].stage # "answered"
  <2> DEFINE q == [NoRequest EXCEPT !.stage = "asked"]
  <2>1. q \in Requests(0) /\ q.stage = "asked"
    BY <1>11
  <2>2. request = [l \in Loads |-> IF l = "stream" THEN q ELSE NoRequest]
    BY <1>9
  <2> HIDE DEF q
  <2> QED
    BY <1>1, <1>11, <2>1, <2>2
<1>13. PagesHold(H, D)
  BY <1>9, <1>12 DEF PagesHold
<1>14. TypeOK
  <2>1. cursor \in 0..latest /\ position \in 0..latest /\ board \in Boards
    BY <1>1, <1>9, <1>11
  <2>2. Len(wire) <= MaxWire
    <3>1. Len(<< >>) = 0 /\ MaxWire \in Nat
      BY StreamAssumption
    <3> QED
      BY <1>9, <3>1
  <2>3. drops \in 0..MaxDrops /\ failures \in 0..MaxFailures /\ refreshes \in 0..MaxRefreshes
    BY <1>9, StreamAssumption
  <2>4. page = "loading" /\ socket = "none" /\ overtaken = FALSE
    BY <1>9
  <2> QED
    BY <1>2, <1>12, <2>1, <2>2, <2>3, <2>4, TypeParts
<1> QED
  BY <1>8, <1>10, <1>13, <1>14 DEF Inv, Holds

LEMMA InvNext ==
  ASSUME Inv, [Next]_vars
  PROVE  Inv'
<1>1. TypeOK
  BY DEF Inv
<1>2. PICK H, D : Holds(H, D)
  BY DEF Inv
<1>3. CASE Commit
  BY <1>1, <1>2, <1>3, CommitKeeps
<1>4. ASSUME NEW l \in Loads, Answer(l) \/ LoadFails(l) PROVE Inv'
  BY <1>1, <1>2, <1>4, ReadCursorKeeps, ReadBoardKeeps, LoadedKeeps, LoadFailsKeeps
  DEF Answer
<1>5. CASE Refresh
  BY <1>1, <1>2, <1>5, RefreshKeeps
<1>6. CASE Drop
  BY <1>1, <1>2, <1>6, DropKeeps
<1>7. CASE Stream
  BY <1>1, <1>2, <1>7, SendEventsKeeps, SendExpiredKeeps, ReceiveEventsKeeps,
     ReceiveExpiredKeeps, ReconnectKeeps DEF Stream
<1>8. CASE UNCHANGED vars
  <2>1. /\ UNCHANGED journalVars /\ UNCHANGED streamVars
        /\ page' = page /\ board' = board /\ cursor' = cursor /\ request' = request
        /\ overtaken' = overtaken
        /\ drops' = drops /\ failures' = failures /\ refreshes' = refreshes
    BY <1>8 DEF vars, pageVars, boundVars
  <2>2. JournalTypeOK' /\ latest' = latest /\ content' = content
    BY <1>1, <1>2, <2>1, JournalAside
  <2>3. WireHolds(H)'
    BY <1>2, <2>1, <2>2, WireStays DEF Holds
  <2>4. PagesHold(H, D)'
    BY <1>2, <2>1, <2>2 DEF PagesHold, Holds
  <2>5. TypeOK'
    BY <1>1, <2>1, <2>2 DEF TypeOK, streamVars
  <2> QED
    BY <1>1, <1>2, <2>1, <2>3, <2>4, <2>5, JournalAside
<1> QED
  BY <1>3, <1>4, <1>5, <1>6, <1>7, <1>8 DEF Next

LEMMA InvAlways == Spec => []Inv
<1>1. Init => Inv
  BY InvInit
<1>2. Inv /\ [Next]_vars => Inv'
  BY InvNext
<1> QED
  BY <1>1, <1>2, PTL DEF Spec

\* Type correctness of the journal, the page and its connection.
THEOREM TypeCorrect == Spec => []TypeOK
<1>1. Inv => TypeOK
  BY DEF Inv
<1> QED
  BY <1>1, InvAlways, PTL

\* A reader that is not told to refresh misses no event, for any length of the history
\* and whatever was pruned by count or by age (BoardEventJournal.read).
THEOREM NothingSkipped == Spec => []ReadsAreGapless
<1>1. Inv => ReadsAreGapless
  BY GaplessFromRows DEF Inv, Holds, JournalHolds, TypeOK
<1> QED
  BY <1>1, InvAlways, PTL

\* A page that has caught up shows what was committed, over every race of its snapshot
\* with the stream, drops, pruned history and reloads (board_snapshot, stream_events,
\* reduceBoardEvent).
THEOREM PageCatchesAll == Spec => []NothingMissed
<1>1. Inv => NothingMissed
  <2> SUFFICES ASSUME Inv, CaughtUp, ~overtaken
               PROVE  board.content = content /\ board.count >= decided
    BY DEF NothingMissed
  <2>1. PICK H, D : Holds(H, D)
    BY DEF Inv
  <2>2. /\ board \in Boards /\ content \in [Resources -> Contents] /\ latest \in Nat
        /\ board.content \in [Resources -> Contents]
    BY TypeParts DEF Inv, JournalTypeOK, Boards
  <2>3. page = "ready" /\ cursor = latest
    BY DEF CaughtUp
  <2>4. Leads(board, latest, content, latest, H, D)
    BY <2>1, <2>3 DEF Holds, PagesHold
  <2>5. (latest + 1)..latest = {} /\ D[latest] = decided
    BY <2>1, <2>2 DEF Holds, JournalHolds, DecisionsCounted
  <2>6. \A r \in Resources : board.content[r] = content[r]
    BY <2>4, <2>5 DEF Leads
  <2>7. board.content = content
    BY <2>2, <2>6
  <2> QED
    BY <2>4, <2>5, <2>7 DEF Leads
<1> QED
  BY <1>1, InvAlways, PTL
=============================================================================
