-------------------------- MODULE ProfilesListProofs --------------------------
(***************************************************************************)
(* Theorems about ProfilesList, for any profiles, searches, page sizes and  *)
(* numbers of requests in flight.                                           *)
(***************************************************************************)
EXTENDS ProfilesList, FiniteSetTheorems, SequenceTheorems, TLAPS

USE ListAssumption

-----------------------------------------------------------------------------
\* The inductive invariant.  The loaders turn exactly while the latest request
\* is under way; what is on screen belongs to the query unless it is about to
\* be replaced, or an error says so.
Asked ==
    /\ latest \in Requests
    /\ \A r \in Requests : request[r].stage = "sent" => request[r].query \in Queries
    /\ write # NoWrite => write.query \in Queries
Loaders ==
    /\ listLoading \/ listLoadingMore <=> request[latest].stage = "sent"
    /\ listLoading => items = <<>>
Replacing == request[latest].stage = "sent" /\ ~request[latest].append
Rows ==
    ~outdated =>
        /\ request[latest].stage = "sent" => request[latest].query = query
        /\ ~listError /\ ~Replacing => \A i \in DOMAIN items : items[i].query = query
Inv == TypeOK /\ Asked /\ Loaders /\ Rows /\ SelectedIsListed

-----------------------------------------------------------------------------
\* The operators on pages.
Distinct(page) == \A i, j \in DOMAIN page : page[i] = page[j] => i = j
Row(page) == page \in Seq(Profiles) /\ Distinct(page)

\* A page lists no profile twice.
LEMMA PagesAreRows == \A page \in Pages : Row(page)
  <1> SUFFICES ASSUME NEW page \in Pages PROVE Row(page)
    OBVIOUS
  <1>1. PICK n \in 0..PageSize : page \in [1..n -> Profiles]
    BY DEF Pages
  <1>2. page \in Seq(Profiles)
    BY <1>1
  <1> QED
    BY <1>2 DEF Pages, Row, Distinct

\* The places of the new rows of a page run from 1 to their number, each of
\* one row only.
LEMMA Places ==
  ASSUME NEW page, Row(page)
  PROVE  /\ Cardinality(New(page)) \in Nat
         /\ \A k \in 1..Cardinality(New(page)) :
               \E i \in New(page) : Place(i, page) = k
  <1> DEFINE N == New(page)
             Below(i) == {j \in N : j <= i}
             place == [i \in N |-> Cardinality(Below(i))]
  <1>1. /\ N \subseteq 1..Len(page) /\ IsFiniteSet(N) /\ Cardinality(N) \in Nat
    <2>1. N \in SUBSET (1..Len(page)) /\ Len(page) \in Nat
      BY DEF New, Row
    <2> HIDE DEF N
    <2>2. IsFiniteSet(1..Len(page))
      BY <2>1, FS_Interval
    <2>3. IsFiniteSet(N)
      BY <2>1, <2>2, FS_Subset
    <2> QED
      BY <2>1, <2>3, FS_CardinalityType
  <1> HIDE DEF N
  <1>2. ASSUME NEW i \in N
        PROVE  /\ IsFiniteSet(Below(i)) /\ Cardinality(Below(i)) \in 1..Cardinality(N)
    <2>1. Below(i) \subseteq N /\ i \in Below(i)
      BY <1>1, <1>2
    <2>2. IsFiniteSet(Below(i)) /\ Cardinality(Below(i)) <= Cardinality(N)
      BY <2>1, <1>1, FS_Subset
    <2>3. Cardinality(Below(i)) \in Nat /\ Cardinality(Below(i)) # 0
      BY <2>1, <2>2, FS_CardinalityType, FS_EmptySet
    <2> QED
      BY <2>2, <2>3, <1>1
  <1>3. ASSUME NEW i \in N, NEW j \in N, i < j
        PROVE  Cardinality(Below(i)) # Cardinality(Below(j))
    <2>1. N \subseteq Nat
      BY <1>1 DEF Row
    <2>2. Below(i) \subseteq Below(j) /\ j \in Below(j) /\ j \notin Below(i)
      <3>1. i \in Nat /\ j \in Nat
        BY <2>1
      <3>2. \A l \in N : l <= i => l <= j
        BY <1>3, <2>1, <3>1
      <3>3. j <= j /\ ~(j <= i)
        BY <1>3, <3>1
      <3> QED
        BY <3>2, <3>3
    <2> QED
      <3>1. IsFiniteSet(Below(j)) /\ Below(i) \in SUBSET Below(j) /\ Below(i) # Below(j)
        BY <2>2, <1>2
      <3> HIDE DEF Below
      <3> QED
        BY <3>1, FS_Subset
  <1>4. place \in Injection(N, 1..Cardinality(N))
    <2>1. place \in [N -> 1..Cardinality(N)]
      BY <1>2
    <2>2. ASSUME NEW i \in N, NEW j \in N, place[i] = place[j] PROVE i = j
      <3>1. ~(i < j) /\ ~(j < i)
        BY <1>3, <2>2
      <3> QED
        BY <3>1, <1>1
    <2> QED
      BY <2>1, <2>2 DEF Injection, IsInjective
  <1>5. IsFiniteSet(1..Cardinality(N)) /\ Cardinality(1..Cardinality(N)) = Cardinality(N)
    BY <1>1, FS_Interval
  <1>6. place \in Surjection(N, 1..Cardinality(N))
    BY <1>4, <1>5, FS_Injection
  <1>7. \A k \in 1..Cardinality(N) : \E i \in N : place[i] = k
    BY <1>6 DEF Surjection
  <1> QED
    BY <1>1, <1>7 DEF Place, N

\* The new rows are those of the page that are not there, each once.
LEMMA NewRowsAreNew ==
  ASSUME NEW page, Row(page)
  PROVE  /\ Row(NewRows(page))
         /\ \A k \in DOMAIN NewRows(page) : NewRows(page)[k] \notin Ids(items)
  <1> DEFINE n == Cardinality(New(page))
             at(k) == CHOOSE i \in New(page) : Place(i, page) = k
  <1>1. n \in Nat /\ \A k \in 1..n : at(k) \in New(page) /\ Place(at(k), page) = k
    BY Places
  <1>2. \A i \in New(page) : i \in DOMAIN page /\ page[i] \in Profiles /\ page[i] \notin Ids(items)
    BY DEF New, Row
  <1>3. NewRows(page) = [k \in 1..n |-> page[at(k)]]
    BY DEF NewRows
  <1> HIDE DEF n, at
  <1>4. NewRows(page) \in Seq(Profiles) /\ DOMAIN NewRows(page) = 1..n
    BY <1>1, <1>2, <1>3
  <1>5. ASSUME NEW k \in 1..n, NEW l \in 1..n, NewRows(page)[k] = NewRows(page)[l] PROVE k = l
    <2>1. at(k) = at(l)
      BY <1>1, <1>2, <1>3, <1>5 DEF Row, Distinct
    <2> QED
      BY <1>1, <2>1
  <1> QED
    BY <1>1, <1>2, <1>3, <1>4, <1>5 DEF Row, Distinct

\* A page tagged with its query keeps its rows and their order.
LEMMA TaggedRows ==
  ASSUME NEW page, Row(page), NEW q \in Queries
  PROVE  /\ Tagged(page, q) \in Seq(Item) /\ DOMAIN Tagged(page, q) = DOMAIN page
         /\ \A i \in DOMAIN page : Tagged(page, q)[i] = [id |-> page[i], query |-> q]
         /\ \A i, j \in DOMAIN page :
               Tagged(page, q)[i].id = Tagged(page, q)[j].id => i = j
  <1>1. page \in Seq(Profiles) /\ \A i \in DOMAIN page : page[i] \in Profiles
    BY DEF Row
  <1>2. DOMAIN page = 1..Len(page) /\ Len(page) \in Nat
    BY <1>1
  <1>3. /\ DOMAIN Tagged(page, q) = DOMAIN page
        /\ \A i \in DOMAIN page : Tagged(page, q)[i] = [id |-> page[i], query |-> q]
    BY DEF Tagged
  <1>4. Tagged(page, q) \in [1..Len(page) -> Item]
    BY <1>1, <1>2, <1>3 DEF Item, Tagged
  <1> QED
    BY <1>2, <1>3, <1>4 DEF Row, Distinct

\* Appending a page repeats no row, and leaves those that are there in place.
LEMMA AppendedRows ==
  ASSUME TypeOK, NEW page, Row(page), NEW q \in Queries
  PROVE  /\ Appended(page, q) \in Seq(Item)
         /\ \A i, j \in DOMAIN Appended(page, q) :
               Appended(page, q)[i].id = Appended(page, q)[j].id => i = j
         /\ \A i \in DOMAIN Appended(page, q) :
               \/ Appended(page, q)[i].query = q
               \/ i \in DOMAIN items /\ Appended(page, q)[i] = items[i]
  <1> DEFINE new == Tagged(NewRows(page), q)
             all == items \o new
  <1>1. items \in Seq(Item) /\ \A i, j \in DOMAIN items : items[i].id = items[j].id => i = j
    BY DEF TypeOK
  <1>2. /\ new \in Seq(Item)
        /\ \A i, j \in DOMAIN new : new[i].id = new[j].id => i = j
        /\ \A i \in DOMAIN new : new[i].query = q /\ new[i].id \notin Ids(items)
    <2> DEFINE r == NewRows(page)
    <2>1. Row(r) /\ \A i \in DOMAIN r : r[i] \notin Ids(items)
      BY NewRowsAreNew
    <2> HIDE DEF r
    <2>2. /\ Tagged(r, q) \in Seq(Item) /\ DOMAIN Tagged(r, q) = DOMAIN r
          /\ \A i \in DOMAIN r : Tagged(r, q)[i] = [id |-> r[i], query |-> q]
          /\ \A i, j \in DOMAIN r : Tagged(r, q)[i].id = Tagged(r, q)[j].id => i = j
      BY <2>1, TaggedRows
    <2>3. \A i \in DOMAIN r : Tagged(r, q)[i].id = r[i] /\ Tagged(r, q)[i].query = q
      BY <2>2
    <2>4. new = Tagged(r, q)
      BY DEF r
    <2> QED
      BY <2>1, <2>2, <2>3, <2>4
  <1> HIDE DEF new
  <1>3. \A i \in DOMAIN items : items[i].id \in Ids(items)
    BY DEF Ids
  <1>4. /\ all \in Seq(Item) /\ Len(all) = Len(items) + Len(new)
        /\ Len(items) \in Nat /\ Len(new) \in Nat
        /\ \A i \in 1..Len(items) : i \in DOMAIN items /\ all[i] = items[i]
        /\ \A i \in Len(items)+1..Len(items)+Len(new) :
              i - Len(items) \in DOMAIN new /\ all[i] = new[i - Len(items)]
    BY <1>1, <1>2
  <1> HIDE DEF all
  <1>5. ASSUME NEW i \in DOMAIN all
        PROVE  i \in 1..Len(items) \/ i \in Len(items)+1..Len(items)+Len(new)
    BY <1>4
  <1>6. ASSUME NEW i \in DOMAIN all, NEW j \in DOMAIN all, all[i].id = all[j].id
        PROVE  i = j
    <2>1. CASE i \in 1..Len(items) /\ j \in 1..Len(items)
      BY <1>1, <1>4, <1>6, <2>1
    <2>2. CASE i \in 1..Len(items) /\ j \in Len(items)+1..Len(items)+Len(new)
      BY <1>2, <1>3, <1>4, <1>6, <2>2
    <2>3. CASE i \in Len(items)+1..Len(items)+Len(new) /\ j \in 1..Len(items)
      BY <1>2, <1>3, <1>4, <1>6, <2>3
    <2>4. CASE i \in Len(items)+1..Len(items)+Len(new) /\ j \in Len(items)+1..Len(items)+Len(new)
      <3>1. i - Len(items) = j - Len(items)
        BY <1>2, <1>4, <1>6, <2>4
      <3> QED
        BY <3>1, <2>4, <1>4
    <2> QED
      BY <1>5, <2>1, <2>2, <2>3, <2>4
  <1>7. \A i \in DOMAIN all : all[i].query = q \/ (i \in DOMAIN items /\ all[i] = items[i])
    BY <1>2, <1>4, <1>5
  <1>8. Appended(page, q) = all
    BY DEF Appended, all, new
  <1> QED
    BY <1>4, <1>6, <1>7, <1>8

\* The selection after a load is a row of the list.
LEMMA SelectionIsListed ==
  ASSUME TypeOK, NEW next \in Seq(Item)
  PROVE  SelectionAfter(next) \in Ids(next) \cup {NoProfile}
  <1>1. next # <<>> => 1 \in DOMAIN next
    BY EmptySeq
  <1> QED
    BY <1>1 DEF SelectionAfter, Ids

\* Rows name profiles.
LEMMA IdsAreProfiles == \A next \in Seq(Item) : Ids(next) \subseteq Profiles
  <1> SUFFICES ASSUME NEW next \in Seq(Item), NEW i \in DOMAIN next
               PROVE  next[i].id \in Profiles
    BY DEF Ids
  <1>1. next[i] \in Item
    BY ElementOfSeq
  <1> QED
    BY <1>1 DEF Item

-----------------------------------------------------------------------------
\* The invariant holds when the widget is mounted.
LEMMA InitInv == Init => Inv
  <1> SUFFICES ASSUME Init PROVE Inv
    OBVIOUS
  <1>1. TypeOK
    <2>1. items \in Seq(Item) /\ \A i, j \in DOMAIN items : items[i].id = items[j].id => i = j
      BY DEF Init
    <2>2. request \in [Requests -> [stage : {"free", "sent"}, query : Queries \cup {NoQuery},
                                     append : BOOLEAN]]
      BY DEF Init, Free
    <2>3. write \in [kind : {"none", "create", "update", "delete"}, query : Queries \cup {NoQuery}]
      BY DEF Init, NoWrite
    <2> QED
      BY <2>1, <2>2, <2>3 DEF Init, TypeOK
  <1>2. Asked /\ Loaders /\ Rows /\ SelectedIsListed
    BY DEF Init, Asked, Loaders, Rows, SelectedIsListed, Free
  <1> QED
    BY <1>1, <1>2 DEF Inv

\* A new request, of the query that is on screen after the step.
LEMMA LoadListKeeps ==
  ASSUME Inv, NEW q \in Queries, NEW append \in BOOLEAN, LoadList(q, append),
         append => ~listLoading /\ ~listLoadingMore /\ q = query /\ query' = query,
         append => outdated' = outdated, ~append => outdated' = (q # query')
  PROVE  /\ request' \in [Requests -> [stage : {"free", "sent"}, query : Queries \cup {NoQuery},
                                       append : BOOLEAN]]
         /\ latest' \in Requests
         /\ listLoading' \in BOOLEAN /\ listLoadingMore' \in BOOLEAN /\ listError' \in BOOLEAN
         /\ \A r \in Requests : request'[r].stage = "sent" => request'[r].query \in Queries
         /\ Loaders'
         /\ ~outdated' =>
               /\ request'[latest'].stage = "sent" => request'[latest'].query = query'
               /\ ~listError' /\ ~Replacing' => \A i \in DOMAIN items' : items'[i].query = query'
  <1>1. PICK r \in Requests :
           /\ request' = [request EXCEPT ![r] = [stage |-> "sent", query |-> q, append |-> append]]
           /\ latest' = r
    BY DEF LoadList
  <1>t. TypeOK /\ Asked /\ Loaders /\ Rows /\ UNCHANGED items
    BY DEF Inv, LoadList
  <1>2. /\ request'[latest'] = [stage |-> "sent", query |-> q, append |-> append]
        /\ \A s \in Requests \ {r} : request'[s] = request[s]
        /\ request' \in [Requests -> [stage : {"free", "sent"}, query : Queries \cup {NoQuery},
                                      append : BOOLEAN]]
    BY <1>1, <1>t DEF TypeOK
  <1>3. /\ listLoading' \in BOOLEAN /\ listLoadingMore' \in BOOLEAN /\ listError' \in BOOLEAN
    BY <1>t DEF LoadList, TypeOK
  <1>4. \A s \in Requests : request'[s].stage = "sent" => request'[s].query \in Queries
    BY <1>1, <1>2, <1>t DEF Asked
  <1>5. Loaders'
    <2>1. listLoading' \/ listLoadingMore'
      BY DEF LoadList
    <2>2. listLoading' => items' = <<>>
      BY <1>t DEF LoadList, Loaders
    <2> QED
      BY <1>2, <2>1, <2>2 DEF Loaders
  <1>6. ASSUME ~outdated', ~listError', ~Replacing', NEW i \in DOMAIN items'
        PROVE  items'[i].query = query'
    <2>1. append
      BY <1>2, <1>6 DEF Replacing
    <2>2. ~listError /\ request[latest].stage # "sent"
      BY <2>1, <1>6, <1>t DEF LoadList, Loaders
    <2>3. ~Replacing
      BY <2>2 DEF Replacing
    <2> QED
      BY <2>1, <2>2, <2>3, <1>6, <1>t DEF Rows
  <1>7. ~outdated' => q = query'
    OBVIOUS
  <1> QED
    BY <1>1, <1>2, <1>3, <1>4, <1>5, <1>6, <1>7

-----------------------------------------------------------------------------
\* The types of what a load of the list changes, and of the rest.
ItemsTyped == items \in Seq(Item) /\ \A i, j \in DOMAIN items : items[i].id = items[j].id => i = j
LoadTyped ==
    /\ nextCursor \in BOOLEAN
    /\ request \in [Requests -> [stage : {"free", "sent"}, query : Queries \cup {NoQuery},
                                 append : BOOLEAN]]
    /\ latest \in Requests \cup {NoRequest}
    /\ listLoading \in BOOLEAN /\ listLoadingMore \in BOOLEAN /\ listError \in BOOLEAN
    /\ outdated \in BOOLEAN
WriteTyped ==
    write \in [kind : {"none", "create", "update", "delete"}, query : Queries \cup {NoQuery}]
ChoiceTyped ==
    /\ query \in Queries
    /\ selected \in Profiles \cup {NoProfile} /\ preferred \in Profiles \cup {NoProfile}
    /\ view \in {"list", "grid"}
    /\ session \in BOOLEAN /\ pending \in BOOLEAN
    /\ creating \in {"no", "asked", "open"}
    /\ narrow \in BOOLEAN /\ autoSelectFirst \in BOOLEAN

\* TypeOK is the conjunction of its four parts.
LEMMA TypeParts ==
  /\ TypeOK <=> ItemsTyped /\ LoadTyped /\ WriteTyped /\ ChoiceTyped
  /\ TypeOK' <=> ItemsTyped' /\ LoadTyped' /\ WriteTyped' /\ ChoiceTyped'
  BY DEF TypeOK, ItemsTyped, LoadTyped, WriteTyped, ChoiceTyped

\* A step of the user that loads nothing.
LEMMA QuietKeeps ==
  ASSUME Inv, UNCHANGED <<loadVars, query, write>>, ChoiceTyped',
         selected' \in Ids(items) \cup {NoProfile}
  PROVE  Inv'
  <1> USE DEF loadVars
  <1>1. TypeOK'
    BY TypeParts DEF Inv, ItemsTyped, LoadTyped, WriteTyped
  <1>2. Asked' /\ Loaders' /\ Rows'
    BY DEF Inv, Asked, Loaders, Rows, Replacing
  <1>3. SelectedIsListed'
    BY DEF SelectedIsListed, Ids
  <1> QED
    BY <1>1, <1>2, <1>3 DEF Inv

\* A step that asks for the list again.
LEMMA LoadingKeeps ==
  ASSUME Inv, NEW q \in Queries, NEW append \in BOOLEAN, LoadList(q, append),
         append => ~listLoading /\ ~listLoadingMore /\ q = query /\ query' = query,
         append => outdated' = outdated, ~append => outdated' = (q # query'),
         ChoiceTyped', selected' \in {selected, NoProfile},
         WriteTyped', write' \in {write, NoWrite}
  PROVE  Inv'
  <1>i. TypeOK /\ Asked /\ Rows /\ SelectedIsListed /\ UNCHANGED <<items, nextCursor>>
    BY DEF Inv, LoadList
  <1>1. TypeOK'
    <2>1. outdated' \in BOOLEAN
      BY <1>i DEF TypeOK
    <2> QED
      BY <1>i, <2>1, LoadListKeeps, TypeParts DEF ItemsTyped, LoadTyped
  <1>2. Asked' /\ Loaders'
    BY <1>i, LoadListKeeps DEF Asked
  <1>3. Rows'
    <2>1. ~outdated' =>
             /\ request'[latest'].stage = "sent" => request'[latest'].query = query'
             /\ ~listError' /\ ~Replacing' => \A i \in DOMAIN items' : items'[i].query = query'
      BY LoadListKeeps
    <2> QED
      BY <2>1 DEF Rows
  <1>4. SelectedIsListed'
    BY <1>i DEF SelectedIsListed, Ids
  <1> QED
    BY <1>1, <1>2, <1>3, <1>4 DEF Inv

\* The dialog for a new profile is in one of its three states.
LEMMA CreatingTyped ==
  ASSUME NEW form \in {"no", "asked", "open"}, Creating(form)
  PROVE  creating' \in {"no", "asked", "open"}
  BY DEF Creating

\* The end of a request frees its name.
LEMMA RequestEnds ==
  ASSUME TypeOK, NEW r \in Requests, request' = [request EXCEPT ![r] = Free]
  PROVE  /\ request' \in [Requests -> [stage : {"free", "sent"}, query : Queries \cup {NoQuery},
                                       append : BOOLEAN]]
         /\ request'[r] = Free /\ request'[r].stage = "free"
         /\ \A s \in Requests \ {r} : request'[s] = request[s]
  BY DEF TypeOK, Free

\* An answer that counts replaces the rows or joins rows of its own query; any
\* other changes nothing on screen.
LEMMA ListedKeeps ==
  ASSUME Inv, NEW r \in Requests, NEW page \in Pages, NEW more \in BOOLEAN, Listed(r, page, more)
  PROVE  Inv'
  <1>i. TypeOK /\ Asked /\ Loaders /\ Rows /\ SelectedIsListed /\ Row(page)
    BY PagesAreRows DEF Inv
  <1>1. /\ request' \in [Requests -> [stage : {"free", "sent"}, query : Queries \cup {NoQuery},
                                      append : BOOLEAN]]
        /\ request'[r].stage = "free"
        /\ \A s \in Requests \ {r} : request'[s] = request[s]
    BY <1>i, RequestEnds DEF Listed
  <1>2. /\ request[r].stage = "sent" /\ request[r].query \in Queries
        /\ listLoading' = (listLoading /\ r # latest)
        /\ listLoadingMore' = (listLoadingMore /\ r # latest)
        /\ UNCHANGED <<query, latest, listError, view, session, pending, write, hostVars>>
        /\ outdated' = outdated
    BY <1>i DEF Listed, MoreAfter, Asked
  <1>3. /\ ItemsTyped' /\ nextCursor' \in BOOLEAN
        /\ selected' \in Ids(items') \cup {NoProfile}
        /\ selected' \in Profiles \cup {NoProfile} /\ preferred' \in Profiles \cup {NoProfile}
    <2>1. CASE r = latest
      <3>1. items' = IF request[r].append THEN Appended(page, request[r].query)
                     ELSE Tagged(page, request[r].query)
        BY <2>1 DEF Listed, Counts
      <3>2. ItemsTyped'
        BY <1>i, <1>2, <3>1, AppendedRows, TaggedRows DEF ItemsTyped
      <3>3. selected' \in Ids(items') \cup {NoProfile}
        BY <2>1, <3>2, <1>i, SelectionIsListed DEF Listed, Counts, ItemsTyped
      <3>4. selected' \in Profiles \cup {NoProfile}
        BY <3>2, <3>3, IdsAreProfiles DEF ItemsTyped
      <3>5. nextCursor' \in BOOLEAN /\ preferred' \in Profiles \cup {NoProfile}
        BY <2>1, <1>i DEF Listed, Counts, TypeOK
      <3> QED
        BY <3>2, <3>3, <3>4, <3>5
    <2>2. CASE r # latest
      BY <2>2, <1>i DEF Listed, Counts, TypeOK, ItemsTyped, SelectedIsListed, Ids
    <2> QED
      BY <2>1, <2>2
  <1>4. TypeOK'
    <2>1. LoadTyped' /\ WriteTyped'
      BY <1>1, <1>2, <1>3, <1>i DEF LoadTyped, WriteTyped, TypeOK
    <2>2. creating' \in {"no", "asked", "open"}
      BY <1>i, CreatingTyped DEF Listed, TypeOK
    <2>3. ChoiceTyped'
      BY <1>2, <1>3, <1>i, <2>2 DEF ChoiceTyped, TypeOK, hostVars
    <2> QED
      BY <1>3, <2>1, <2>3, TypeParts
  <1>5. Asked'
    BY <1>1, <1>2, <1>i DEF Asked
  <1>6. Loaders'
    <2>1. CASE r = latest
      BY <1>1, <1>2, <2>1 DEF Loaders
    <2>2. CASE r # latest
      <3>1. UNCHANGED items
        BY <2>2 DEF Listed, Counts
      <3>2. request'[latest'] = request[latest]
        BY <1>1, <1>2, <2>2, <1>i DEF Asked
      <3> QED
        BY <1>2, <2>2, <3>1, <3>2, <1>i DEF Loaders
    <2> QED
      BY <2>1, <2>2
  <1>7. Rows'
    <2> SUFFICES ASSUME ~outdated PROVE Rows'
      BY <1>2 DEF Rows
    <2>1. CASE r = latest
      <3>1. request[r].query = query
        BY <1>2, <2>1, <1>i DEF Rows
      <3>2. CASE request[r].append
        <4>1. ~Replacing /\ items' = Appended(page, query)
          BY <2>1, <3>1, <3>2 DEF Replacing, Listed, Counts
        <4>2. ~listError => \A i \in DOMAIN items' : items'[i].query = query
          BY <4>1, <3>1, <1>2, <1>i, AppendedRows DEF Rows
        <4> QED
          BY <1>1, <1>2, <2>1, <4>2, <1>i DEF Rows
      <3>3. CASE ~request[r].append
        <4>1. items' = Tagged(page, query)
          BY <2>1, <3>1, <3>3 DEF Listed, Counts
        <4>2. \A i \in DOMAIN items' : items'[i].query = query
          <5>1. query \in Queries
            BY <1>i DEF TypeOK
          <5>2. /\ DOMAIN Tagged(page, query) = DOMAIN page
                /\ \A i \in DOMAIN page :
                      Tagged(page, query)[i] = [id |-> page[i], query |-> query]
            BY <5>1, <1>i, TaggedRows
          <5> HIDE <1>i
          <5> QED
            BY <4>1, <5>2, <1>2
        <4> QED
          BY <1>1, <1>2, <2>1, <4>2, <1>i DEF Rows
      <3> QED
        BY <3>2, <3>3
    <2>2. CASE r # latest
      <3>1. UNCHANGED items
        BY <2>2 DEF Listed, Counts
      <3>2. request'[latest'] = request[latest]
        BY <1>1, <1>2, <2>2, <1>i DEF Asked
      <3> QED
        BY <1>2, <3>1, <3>2, <1>i DEF Rows, Replacing
    <2> QED
      BY <2>1, <2>2
  <1>8. SelectedIsListed'
    <2>1. Ids(items)' = Ids(items')
      BY DEF Ids
    <2> QED
      BY <1>3, <2>1 DEF SelectedIsListed
  <1> QED
    BY <1>4, <1>5, <1>6, <1>7, <1>8 DEF Inv

\* A page that fails leaves the rows and takes its loader away.
LEMMA ListFailsKeeps ==
  ASSUME Inv, NEW r \in Requests, ListFails(r)
  PROVE  Inv'
  <1>i. TypeOK /\ Asked /\ Loaders /\ Rows /\ SelectedIsListed
    BY DEF Inv
  <1>1. /\ request' \in [Requests -> [stage : {"free", "sent"}, query : Queries \cup {NoQuery},
                                      append : BOOLEAN]]
        /\ request'[r].stage = "free"
        /\ \A s \in Requests \ {r} : request'[s] = request[s]
    BY <1>i, RequestEnds DEF ListFails
  <1>2. /\ listError' = (listError \/ r = latest)
        /\ listLoading' = (listLoading /\ r # latest)
        /\ listLoadingMore' = (listLoadingMore /\ r # latest)
        /\ UNCHANGED <<query, items, nextCursor, selected, preferred, latest, view, session,
                       pending, write, hostVars>>
        /\ outdated' = outdated
    BY DEF ListFails, MoreAfter, Counts
  <1>3. TypeOK'
    <2>1. LoadTyped' /\ WriteTyped' /\ ItemsTyped'
      BY <1>1, <1>2, <1>i DEF LoadTyped, WriteTyped, ItemsTyped, TypeOK
    <2>2. creating' \in {"no", "asked", "open"}
      BY <1>i, CreatingTyped DEF ListFails, TypeOK
    <2>3. ChoiceTyped'
      BY <1>2, <1>i, <2>2 DEF ChoiceTyped, TypeOK, hostVars
    <2> QED
      BY <2>1, <2>3, TypeParts
  <1>4. Asked' /\ SelectedIsListed'
    BY <1>1, <1>2, <1>i DEF Asked, SelectedIsListed, Ids
  <1>5. r # latest => request'[latest'] = request[latest]
    BY <1>1, <1>2, <1>i DEF Asked
  <1>6. r = latest => request'[latest'].stage = "free"
    BY <1>1, <1>2
  <1>7. Loaders' /\ Rows'
    BY <1>2, <1>5, <1>6, <1>i DEF Loaders, Rows, Replacing
  <1> QED
    BY <1>3, <1>4, <1>7 DEF Inv

-----------------------------------------------------------------------------
\* Every step keeps the invariant: one lemma per action.
LEMMA InvStep == Inv /\ [Next]_vars => Inv'
  <1> SUFFICES ASSUME Inv, [Next]_vars PROVE Inv'
    OBVIOUS
  <1>t. TypeOK /\ Asked /\ Rows /\ SelectedIsListed /\ ChoiceTyped /\ WriteTyped /\ ItemsTyped
    BY TypeParts DEF Inv
  <1>s. selected \in Ids(items) \cup {NoProfile} /\ Ids(items) \subseteq Profiles
    BY <1>t, IdsAreProfiles DEF SelectedIsListed, ItemsTyped
  <1>c. Closed \in {"no", "asked", "open"} /\ creating \in {"no", "asked", "open"}
    BY <1>t DEF Closed, ChoiceTyped
  <1>1. ASSUME NEW q \in Queries, ChangeQuery(q) PROVE Inv'
    <2>1. ChoiceTyped'
      BY <1>1, <1>t, <1>c, CreatingTyped DEF ChangeQuery, ChoiceTyped, hostVars
    <2>2. /\ WriteTyped' /\ UNCHANGED <<selected, write>> /\ query' = q /\ LoadList(q, FALSE)
          /\ outdated' = (q # query')
      BY <1>1, <1>t DEF ChangeQuery, WriteTyped
    <2> QED
      BY <2>1, <2>2, LoadingKeeps
  <1>2. CASE Rerun
    <2>1. ChoiceTyped'
      BY <1>2, <1>t, <1>c, CreatingTyped DEF Rerun, ChoiceTyped, hostVars
    <2>2. /\ WriteTyped' /\ UNCHANGED <<selected, write, query>> /\ LoadList(query, FALSE)
          /\ query \in Queries /\ outdated' = (query # query')
      BY <1>2, <1>t DEF Rerun, WriteTyped, ChoiceTyped
    <2> QED
      BY <2>1, <2>2, LoadingKeeps
  <1>3. CASE onReachListEnd
    <2>1. ChoiceTyped'
      BY <1>3, <1>t DEF onReachListEnd, ChoiceTyped, hostVars, viewVars
    <2>2. /\ WriteTyped' /\ UNCHANGED <<selected, write, query>> /\ LoadList(query, TRUE)
          /\ query \in Queries /\ ~listLoading /\ ~listLoadingMore /\ outdated' = outdated
      BY <1>3, <1>t DEF onReachListEnd, WriteTyped, ChoiceTyped
    <2> QED
      BY <2>1, <2>2, LoadingKeeps
  <1>4. ASSUME NEW p \in Profiles, Written(p) PROVE Inv'
    <2>1. ChoiceTyped'
      <3>1. creating' \in {"no", "asked", "open"}
        BY <1>4, <1>c, CreatingTyped DEF Written
      <3>2. preferred' \in Profiles \cup {NoProfile} /\ selected' \in Profiles \cup {NoProfile}
        BY <1>4, <1>t DEF Written, ChoiceTyped
      <3>3. session' \in BOOLEAN
        BY <1>4, <1>t DEF Written, ChoiceTyped
      <3> QED
        BY <1>4, <1>t, <3>1, <3>2, <3>3 DEF Written, ChoiceTyped, hostVars
    <2>2. /\ WriteTyped' /\ write' = NoWrite /\ query' = query /\ LoadList(write.query, FALSE)
          /\ selected' \in {selected, NoProfile} /\ outdated' = (write.query # query')
      BY <1>4 DEF Written, WriteTyped, NoWrite
    <2>3. write.query \in Queries
      BY <1>4, <1>t DEF Written, Asked
    <2> QED
      BY <2>1, <2>2, <2>3, LoadingKeeps
  <1>5. ASSUME NEW r \in Requests, NEW page \in Pages, NEW more \in BOOLEAN, Listed(r, page, more)
        PROVE  Inv'
    BY <1>5, ListedKeeps
  <1>6. ASSUME NEW r \in Requests, ListFails(r) PROVE Inv'
    BY <1>6, ListFailsKeeps
  <1>7. ASSUME NEW p \in Profiles, handleSelectProfileFromList(p) PROVE Inv'
    <2>1. UNCHANGED <<loadVars, query, write>> /\ selected' \in Ids(items) /\ ChoiceTyped'
      BY <1>7, <1>t, <1>c, CreatingTyped DEF handleSelectProfileFromList, ChoiceTyped, hostVars
    <2> QED
      BY <2>1, QuietKeeps
  <1>8. ASSUME NEW v \in {"list", "grid"}, handleCardListViewChange(v) PROVE Inv'
    <2>1. creating' \in {"no", "asked", "open"}
      BY <1>8, <1>c, CreatingTyped DEF handleCardListViewChange
    <2>2. /\ UNCHANGED <<loadVars, query, write>> /\ selected' \in Ids(items) \cup {NoProfile}
          /\ ChoiceTyped'
      BY <1>8, <1>t, <1>s, <2>1 DEF handleCardListViewChange, ChoiceTyped, hostVars
    <2> QED
      BY <2>2, QuietKeeps
  <1>9. CASE handleGridProfileModalClose
    <2>1. /\ UNCHANGED <<loadVars, query, write>> /\ selected' \in Ids(items) \cup {NoProfile}
          /\ ChoiceTyped'
      BY <1>9, <1>t, <1>c, CreatingTyped DEF handleGridProfileModalClose, ChoiceTyped, hostVars
    <2> QED
      BY <2>1, QuietKeeps
  <1>10. CASE onAddItem \/ OpenInOverlay \/ FormOpens \/ CancelCreate
    <2>1. creating' \in {"no", "asked", "open"}
      BY <1>10, <1>c, CreatingTyped DEF onAddItem, OpenInOverlay, FormOpens, CancelCreate
    <2>2. /\ UNCHANGED <<loadVars, query, write, selected, preferred, view, hostVars>>
          /\ session' \in BOOLEAN /\ pending' \in BOOLEAN
      BY <1>10, <1>t DEF onAddItem, OpenInOverlay, FormOpens, CancelCreate, ChoiceTyped
    <2>3. ChoiceTyped'
      BY <1>t, <2>1, <2>2 DEF ChoiceTyped, hostVars
    <2> QED
      BY <1>s, <2>2, <2>3, QuietKeeps
  <1>11. ASSUME NEW kind \in {"create", "update", "delete"}, Write(kind) PROVE Inv'
    <2>1. /\ UNCHANGED <<query, loadVars, selected, preferred, viewVars, hostVars>>
          /\ write' = [kind |-> kind, query |-> query]
      BY <1>11 DEF Write
    <2>2. TypeOK'
      BY <1>t, <2>1 DEF TypeOK, loadVars, viewVars, hostVars
    <2>3. Asked' /\ Loaders' /\ Rows' /\ SelectedIsListed'
      BY <1>t, <2>1 DEF Inv, Asked, Loaders, Rows, Replacing, SelectedIsListed, Ids, loadVars, TypeOK
    <2> QED
      BY <2>2, <2>3 DEF Inv
  <1>12. CASE WriteRefused
    <2>1. /\ UNCHANGED <<query, loadVars, selected, preferred, viewVars, hostVars>>
          /\ write' = NoWrite
      BY <1>12 DEF WriteRefused
    <2>2. WriteTyped'
      BY <2>1 DEF WriteTyped, NoWrite
    <2>3. TypeOK'
      BY <1>t, <2>1, <2>2 DEF TypeOK, WriteTyped, loadVars, viewVars, hostVars
    <2>4. Asked' /\ Loaders' /\ Rows' /\ SelectedIsListed'
      BY <1>t, <2>1 DEF Inv, Asked, Loaders, Rows, Replacing, SelectedIsListed, Ids, loadVars
    <2> QED
      BY <2>3, <2>4 DEF Inv
  <1>13. CASE UNCHANGED vars
    <2>1. UNCHANGED <<loadVars, query, write>> /\ ChoiceTyped' /\ selected' \in Ids(items) \cup {NoProfile}
      BY <1>13, <1>t, <1>s DEF vars, ChoiceTyped, viewVars, hostVars
    <2> QED
      BY <2>1, QuietKeeps
  <1> QED
    BY <1>1, <1>2, <1>3, <1>4, <1>5, <1>6, <1>7, <1>8, <1>9, <1>10, <1>11, <1>12, <1>13 DEF Next

\* The inductive invariant holds in every reachable state.
THEOREM ListInvariant == Spec => []Inv
  BY InitInv, InvStep, PTL DEF Spec

\* The state keeps its types, and however the pages of a list overlap, since
\* profiles come and go between two requests, no profile is listed twice.
THEOREM ListTypes == Spec => []TypeOK
  <1>1. Inv => TypeOK
    BY DEF Inv
  <1> QED
    BY <1>1, ListInvariant, PTL

\* listRequestIdRef is enough for the loads of the list: whatever requests
\* overtake each other, once nothing loads and no error is shown the rows are of
\* the query on screen, unless a write's callbacks, with the query of the render
\* the write was made in, were the last to reload it.
THEOREM RowsAreOfTheQuery == Spec => []OneQueryUnlessOutdated
  <1>1. Inv => OneQueryUnlessOutdated
    BY DEF Inv, Loaders, Rows, Replacing, OneQuery, OneQueryUnlessOutdated
  <1> QED
    BY <1>1, ListInvariant, PTL

\* The card always has an item to show: the selection is a row of the list
\* after every reload, page, deletion and change of view.
THEOREM SelectionIsARow == Spec => []SelectedIsListed
  <1>1. Inv => SelectedIsListed
    BY DEF Inv
  <1> QED
    BY <1>1, ListInvariant, PTL

\* No loader is left behind: each turns only while the latest request is under
\* way, and the one that replaces the widget never hides rows.
THEOREM LoadersAreAwaited == Spec => []LoaderIsAwaited
  <1>1. Inv => LoaderIsAwaited
    BY DEF Inv, Asked, Loaders, LoaderIsAwaited
  <1> QED
    BY <1>1, ListInvariant, PTL
=============================================================================
