------------------------- MODULE ProfileDetailProofs -------------------------
(***************************************************************************)
(* Theorems about ProfileDetail, for any profiles, any numbers of versions  *)
(* and of loads and writes in flight.                                       *)
(***************************************************************************)
EXTENDS ProfileDetail, TLAPS

USE CardAssumption

-----------------------------------------------------------------------------
\* The inductive invariant.
Card == [document : Document, head : Version, viewed : Version,
         versions : Maps, editing : BOOLEAN, draft : Document]
Loading == [entity : Entities \cup {NoEntity}, stage : {"free", "profile", "versions"},
            aborted : BOOLEAN, answer : Answer, result : Document]
Writing == [kind : {"none", "update", "history", "delete", "create"},
            entity : Entities \cup {NoEntity}, stage : {"free", "sent", "versions", "list"},
            document : Document, load : Loads \cup {NoLoad},
            answer : Answer, result : Document]
InFlight == load \in [Loads -> Loading] /\ write \in [Writes -> Writing]

\* An answer is of the profile that was asked for, or saved.
LoadAnswers ==
    \A r \in Loads :
        /\ load[r].stage # "free" => load[r].entity \in Entities
        /\ load[r].answer = "ok" =>
              load[r].result.of = load[r].entity /\ load[r].result.version > 0
        /\ load[r].stage = "versions" => load[r].answer = "ok"
Update(w) == write[w].kind \in {"update", "history"}
WriteAnswers ==
    \A w \in Writes :
        /\ write[w].stage = "sent" /\ write[w].kind # "create" => write[w].entity \in Entities
        /\ Update(w) => write[w].entity \in Entities
        /\ Update(w) /\ write[w].answer = "ok" =>
              write[w].result.of = write[w].entity /\ write[w].result.version > 0
        /\ write[w].stage = "versions" => Update(w) /\ write[w].answer = "ok"

\* The load whose answer counts is one of the selected profile.
LatestIsSelected ==
    selected # NoEntity =>
        /\ latest \in Loads /\ ~load[latest].aborted
        /\ load[latest].stage # "free" => load[latest].entity = selected
VersionsNumbered ==
    /\ card.document.version = card.viewed
    /\ \A v \in DOMAIN card.versions : card.versions[v].version = v

\* Unless a save's answer for another profile was applied since the last load:
\* the versions asked for in the name of the latest load, those in the card, and
\* once it is loaded the document and the draft are of the selected profile.
VersionsOfSelected ==
    selected # NoEntity =>
        /\ \A w \in Writes : write[w].stage = "versions" /\ write[w].load = latest =>
              write[w].result.of = selected
        /\ \A v \in DOMAIN card.versions : card.versions[v].of = selected
Arrived ==
    /\ selected # NoEntity /\ ~failed
    /\ ~detailsLoading \/ load[latest].stage = "versions"
CardOfSelected ==
    Arrived => /\ card.document = [of |-> selected, version |-> card.viewed]
               /\ card.draft.of = selected

Types ==
    /\ store \in [Entities -> Version] /\ selected \in Entities \cup {NoEntity}
    /\ card \in Card /\ latest \in Loads \cup {NoLoad}
    /\ detailsLoading \in BOOLEAN /\ versionsLoading \in BOOLEAN /\ failed \in BOOLEAN
    /\ busy \in Entities \cup {NoEntity, "create"}
    /\ strayed \in BOOLEAN

Base == Types /\ InFlight /\ LoadAnswers /\ WriteAnswers
Steady == LatestIsSelected /\ VersionsNumbered /\ BlockedIsAwaited
Shown == ~strayed => VersionsOfSelected /\ CardOfSelected
Inv == Base /\ Steady /\ Shown

-----------------------------------------------------------------------------
\* Maps of versions.
LEMMA MapFacts ==
  /\ NoVersions \in Maps /\ DOMAIN NoVersions = {}
  /\ \A m \in Maps : \A v \in DOMAIN m : m[v] \in Document
  <1>1. /\ NoVersions \in [1..0 -> Document] /\ 0 \in Version
        /\ DOMAIN NoVersions = {}
    BY DEF NoVersions, Version
  <1>2. NoVersions \in Maps
    BY <1>1 DEF Maps
  <1>3. ASSUME NEW m \in Maps, NEW v \in DOMAIN m PROVE m[v] \in Document
    <2>1. PICK n \in Version : m \in [1..n -> Document]
      BY DEF Maps
    <2> QED
      BY <2>1, <1>3
  <1> QED
    BY <1>1, <1>2, <1>3

\* The versions a snapshot brings are numbered as they are stored, and of its profile.
LEMMA SnapshotMap ==
  ASSUME NEW s \in Document, s.of \in Entities
  PROVE  /\ MapOf(s) \in Maps
         /\ \A v \in DOMAIN MapOf(s) :
               MapOf(s)[v].of = s.of /\ MapOf(s)[v].version = v
  <1>1. s.version \in Version /\ \A v \in 1..s.version : v \in Version
    BY DEF Document, Version
  <1>2. MapOf(s) \in [1..s.version -> Document]
    BY <1>1 DEF MapOf, Document
  <1> QED
    BY <1>1, <1>2 DEF MapOf, Maps

\* What stands for no document, no load and no write.
LEMMA Empties ==
  /\ NoDocument \in Document
  /\ NoneLoading \in Loading /\ NoneLoading.stage = "free" /\ ~NoneLoading.aborted
  /\ NoneLoading.answer = "awaited"
  /\ NoneWriting \in Writing /\ NoneWriting.stage = "free" /\ NoneWriting.kind = "none"
  /\ NoneWriting.answer = "awaited"
  <1>1. NoDocument \in Document
    BY DEF NoDocument, Document, Version
  <1> QED
    BY <1>1 DEF NoneLoading, NoneWriting, Loading, Writing, Answer

-----------------------------------------------------------------------------
\* What the card's operators make of it.
LEMMA Applied ==
  ASSUME card \in Card, NEW s \in Document
  PROVE  /\ applyDetailsSnapshot(s) \in Card
         /\ applyDetailsSnapshot(s).document = s /\ applyDetailsSnapshot(s).draft = s
         /\ applyDetailsSnapshot(s).head = s.version /\ applyDetailsSnapshot(s).viewed = s.version
         /\ applyDetailsSnapshot(s).versions = card.versions
         /\ applyDetailsSnapshot(s).editing = FALSE
  <1> DEFINE c1 == [card EXCEPT !.document = s]
             c2 == [c1 EXCEPT !.head = s.version]
             c3 == [c2 EXCEPT !.viewed = s.version]
             c4 == [c3 EXCEPT !.draft = s]
             c5 == [c4 EXCEPT !.editing = FALSE]
  <1>1. applyDetailsSnapshot(s) = c5
    BY DEF applyDetailsSnapshot
  <1>2. s.version \in Version
    BY DEF Document
  <1> HIDE DEF c4, c3, c2, c1, c5
  <1>3. c1 \in Card /\ c1.document = s /\ c1.versions = card.versions
    BY DEF Card, c1
  <1>4. c2 \in Card /\ c2.document = s /\ c2.versions = card.versions /\ c2.head = s.version
    BY <1>2, <1>3 DEF Card, c2
  <1>5. /\ c3 \in Card /\ c3.document = s /\ c3.versions = card.versions /\ c3.head = s.version
        /\ c3.viewed = s.version
    BY <1>2, <1>4 DEF Card, c3
  <1>6. /\ c4 \in Card /\ c4.document = s /\ c4.versions = card.versions /\ c4.head = s.version
        /\ c4.viewed = s.version /\ c4.draft = s
    BY <1>5 DEF Card, c4
  <1>7. /\ c5 \in Card /\ c5.document = s /\ c5.versions = card.versions /\ c5.head = s.version
        /\ c5.viewed = s.version /\ c5.draft = s /\ c5.editing = FALSE
    BY <1>6 DEF Card, c5
  <1> QED
    BY <1>1, <1>7

\* The card is emptied.
LEMMA Emptied ==
  ASSUME card \in Card, Unload
  PROVE  /\ card' \in Card /\ card'.versions = NoVersions
         /\ card'.document.version = card'.viewed
  <1> DEFINE c1 == [card EXCEPT !.document = NoDocument]
             c2 == [c1 EXCEPT !.head = 0]
             c3 == [c2 EXCEPT !.viewed = 0]
             c4 == [c3 EXCEPT !.versions = NoVersions]
             c5 == [c4 EXCEPT !.editing = FALSE]
  <1>1. card' = c5
    BY DEF Unload
  <1>2. 0 \in Version
    BY DEF Version
  <1> HIDE DEF c1, c2, c3, c4, c5
  <1>3. c1 \in Card /\ c1.document = NoDocument
    BY Empties DEF Card, c1
  <1>4. c2 \in Card /\ c2.document = NoDocument
    BY <1>2, <1>3 DEF Card, c2
  <1>5. c3 \in Card /\ c3.document = NoDocument /\ c3.viewed = 0
    BY <1>2, <1>4 DEF Card, c3
  <1>6. c4 \in Card /\ c4.versions = NoVersions /\ c4.document = NoDocument /\ c4.viewed = 0
    BY <1>5, MapFacts DEF Card, c4
  <1>7. c5 \in Card /\ c5.versions = NoVersions /\ c5.document = NoDocument /\ c5.viewed = 0
    BY <1>6 DEF Card, c5
  <1>8. NoDocument.version = 0
    BY DEF NoDocument
  <1> QED
    BY <1>1, <1>7, <1>8

\* A version is chosen.
LEMMA Viewed ==
  ASSUME card \in Card, NEW v \in DOMAIN card.versions, v \in Version
  PROVE  /\ Viewing(v) \in Card /\ Viewing(v).versions = card.versions
         /\ Viewing(v).document = card.versions[v] /\ Viewing(v).draft = card.versions[v]
         /\ Viewing(v).viewed = v
  <1> DEFINE d == card.versions[v]
             c1 == [card EXCEPT !.viewed = v]
             c2 == [c1 EXCEPT !.document = d]
             c3 == [c2 EXCEPT !.draft = d]
             c4 == [c3 EXCEPT !.editing = FALSE]
  <1>1. Viewing(v) = c4
    BY DEF Viewing
  <1>2. d \in Document
    BY MapFacts DEF Card
  <1> HIDE DEF c1, c2, c3, c4, d
  <1>3. c1 \in Card /\ c1.versions = card.versions /\ c1.viewed = v
    BY DEF Card, c1
  <1>4. c2 \in Card /\ c2.versions = card.versions /\ c2.viewed = v /\ c2.document = d
    BY <1>2, <1>3 DEF Card, c2
  <1>5. /\ c3 \in Card /\ c3.versions = card.versions /\ c3.viewed = v /\ c3.document = d
        /\ c3.draft = d
    BY <1>2, <1>4 DEF Card, c3
  <1>6. /\ c4 \in Card /\ c4.versions = card.versions /\ c4.viewed = v /\ c4.document = d
        /\ c4.draft = d
    BY <1>5 DEF Card, c4
  <1> QED
    BY <1>1, <1>6 DEF d

\* Editing starts or ends.
LEMMA DraftedFacts ==
  ASSUME card \in Card, NEW b \in BOOLEAN
  PROVE  LET c == [Drafted EXCEPT !.editing = b]
         IN  /\ c \in Card /\ c.versions = card.versions /\ c.document = card.document
             /\ c.viewed = card.viewed /\ c.head = card.head
             /\ c.draft = IF card.document = NoDocument THEN card.draft ELSE card.document
  <1> DEFINE d == [card EXCEPT !.draft = card.document]
             c == [Drafted EXCEPT !.editing = b]
  <1>1. /\ d \in Card /\ d.versions = card.versions /\ d.document = card.document
        /\ d.viewed = card.viewed /\ d.head = card.head /\ d.draft = card.document
    BY DEF Card
  <1>2. /\ Drafted \in Card /\ Drafted.versions = card.versions
        /\ Drafted.document = card.document
        /\ Drafted.viewed = card.viewed /\ Drafted.head = card.head
        /\ Drafted.draft = IF card.document = NoDocument THEN card.draft ELSE card.document
    BY <1>1 DEF Drafted
  <1> HIDE DEF d
  <1>3. /\ c \in Card /\ c.versions = Drafted.versions /\ c.document = Drafted.document
        /\ c.viewed = Drafted.viewed /\ c.head = Drafted.head /\ c.draft = Drafted.draft
    BY <1>2 DEF Card
  <1> QED
    BY <1>2, <1>3

\* The map of a snapshot replaces the versions.
LEMMA VersionsSet ==
  ASSUME card \in Card, NEW m \in Maps
  PROVE  LET c == [card EXCEPT !.versions = m]
         IN  /\ c \in Card /\ c.versions = m /\ c.document = card.document
             /\ c.draft = card.draft /\ c.viewed = card.viewed /\ c.head = card.head
  BY DEF Card

-----------------------------------------------------------------------------
\* Loads and writes start.
LEMMA AbortedFacts ==
  ASSUME InFlight
  PROVE  /\ Aborted \in [Loads -> Loading]
         /\ \A r \in Loads :
               /\ Aborted[r].stage = load[r].stage /\ Aborted[r].entity = load[r].entity
               /\ Aborted[r].answer = load[r].answer /\ Aborted[r].result = load[r].result
  <1>1. ASSUME NEW r \in Loads
        PROVE  LET a == [load[r] EXCEPT !.aborted = TRUE]
               IN  /\ a \in Loading /\ a.stage = load[r].stage /\ a.entity = load[r].entity
                   /\ a.answer = load[r].answer /\ a.result = load[r].result
    BY DEF InFlight, Loading
  <1> QED
    BY <1>1 DEF Aborted, InFlight

\* A load takes a free name and aborts the one before it.
LEMMA LoadStarts ==
  ASSUME InFlight, card \in Card, NEW e \in Entities, Load(e)
  PROVE  /\ load' \in [Loads -> Loading] /\ latest' \in Loads
         /\ load[latest'].stage = "free" /\ \A w \in Writes : write[w].load # latest'
         /\ load'[latest'].stage = "profile" /\ load'[latest'].entity = e
         /\ ~load'[latest'].aborted /\ load'[latest'].answer = "awaited"
         /\ \A r \in Loads \ {latest'} :
               /\ load'[r].stage = load[r].stage /\ load'[r].entity = load[r].entity
               /\ load'[r].answer = load[r].answer /\ load'[r].result = load[r].result
         /\ card' \in Card /\ card'.versions = NoVersions
         /\ card'.document = card.document /\ card'.viewed = card.viewed
         /\ detailsLoading' = TRUE /\ failed' = FALSE /\ versionsLoading' = versionsLoading
         /\ strayed' = FALSE
  <1> DEFINE n1 == [NoneLoading EXCEPT !.entity = e]
             n2 == [n1 EXCEPT !.stage = "profile"]
  <1>1. PICK r \in FreeLoad :
          /\ load' = [Aborted EXCEPT ![r] = n2]
          /\ latest' = r
          /\ detailsLoading' = TRUE /\ failed' = FALSE /\ strayed' = FALSE
          /\ card' = [card EXCEPT !.versions = NoVersions]
          /\ UNCHANGED versionsLoading
    BY DEF Load
  <1>2. r \in Loads /\ load[r].stage = "free" /\ \A w \in Writes : write[w].load # r
    BY DEF FreeLoad
  <1> HIDE DEF n1, n2
  <1>3. n1 \in Loading /\ n1.entity = e /\ ~n1.aborted /\ n1.answer = "awaited"
    BY Empties DEF n1, Loading
  <1>4. /\ n2 \in Loading /\ n2.entity = e /\ ~n2.aborted /\ n2.answer = "awaited"
        /\ n2.stage = "profile"
    BY <1>3 DEF n2, Loading
  <1>5. /\ load' \in [Loads -> Loading] /\ load'[r] = n2
        /\ \A q \in Loads \ {r} : load'[q] = Aborted[q]
    BY <1>1, <1>2, <1>4, AbortedFacts
  <1>6. /\ card' \in Card /\ card'.versions = NoVersions
        /\ card'.document = card.document /\ card'.viewed = card.viewed
    BY <1>1, VersionsSet, MapFacts
  <1> QED
    BY <1>1, <1>2, <1>4, <1>5, <1>6, AbortedFacts

\* A write takes a free name and blocks its buttons.
LEMMA WriteStarts ==
  ASSUME InFlight, NEW k \in {"update", "history", "delete", "create"},
         NEW e \in Entities \cup {NoEntity}, NEW d \in Document, NEW m, Send(k, e, d, m)
  PROVE  /\ busy' = m
         /\ \E w \in Writes :
               /\ write[w].stage = "free"
               /\ write' \in [Writes -> Writing]
               /\ \A u \in Writes \ {w} : write'[u] = write[u]
               /\ write'[w].stage = "sent" /\ write'[w].kind = k /\ write'[w].entity = e
               /\ write'[w].document = d /\ write'[w].answer = "awaited"
  <1> DEFINE n1 == [NoneWriting EXCEPT !.kind = k]
             n2 == [n1 EXCEPT !.entity = e]
             n3 == [n2 EXCEPT !.stage = "sent"]
             n4 == [n3 EXCEPT !.document = d]
  <1>1. PICK w \in Writes : write[w].stage = "free" /\ write' = [write EXCEPT ![w] = n4]
    BY DEF Send
  <1>2. busy' = m
    BY DEF Send
  <1> HIDE DEF n1, n2, n3, n4
  <1>3. n1 \in Writing /\ n1.kind = k /\ n1.answer = "awaited"
    BY Empties DEF n1, Writing
  <1>4. n2 \in Writing /\ n2.kind = k /\ n2.answer = "awaited" /\ n2.entity = e
    BY <1>3 DEF n2, Writing
  <1>5. /\ n3 \in Writing /\ n3.kind = k /\ n3.answer = "awaited" /\ n3.entity = e
        /\ n3.stage = "sent"
    BY <1>4 DEF n3, Writing
  <1>6. /\ n4 \in Writing /\ n4.kind = k /\ n4.answer = "awaited" /\ n4.entity = e
        /\ n4.stage = "sent" /\ n4.document = d
    BY <1>5 DEF n4, Writing
  <1>7. /\ write' \in [Writes -> Writing] /\ write'[w] = n4
        /\ \A u \in Writes \ {w} : write'[u] = write[u]
    BY <1>1, <1>6 DEF InFlight
  <1> QED
    BY <1>1, <1>2, <1>6, <1>7

\* The end of loadVersionMap touches the versions, if its number counts.
LEMMA VersionsShownFacts ==
  ASSUME Types, NEW s \in Document, s.of \in Entities, NEW n, NEW q \in BOOLEAN,
         VersionsShown(s, n, q)
  PROVE  /\ card' \in Card /\ versionsLoading' \in BOOLEAN /\ failed' \in BOOLEAN
         /\ failed => failed'
         /\ card'.document = card.document /\ card'.draft = card.draft
         /\ card'.viewed = card.viewed
         /\ \/ card'.versions = card.versions
            \/ /\ n = latest /\ ~q
               /\ \A v \in DOMAIN card'.versions :
                     card'.versions[v].of = s.of /\ card'.versions[v].version = v
  <1> DEFINE c == [card EXCEPT !.versions = MapOf(s)]
  <1>1. /\ c \in Card /\ c.document = card.document /\ c.draft = card.draft
        /\ c.viewed = card.viewed /\ c.versions = MapOf(s)
    BY SnapshotMap, VersionsSet DEF Types
  <1>2. \/ card' = card
        \/ card' = c /\ n = latest /\ ~q
    BY DEF VersionsShown
  <1>3. /\ versionsLoading' \in BOOLEAN /\ failed' \in BOOLEAN /\ (failed => failed')
    BY DEF VersionsShown, Types
  <1> HIDE DEF c
  <1> QED
    BY <1>1, <1>2, <1>3, SnapshotMap DEF Types

-----------------------------------------------------------------------------
\* The invariant holds at first.
LEMMA InitInv == ASSUME Init PROVE Inv
  <1>1. Types
    <2>1. 0 \in Version /\ 1 \in Version
      BY DEF Version
    <2> QED
      BY <2>1, Empties, MapFacts DEF Init, Types, Card
  <1>2. InFlight /\ LoadAnswers /\ WriteAnswers
    BY Empties DEF Init, InFlight, LoadAnswers, WriteAnswers, Update
  <1>3. Steady
    BY MapFacts DEF NoDocument, Init, Steady, LatestIsSelected, VersionsNumbered, BlockedIsAwaited
  <1>4. Shown
    BY Empties DEF Init, Shown, VersionsOfSelected, CardOfSelected, Arrived
  <1> QED
    BY <1>1, <1>2, <1>3, <1>4 DEF Inv, Base

\* A load starts for the profile that is selected then.
LEMMA LoadKeeps ==
  ASSUME Inv, NEW e \in Entities, Load(e), selected' = e,
         UNCHANGED <<store, write, busy>>
  PROVE  Inv'
  <1> DEFINE Started ==
         /\ load' \in [Loads -> Loading] /\ latest' \in Loads
         /\ load[latest'].stage = "free" /\ \A w \in Writes : write[w].load # latest'
         /\ load'[latest'].stage = "profile" /\ load'[latest'].entity = e
         /\ ~load'[latest'].aborted /\ load'[latest'].answer = "awaited"
         /\ \A r \in Loads \ {latest'} :
               /\ load'[r].stage = load[r].stage /\ load'[r].entity = load[r].entity
               /\ load'[r].answer = load[r].answer /\ load'[r].result = load[r].result
         /\ card' \in Card /\ card'.versions = NoVersions
         /\ card'.document = card.document /\ card'.viewed = card.viewed
         /\ detailsLoading' = TRUE /\ failed' = FALSE /\ versionsLoading' = versionsLoading
         /\ strayed' = FALSE
  <1>1. Started
    BY LoadStarts DEF Inv, Base, Types
  <1>2. Types' /\ InFlight'
    BY <1>1 DEF Inv, Base, Types, InFlight
  <1>3. LoadAnswers' /\ WriteAnswers'
    BY <1>1 DEF Inv, Base, LoadAnswers, WriteAnswers, Update
  <1>4. Steady'
    BY <1>1, MapFacts DEF Inv, Steady, LatestIsSelected, VersionsNumbered, BlockedIsAwaited
  <1>5. VersionsOfSelected' /\ CardOfSelected'
    BY <1>1, MapFacts DEF VersionsOfSelected, CardOfSelected, Arrived
  <1> QED
    BY <1>2, <1>3, <1>4, <1>5 DEF Inv, Base, Shown

\* A write that was sent may go on to await the list; what it stands for stays.
Relisted ==
    /\ write' \in [Writes -> Writing]
    /\ \A w \in Writes :
          /\ \/ write'[w].stage = write[w].stage
             \/ write'[w].stage = "list" /\ write[w].stage = "sent"
          /\ write'[w].kind = write[w].kind /\ write'[w].entity = write[w].entity
          /\ write'[w].answer = write[w].answer /\ write'[w].result = write[w].result
          /\ write'[w].load = write[w].load

\* Nothing is selected any more.
LEMMA UnloadKeeps ==
  ASSUME Inv, Unload, selected' = NoEntity, UNCHANGED <<store, busy>>, Relisted
  PROVE  Inv'
  <1>1. /\ card' \in Card /\ card'.versions = NoVersions
        /\ card'.document.version = card'.viewed
    BY Emptied DEF Inv, Base, Types
  <1>2. /\ load' = Aborted /\ failed' = FALSE /\ versionsLoading' = FALSE
        /\ strayed' = FALSE
        /\ UNCHANGED <<latest, detailsLoading>>
    BY DEF Unload
  <1>3. /\ load' \in [Loads -> Loading]
        /\ \A r \in Loads :
              /\ load'[r].stage = load[r].stage /\ load'[r].entity = load[r].entity
              /\ load'[r].answer = load[r].answer /\ load'[r].result = load[r].result
    BY <1>2, AbortedFacts DEF Inv, Base
  <1>4. Types' /\ InFlight'
    BY <1>1, <1>2, <1>3 DEF Relisted, Inv, Base, Types, InFlight
  <1>5. LoadAnswers' /\ WriteAnswers'
    BY <1>3 DEF Relisted, Inv, Base, LoadAnswers, WriteAnswers, Update
  <1>6. LatestIsSelected' /\ VersionsNumbered'
    BY <1>1, MapFacts DEF LatestIsSelected, VersionsNumbered
  <1>7. BlockedIsAwaited'
    BY <1>2, <1>3 DEF Relisted, Inv, Base, Types, Steady, BlockedIsAwaited
  <1>8. Shown'
    BY DEF Shown, VersionsOfSelected, CardOfSelected, Arrived
  <1> QED
    BY <1>4, <1>5, <1>6, <1>7, <1>8 DEF Inv, Base, Steady

\* A write of another kind than a save awaits the list, and the card stays.
LEMMA ListKeeps ==
  ASSUME Inv, Relisted, UNCHANGED <<store, selected, shownVars, load, latest, busy>>
  PROVE  Inv'
  <1> USE DEF shownVars, Relisted
  <1>1. Types' /\ InFlight'
    BY DEF Inv, Base, Types, InFlight
  <1>2. LoadAnswers' /\ WriteAnswers'
    BY DEF Inv, Base, LoadAnswers, WriteAnswers, Update
  <1>3. Steady'
    BY DEF Inv, Steady, LatestIsSelected, VersionsNumbered, BlockedIsAwaited
  <1>4. Shown'
    BY DEF Inv, Shown, VersionsOfSelected, CardOfSelected, Arrived
  <1> QED
    BY <1>1, <1>2, <1>3, <1>4 DEF Inv, Base

\* A write ends and the card stays as it is.
LEMMA WriteEndKeeps ==
  ASSUME Inv, NEW w \in Writes, write' = [write EXCEPT ![w] = NoneWriting],
         busy' = NoEntity, UNCHANGED <<store, selected, shownVars, load, latest>>
  PROVE  Inv'
  <1> USE DEF shownVars
  <1>1. /\ write' \in [Writes -> Writing] /\ write'[w] = NoneWriting
        /\ \A u \in Writes \ {w} : write'[u] = write[u]
    BY Empties DEF Inv, Base, InFlight
  <1>2. Types' /\ InFlight'
    BY <1>1 DEF Inv, Base, Types, InFlight
  <1>3. LoadAnswers' /\ WriteAnswers'
    BY <1>1, Empties DEF Inv, Base, LoadAnswers, WriteAnswers, Update
  <1>4. Steady'
    BY DEF Inv, Steady, LatestIsSelected, VersionsNumbered, BlockedIsAwaited
  <1>5. Shown'
    BY <1>1, Empties DEF Inv, Shown, VersionsOfSelected, CardOfSelected, Arrived
  <1> QED
    BY <1>2, <1>3, <1>4, <1>5 DEF Inv, Base

\* Selecting keeps the invariant.
LEMMA SelectKeeps ==
  ASSUME Inv, NEW e \in Entities \cup {NoEntity}, Select(e)
  PROVE  Inv'
  <1>1. /\ e # selected /\ selected' = e
        /\ UNCHANGED <<store, write, busy>>
        /\ IF e = NoEntity THEN Unload ELSE Load(e)
    BY DEF Select, SelectedBecomes
  <1>2. CASE e = NoEntity
    BY <1>1, <1>2, UnloadKeeps DEF Relisted, Inv, Base, InFlight
  <1>3. CASE e # NoEntity
    BY <1>1, <1>3, LoadKeeps
  <1> QED
    BY <1>2, <1>3

\* So does the effect of a new request id.
LEMMA RerunKeeps == ASSUME Inv, Rerun PROVE Inv'
  BY LoadKeeps DEF Rerun, Inv, Base, Types

\* A read is answered with a version of the profile asked for.
LEMMA ReadKeeps ==
  ASSUME Inv, NEW r \in Loads, Read(r)
  PROVE  Inv'
  <1> USE DEF shownVars
  <1>1. /\ load[r].stage = "profile" /\ load[r].answer = "awaited"
        /\ UNCHANGED <<store, selected, shownVars, latest, write, busy>>
    BY DEF Read
  <1> DEFINE x == [of |-> load[r].entity, version |-> store[load[r].entity]]
             ok1 == [load EXCEPT ![r].answer = "ok"]
             ok == [ok1 EXCEPT ![r].result = x]
             no == [load EXCEPT ![r].answer = "error"]
             Same(l) ==
                 /\ l \in [Loads -> Loading]
                 /\ \A q \in Loads :
                       /\ l[q].stage = load[q].stage
                       /\ l[q].entity = load[q].entity
                       /\ l[q].aborted = load[q].aborted
                       /\ q # r => l[q] = load[q]
  <1>2. load' = no \/ (store[load[r].entity] # 0 /\ load' = ok)
    BY DEF Read
  <1>3. load[r].entity \in Entities /\ x \in Document /\ x.of = load[r].entity
        /\ x.version = store[load[r].entity]
    BY <1>1 DEF Inv, Base, Types, LoadAnswers, Document
  <1>4. Same(no) /\ no[r].answer = "error"
    BY DEF Inv, Base, InFlight, Loading, Answer
  <1> HIDE DEF x
  <1>5. Same(ok1) /\ ok1[r].answer = "ok"
    BY DEF Inv, Base, InFlight, Loading, Answer
  <1> HIDE DEF ok1
  <1>6. Same(ok) /\ ok[r].answer = "ok" /\ ok[r].result = x
    BY <1>3, <1>5 DEF Inv, Base, InFlight, Loading, Answer
  <1> HIDE DEF ok, no
  <1>7. Same(load')
    BY <1>2, <1>4, <1>6
  <1>8. LoadAnswers'
    <2>1. CASE load' = no
      BY <1>1, <1>4, <2>1 DEF Inv, Base, LoadAnswers
    <2>2. CASE store[load[r].entity] # 0 /\ load' = ok
      <3>1. x.version > 0
        BY <1>3, <2>2 DEF Inv, Base, Types, Version
      <3> QED
        BY <1>1, <1>3, <1>6, <2>2, <3>1 DEF Inv, Base, LoadAnswers
    <2> QED
      BY <1>2, <2>1, <2>2
  <1>9. Types' /\ InFlight' /\ WriteAnswers'
    BY <1>1, <1>7 DEF Inv, Base, Types, InFlight, WriteAnswers, Update
  <1>10. Steady'
    BY <1>1, <1>7 DEF Inv, Base, Types, Steady, LatestIsSelected, VersionsNumbered, BlockedIsAwaited
  <1>11. (LatestIsSelected => latest \in Loads \/ selected = NoEntity)
    BY DEF LatestIsSelected
  <1>12. Shown'
    BY <1>1, <1>7, <1>11 DEF Inv, Steady, Shown, VersionsOfSelected, CardOfSelected, Arrived
  <1> QED
    BY <1>8, <1>9, <1>10, <1>12 DEF Inv, Base

\* The answer of a load counts if it is of the latest.
LEMMA LoadedKeeps ==
  ASSUME Inv, NEW r \in Loads, Loaded(r)
  PROVE  Inv'
  <1> DEFINE s == load[r].result
             ok == load[r].answer = "ok"
             more == AsksVersions(s)
             c == [applyDetailsSnapshot(s) EXCEPT !.versions = MapOf(s)]
             asking == [load EXCEPT ![r].stage = "versions"]
             ended == [load EXCEPT ![r] = NoneLoading]
  <1>1. /\ load[r].stage = "profile" /\ load[r].answer # "awaited"
        /\ UNCHANGED <<store, selected, latest, write, busy, strayed>>
    BY DEF Loaded
  <1>2. \/ /\ ok /\ r = latest /\ ~load[r].aborted /\ more
           /\ load' = asking /\ card' = applyDetailsSnapshot(s)
           /\ versionsLoading' = TRUE
           /\ UNCHANGED <<detailsLoading, failed>>
        \/ /\ ok /\ r = latest /\ ~load[r].aborted /\ ~more
           /\ load' = ended /\ card' = c
           /\ detailsLoading' = FALSE
           /\ UNCHANGED <<versionsLoading, failed>>
        \/ /\ load' = ended
           /\ ~(ok /\ r = latest /\ ~load[r].aborted)
           /\ failed' = (failed \/ (~ok /\ r = latest /\ ~load[r].aborted))
           /\ detailsLoading' = (detailsLoading /\ r # latest)
           /\ UNCHANGED <<card, versionsLoading>>
    BY DEF Loaded, Counts, LoadingAfter, Inv, Base, Types
  <1>3. s \in Document /\ (ok => s.of = load[r].entity /\ s.version > 0)
        /\ load[r].entity \in Entities
    BY <1>1 DEF Inv, Base, LoadAnswers, InFlight, Loading
  <1>4. /\ applyDetailsSnapshot(s) \in Card
        /\ applyDetailsSnapshot(s).document = s /\ applyDetailsSnapshot(s).draft = s
        /\ applyDetailsSnapshot(s).viewed = s.version
        /\ applyDetailsSnapshot(s).versions = card.versions
    BY <1>3, Applied DEF Inv, Base, Types
  <1>5. ok => /\ c \in Card /\ c.document = s /\ c.draft = s /\ c.viewed = s.version
              /\ \A v \in DOMAIN c.versions : c.versions[v].of = s.of /\ c.versions[v].version = v
    <2> HIDE DEF s, ok
    <2>1. SUFFICES ASSUME ok
                   PROVE /\ c \in Card /\ c.document = s /\ c.draft = s /\ c.viewed = s.version
                         /\ c.versions = MapOf(s)
      BY <1>3, SnapshotMap
    <2>2. MapOf(s) \in Maps
      BY <1>3, <2>1, SnapshotMap
    <2> QED
      BY <1>4, <2>2 DEF Card
  <1>6. /\ asking \in [Loads -> Loading] /\ asking[r].stage = "versions"
        /\ asking[r].entity = load[r].entity /\ asking[r].aborted = load[r].aborted
        /\ asking[r].answer = load[r].answer /\ asking[r].result = load[r].result
        /\ \A q \in Loads \ {r} : asking[q] = load[q]
    BY DEF Inv, Base, InFlight, Loading
  <1>7. /\ ended \in [Loads -> Loading] /\ ended[r] = NoneLoading
        /\ \A q \in Loads \ {r} : ended[q] = load[q]
    BY Empties DEF Inv, Base, InFlight
  <1>8. ok => s = [of |-> s.of, version |-> s.version]
    BY <1>3 DEF Document
  <1> HIDE DEF more, c, asking, ended
  <1>9. (load' = asking /\ ok) \/ load' = ended
    BY <1>2
  <1>10. Types' /\ InFlight'
    <2> HIDE DEF ok, s
    <2> QED
      BY <1>1, <1>2, <1>4, <1>5, <1>6, <1>7 DEF Inv, Base, Types, InFlight
  <1>11. LoadAnswers' /\ WriteAnswers'
    BY <1>1, <1>3, <1>6, <1>7, <1>9, Empties DEF Inv, Base, LoadAnswers, WriteAnswers, Update
  <1>12. LatestIsSelected'
    BY <1>1, <1>6, <1>7, <1>9, Empties DEF Inv, Steady, LatestIsSelected
  <1>13. VersionsNumbered'
    BY <1>2, <1>3, <1>4, <1>5 DEF Inv, Steady, VersionsNumbered
  <1>14. BlockedIsAwaited'
    BY <1>1, <1>2, <1>6, <1>7 DEF Inv, Base, Types, Steady, BlockedIsAwaited
  <1>16. selected # NoEntity /\ r = latest => load[r].entity = selected /\ ~load[r].aborted
    BY <1>1 DEF Inv, Steady, LatestIsSelected
  <1>17. ~strayed => VersionsOfSelected'
    BY <1>1, <1>2, <1>3, <1>4, <1>5, <1>16 DEF Inv, Shown, VersionsOfSelected
  <1>18. ~strayed => CardOfSelected'
    <2> SUFFICES ASSUME ~strayed, Arrived'
                 PROVE  /\ card'.document = [of |-> selected, version |-> card'.viewed]
                        /\ card'.draft.of = selected
      BY <1>1 DEF CardOfSelected
    <2>1. selected # NoEntity /\ latest \in Loads
      BY <1>1 DEF Arrived, Inv, Steady, LatestIsSelected
    <2>2. CASE ok /\ r = latest /\ ~load[r].aborted
      <3>1. card'.document = s /\ card'.draft = s /\ card'.viewed = s.version
        BY <1>2, <1>4, <1>5, <2>2
      <3> QED
        BY <1>3, <1>8, <1>16, <2>1, <2>2, <3>1
    <2>3. CASE ~(ok /\ r = latest /\ ~load[r].aborted)
      <3>1. /\ load' = ended /\ card' = card
            /\ failed' = (failed \/ (~ok /\ r = latest /\ ~load[r].aborted))
            /\ detailsLoading' = (detailsLoading /\ r # latest)
        BY <1>2, <2>3
      <3>2. r # latest
        BY <1>16, <2>1, <2>3, <3>1 DEF Arrived
      <3>3. Arrived
        BY <1>1, <1>7, <2>1, <3>1, <3>2 DEF Arrived
      <3> QED
        BY <3>1, <3>3 DEF Inv, Shown, CardOfSelected
    <2> QED
      BY <2>2, <2>3
  <1> QED
    BY <1>1, <1>10, <1>11, <1>12, <1>13, <1>14, <1>17, <1>18 DEF Inv, Base, Steady, Shown

\* The older versions of a load are in.
LEMMA VersionsLoadedKeeps ==
  ASSUME Inv, NEW r \in Loads, VersionsLoaded(r)
  PROVE  Inv'
  <1> DEFINE s == load[r].result
             ended == [load EXCEPT ![r] = NoneLoading]
  <1>1. /\ load[r].stage = "versions" /\ VersionsShown(s, r, load[r].aborted)
        /\ load' = ended /\ detailsLoading' = (detailsLoading /\ r # latest)
        /\ UNCHANGED <<store, selected, latest, write, busy, strayed>>
    BY DEF VersionsLoaded, LoadingAfter
  <1>2. /\ s \in Document /\ s.of = load[r].entity /\ s.of \in Entities
        /\ load[r].aborted \in BOOLEAN
    BY <1>1 DEF Inv, Base, LoadAnswers, InFlight, Loading
  <1>3. /\ ended \in [Loads -> Loading] /\ ended[r] = NoneLoading
        /\ \A q \in Loads \ {r} : ended[q] = load[q]
    BY Empties DEF Inv, Base, InFlight
  <1>4. /\ card' \in Card /\ versionsLoading' \in BOOLEAN /\ failed' \in BOOLEAN
        /\ failed => failed'
        /\ card'.document = card.document /\ card'.draft = card.draft
        /\ card'.viewed = card.viewed
        /\ \/ card'.versions = card.versions
           \/ /\ r = latest /\ ~load[r].aborted
              /\ \A v \in DOMAIN card'.versions :
                    card'.versions[v].of = s.of /\ card'.versions[v].version = v
    <2> HIDE DEF s
    <2> QED
      BY <1>1, <1>2, VersionsShownFacts DEF Inv, Base
  <1> HIDE DEF s, ended
  <1>5. Types' /\ InFlight'
    BY <1>1, <1>3, <1>4 DEF Inv, Base, Types, InFlight
  <1>6. LoadAnswers' /\ WriteAnswers'
    BY <1>1, <1>3, Empties DEF Inv, Base, LoadAnswers, WriteAnswers, Update
  <1>7. LatestIsSelected'
    BY <1>1, <1>3, Empties DEF Inv, Steady, LatestIsSelected
  <1>8. VersionsNumbered'
    BY <1>4 DEF Inv, Steady, VersionsNumbered
  <1>9. BlockedIsAwaited'
    BY <1>1, <1>3 DEF Inv, Base, Types, Steady, BlockedIsAwaited
  <1>10. selected # NoEntity /\ r = latest => s.of = selected
    BY <1>1, <1>2 DEF Inv, Steady, LatestIsSelected
  <1>11. ~strayed => VersionsOfSelected'
    BY <1>1, <1>4, <1>10 DEF Inv, Shown, VersionsOfSelected
  <1>12. ~strayed => CardOfSelected'
    <2> SUFFICES ASSUME ~strayed, Arrived'
                 PROVE  /\ card'.document = [of |-> selected, version |-> card'.viewed]
                        /\ card'.draft.of = selected
      BY <1>1 DEF CardOfSelected
    <2>1. selected # NoEntity /\ latest \in Loads /\ ~failed
      BY <1>1, <1>4 DEF Arrived, Inv, Steady, LatestIsSelected
    <2>2. Arrived
      BY <1>1, <1>3, <2>1 DEF Arrived
    <2> QED
      BY <1>4, <2>2 DEF Inv, Shown, CardOfSelected
  <1> QED
    BY <1>1, <1>5, <1>6, <1>7, <1>8, <1>9, <1>11, <1>12 DEF Inv, Base, Steady, Shown

-----------------------------------------------------------------------------
\* The user chooses a version or edits: the document stays of the selected
\* profile, and the draft is of that document.
LEMMA CardStepKeeps ==
  ASSUME Inv, selected # NoEntity, card' \in Card, card'.versions = card.versions,
         UNCHANGED <<store, selected, requestVars, busy>>,
         UNCHANGED <<detailsLoading, versionsLoading, failed, strayed>>,
         card'.document.version = card'.viewed,
         ~strayed /\ Arrived =>
            /\ card'.document = [of |-> selected, version |-> card'.viewed]
            /\ card'.draft.of = selected
  PROVE  Inv'
  <1> USE DEF requestVars
  <1>1. Types' /\ InFlight' /\ LoadAnswers' /\ WriteAnswers'
    BY DEF Inv, Base, Types, InFlight, LoadAnswers, WriteAnswers, Update
  <1>2. Steady'
    BY DEF Inv, Steady, LatestIsSelected, VersionsNumbered, BlockedIsAwaited
  <1>3. Shown'
    BY DEF Inv, Shown, VersionsOfSelected, CardOfSelected, Arrived
  <1> QED
    BY <1>1, <1>2, <1>3 DEF Inv, Base

\* A version of the history is viewed.
LEMMA SelectVersionKeeps ==
  ASSUME Inv, NEW v \in 1 .. MaxVersion, onSelectVersion(v)
  PROVE  Inv'
  <1>1. /\ selected # NoEntity /\ ~detailsLoading /\ v \in DOMAIN card.versions
        /\ card' = Viewing(v)
        /\ UNCHANGED <<store, selected, requestVars, busy>>
        /\ UNCHANGED <<detailsLoading, versionsLoading, failed, strayed>>
    BY DEF onSelectVersion
  <1>2. /\ card' \in Card /\ card'.versions = card.versions
        /\ card'.document = card.versions[v] /\ card'.draft = card.versions[v]
        /\ card'.viewed = v
    BY <1>1, Viewed DEF Inv, Base, Types, Version
  <1>3. card.versions[v] \in Document /\ card.versions[v].version = v
    BY <1>1, MapFacts DEF Inv, Base, Types, Card, Steady, VersionsNumbered
  <1>4. ~strayed => card.versions[v].of = selected
    BY <1>1 DEF Inv, Shown, VersionsOfSelected
  <1>5. ~strayed => card.versions[v] = [of |-> selected, version |-> v]
    BY <1>3, <1>4 DEF Document
  <1> QED
    BY <1>1, <1>2, <1>3, <1>4, <1>5, CardStepKeeps

\* The editor is opened or left.
LEMMA EditKeeps ==
  ASSUME Inv, EditProfile \/ CancelEditing
  PROVE  Inv'
  <1>1. PICK b \in BOOLEAN :
           /\ selected # NoEntity /\ card' = [Drafted EXCEPT !.editing = b]
           /\ UNCHANGED <<store, selected, requestVars, busy>>
           /\ UNCHANGED <<detailsLoading, versionsLoading, failed, strayed>>
    BY DEF EditProfile, CancelEditing
  <1>2. /\ card' \in Card /\ card'.versions = card.versions
        /\ card'.document = card.document /\ card'.viewed = card.viewed
        /\ card'.draft = IF card.document = NoDocument THEN card.draft ELSE card.document
    BY <1>1, DraftedFacts DEF Inv, Base, Types
  <1>3. /\ card.document.version = card.viewed
        /\ (~strayed /\ Arrived =>
              /\ card.document = [of |-> selected, version |-> card.viewed]
              /\ card.draft.of = selected)
    BY DEF Inv, Steady, VersionsNumbered, Shown, CardOfSelected
  <1> QED
    BY <1>1, <1>2, <1>3, CardStepKeeps

-----------------------------------------------------------------------------
\* A write starts, whatever else is in flight.
LEMMA SendKeeps ==
  ASSUME Inv, NEW k \in {"update", "history", "delete", "create"},
         NEW e \in Entities \cup {NoEntity}, NEW d \in Document,
         NEW m \in Entities \cup {NoEntity, "create"}, Send(k, e, d, m),
         k # "create" => e \in Entities,
         UNCHANGED <<store, selected, shownVars, load, latest>>
  PROVE  Inv'
  <1> USE DEF shownVars
  <1>1. busy' = m
    BY WriteStarts DEF Inv, Base
  <1>2. PICK w \in Writes :
               /\ write[w].stage = "free"
               /\ write' \in [Writes -> Writing]
               /\ \A u \in Writes \ {w} : write'[u] = write[u]
               /\ write'[w].stage = "sent" /\ write'[w].kind = k /\ write'[w].entity = e
               /\ write'[w].document = d /\ write'[w].answer = "awaited"
    BY WriteStarts DEF Inv, Base
  <1>3. Types' /\ InFlight'
    BY <1>1, <1>2 DEF Inv, Base, Types, InFlight
  <1>4. LoadAnswers' /\ WriteAnswers'
    BY <1>2 DEF Inv, Base, LoadAnswers, WriteAnswers, Update
  <1>5. Steady'
    BY <1>2 DEF Inv, Steady, LatestIsSelected, VersionsNumbered, BlockedIsAwaited
  <1>6. Shown'
    BY <1>2 DEF Inv, Shown, VersionsOfSelected, CardOfSelected, Arrived
  <1> QED
    BY <1>3, <1>4, <1>5, <1>6 DEF Inv, Base

\* A write is sent with what the card shows.
LEMMA HandleKeeps ==
  ASSUME Inv, handleUpdate \/ handleSaveHistoricalAsNew \/ handleDelete \/ handleCreate
  PROVE  Inv'
  <1>1. /\ card.draft \in Document /\ card.document \in Document /\ NoDocument \in Document
        /\ selected \in Entities \cup {NoEntity}
    BY Empties DEF Inv, Base, Types, Card
  <1>2. CASE handleUpdate
    BY <1>1, <1>2, SendKeeps DEF handleUpdate, Pressable
  <1>3. CASE handleSaveHistoricalAsNew
    BY <1>1, <1>3, SendKeeps DEF handleSaveHistoricalAsNew, Pressable
  <1>4. CASE handleDelete
    BY <1>1, <1>4, SendKeeps DEF handleDelete, Pressable
  <1>5. CASE handleCreate
    BY <1>1, <1>5, SendKeeps DEF handleCreate
  <1> QED
    BY <1>2, <1>3, <1>4, <1>5

\* The server answers a write with the version it stored.
LEMMA StoredFacts ==
  ASSUME Inv, NEW w \in Writes, write[w].stage = "sent", Storable(w)
  PROVE  /\ Stored(w) \in [Entities -> Version]
         /\ Update(w) => Stored(w)[write[w].entity] > 0
  <1> DEFINE e == write[w].entity
  <1>1. store \in [Entities -> Version] /\ (write[w].kind # "create" => e \in Entities)
    BY DEF Inv, Base, Types, WriteAnswers
  <1>2. CASE Update(w)
    <2>1. store[e] \in 1 .. MaxVersion - 1 /\ e \in Entities
      BY <1>1, <1>2 DEF Storable, Update
    <2>2. Stored(w) = [store EXCEPT ![e] = @ + 1]
      BY <1>2 DEF Stored, Update
    <2>3. store[e] + 1 \in Version /\ store[e] + 1 > 0
      BY <2>1 DEF Version
    <2> QED
      BY <1>1, <2>1, <2>2, <2>3
  <1>3. CASE ~Update(w)
    <2>1. 0 \in Version
      BY DEF Version
    <2>2. Stored(w) = store \/ (e \in Entities /\ Stored(w) = [store EXCEPT ![e] = 0])
      BY <1>1, <1>3 DEF Stored, Update
    <2> QED
      BY <1>1, <1>3, <2>1, <2>2
  <1> QED
    BY <1>2, <1>3

\* The server handles a write.
LEMMA ServeKeeps ==
  ASSUME Inv, NEW w \in Writes, Serve(w)
  PROVE  Inv'
  <1> USE DEF shownVars
  <1> DEFINE x == IF write[w].kind \in {"update", "history"}
                  THEN [of |-> write[w].entity, version |-> store'[write[w].entity]]
                  ELSE NoDocument
             ok1 == [write EXCEPT ![w].answer = "ok"]
             ok == [ok1 EXCEPT ![w].result = x]
             no == [write EXCEPT ![w].answer = "error"]
             Same(l) ==
                 /\ l \in [Writes -> Writing]
                 /\ \A u \in Writes :
                       /\ l[u].stage = write[u].stage /\ l[u].kind = write[u].kind
                       /\ l[u].entity = write[u].entity /\ l[u].document = write[u].document
                       /\ l[u].load = write[u].load
                       /\ u # w => l[u] = write[u]
  <1>1. /\ write[w].stage = "sent" /\ write[w].answer = "awaited"
        /\ UNCHANGED <<selected, shownVars, load, latest, busy>>
    BY DEF Serve
  <1>2. \/ Storable(w) /\ store' = Stored(w) /\ write' = ok
        \/ write' = no /\ (UNCHANGED store \/ (Storable(w) /\ store' = Stored(w)))
    BY DEF Serve
  <1>3. store' \in [Entities -> Version]
    BY <1>1, <1>2, StoredFacts DEF Inv, Base, Types
  <1>4. /\ x \in Document
        /\ Update(w) => x.of = write[w].entity /\ x.version = store'[write[w].entity]
    BY <1>3, Empties DEF Inv, Base, WriteAnswers, Update, Document
  <1>5. Same(no) /\ no[w].answer = "error"
    BY DEF Inv, Base, InFlight, Writing, Answer
  <1> HIDE DEF x
  <1>6. Same(ok1) /\ ok1[w].answer = "ok"
    BY DEF Inv, Base, InFlight, Writing, Answer
  <1> HIDE DEF ok1
  <1>7. Same(ok) /\ ok[w].answer = "ok" /\ ok[w].result = x
    BY <1>4, <1>6 DEF Inv, Base, InFlight, Writing, Answer
  <1> HIDE DEF ok, no
  <1>8. Same(write')
    BY <1>2, <1>5, <1>7
  <1>9. WriteAnswers'
    <2>1. CASE write' = no
      BY <1>1, <1>5, <2>1 DEF Inv, Base, WriteAnswers, Update
    <2>2. CASE Storable(w) /\ store' = Stored(w) /\ write' = ok
      <3>1. Update(w) => x.of = write[w].entity /\ x.version > 0
        BY <1>1, <1>4, <2>2, StoredFacts
      <3> QED
        BY <1>1, <1>7, <2>2, <3>1 DEF Inv, Base, WriteAnswers, Update
    <2> QED
      BY <1>2, <2>1, <2>2
  <1>10. Types' /\ InFlight' /\ LoadAnswers'
    BY <1>1, <1>3, <1>8 DEF Inv, Base, Types, InFlight, LoadAnswers
  <1>11. Steady'
    BY <1>1, <1>8 DEF Inv, Steady, LatestIsSelected, VersionsNumbered, BlockedIsAwaited
  <1>12. Shown'
    <2>1. \A u \in Writes : write'[u].stage = "versions" => write'[u] = write[u]
      BY <1>1, <1>8
    <2> QED
      BY <1>1, <2>1 DEF Inv, Shown, VersionsOfSelected, CardOfSelected, Arrived
  <1> QED
    BY <1>9, <1>10, <1>11, <1>12 DEF Inv, Base

\* An update's answer is applied to the card, and is of the selected profile
\* unless it strays.
LEMMA UpdatedKeeps ==
  ASSUME Inv, NEW w \in Writes, Updated(w)
  PROVE  Inv'
  <1> DEFINE s == write[w].result
             more == AsksVersions(s)
             m == IF more THEN NoVersions ELSE MapOf(s)
             c == [applyDetailsSnapshot(s) EXCEPT !.versions = m]
             a1 == [write EXCEPT ![w].stage = "versions"]
             asking == [a1 EXCEPT ![w].load = latest]
             ended == [write EXCEPT ![w] = NoneWriting]
  <1>1. /\ write[w].stage = "sent" /\ Update(w) /\ write[w].answer = "ok"
        /\ card' = c /\ versionsLoading' = (versionsLoading \/ more)
        /\ strayed' = (strayed \/ s.of # selected)
        /\ UNCHANGED <<store, selected, detailsLoading, failed, load, latest>>
    BY DEF Updated, Update
  <1>2. \/ write' = asking /\ UNCHANGED busy
        \/ write' = ended /\ busy' = NoEntity
    BY DEF Updated, BusyAfter
  <1>3. /\ s \in Document /\ s.of = write[w].entity /\ s.version > 0 /\ s.of \in Entities
        /\ s = [of |-> s.of, version |-> s.version]
    BY <1>1 DEF Inv, Base, WriteAnswers, InFlight, Writing, Document
  <1>4. /\ m \in Maps
        /\ \A v \in DOMAIN m : m[v].of = s.of /\ m[v].version = v
    BY <1>3, MapFacts, SnapshotMap
  <1>5. /\ applyDetailsSnapshot(s) \in Card
        /\ applyDetailsSnapshot(s).document = s /\ applyDetailsSnapshot(s).draft = s
        /\ applyDetailsSnapshot(s).viewed = s.version
    BY <1>3, Applied DEF Inv, Base, Types
  <1> HIDE DEF s, m, more
  <1>6. c \in Card /\ c.document = s /\ c.draft = s /\ c.viewed = s.version /\ c.versions = m
    BY <1>4, <1>5 DEF Card
  <1>7. /\ a1 \in [Writes -> Writing] /\ a1[w].stage = "versions"
        /\ a1[w].kind = write[w].kind /\ a1[w].entity = write[w].entity
        /\ a1[w].document = write[w].document /\ a1[w].answer = write[w].answer
        /\ a1[w].result = s
        /\ \A u \in Writes \ {w} : a1[u] = write[u]
    BY DEF Inv, Base, InFlight, Writing, s
  <1> HIDE DEF a1
  <1>8. /\ asking \in [Writes -> Writing] /\ asking[w].stage = "versions"
        /\ asking[w].kind = write[w].kind /\ asking[w].entity = write[w].entity
        /\ asking[w].document = write[w].document /\ asking[w].answer = write[w].answer
        /\ asking[w].result = s
        /\ \A u \in Writes \ {w} : asking[u] = write[u]
    BY <1>7 DEF Inv, Base, Types, Writing
  <1>9. /\ ended \in [Writes -> Writing] /\ ended[w] = NoneWriting
        /\ \A u \in Writes \ {w} : ended[u] = write[u]
    BY Empties DEF Inv, Base, InFlight
  <1> HIDE DEF c, asking, ended
  <1>10. versionsLoading' \in BOOLEAN /\ strayed' \in BOOLEAN
    BY <1>1 DEF Inv, Base, Types
  <1>11. Types' /\ InFlight'
    BY <1>1, <1>2, <1>6, <1>8, <1>9, <1>10 DEF Inv, Base, Types, InFlight
  <1>12. LoadAnswers' /\ WriteAnswers'
    <2>1. LoadAnswers'
      BY <1>1 DEF Inv, Base, LoadAnswers
    <2>2. WriteAnswers'
      BY <1>1, <1>2, <1>3, <1>8, <1>9, Empties DEF Inv, Base, WriteAnswers, Update
    <2> QED
      BY <2>1, <2>2
  <1>13. Steady'
    <2>1. LatestIsSelected' /\ VersionsNumbered'
      BY <1>1, <1>4, <1>6 DEF Inv, Steady, LatestIsSelected, VersionsNumbered
    <2>2. BlockedIsAwaited'
      BY <1>1, <1>2, <1>8 DEF Inv, Steady, BlockedIsAwaited
    <2> QED
      BY <2>1, <2>2 DEF Steady
  <1>14. ~strayed' => VersionsOfSelected'
    <2> SUFFICES ASSUME ~strayed', selected # NoEntity
                 PROVE  /\ \A u \in Writes : write'[u].stage = "versions" /\ write'[u].load = latest =>
                              write'[u].result.of = selected
                        /\ \A v \in DOMAIN card'.versions : card'.versions[v].of = selected
      BY <1>1 DEF VersionsOfSelected
    <2>1. s.of = selected /\ ~strayed
      BY <1>1
    <2>2. \A v \in DOMAIN card'.versions : card'.versions[v].of = selected
      BY <1>1, <1>4, <1>6, <2>1
    <2>3. \A u \in Writes \ {w} : write'[u] = write[u]
      BY <1>2, <1>8, <1>9
    <2>4. write'[w].stage = "versions" => write'[w].result = s
      BY <1>2, <1>8, <1>9, Empties
    <2> QED
      BY <2>1, <2>2, <2>3, <2>4 DEF Inv, Shown, VersionsOfSelected
  <1>15. ~strayed' => CardOfSelected'
    BY <1>1, <1>3, <1>6 DEF CardOfSelected
  <1> QED
    BY <1>11, <1>12, <1>13, <1>14, <1>15 DEF Inv, Base, Shown

\* The versions a write asked for are in.
LEMMA UpdatedVersionsKeeps ==
  ASSUME Inv, NEW w \in Writes, UpdatedVersions(w)
  PROVE  Inv'
  <1> DEFINE s == write[w].result
             n == write[w].load
             ended == [write EXCEPT ![w] = NoneWriting]
  <1>1. /\ write[w].stage = "versions" /\ VersionsShown(s, n, FALSE)
        /\ write' = ended /\ busy' = NoEntity
        /\ UNCHANGED <<store, selected, detailsLoading, strayed, load, latest>>
    BY DEF UpdatedVersions, BusyAfter
  <1>2. s \in Document /\ s.of \in Entities
    BY <1>1 DEF Inv, Base, WriteAnswers, InFlight, Writing
  <1>3. /\ ended \in [Writes -> Writing] /\ ended[w] = NoneWriting
        /\ \A u \in Writes \ {w} : ended[u] = write[u]
    BY Empties DEF Inv, Base, InFlight
  <1>4. ~strayed /\ selected # NoEntity /\ n = latest => s.of = selected
    BY <1>1 DEF Inv, Shown, VersionsOfSelected
  <1> HIDE DEF s, n, ended
  <1>5. /\ card' \in Card /\ versionsLoading' \in BOOLEAN /\ failed' \in BOOLEAN
        /\ failed => failed'
        /\ card'.document = card.document /\ card'.draft = card.draft
        /\ card'.viewed = card.viewed
        /\ \/ card'.versions = card.versions
           \/ /\ n = latest
              /\ \A v \in DOMAIN card'.versions :
                    card'.versions[v].of = s.of /\ card'.versions[v].version = v
    <2> DEFINE q == FALSE
    <2>1. Types /\ VersionsShown(s, n, q) /\ q \in BOOLEAN
      BY <1>1 DEF Inv, Base
    <2> HIDE DEF q
    <2> QED
      BY <1>2, <2>1, VersionsShownFacts
  <1>6. Types' /\ InFlight'
    BY <1>1, <1>3, <1>5 DEF Inv, Base, Types, InFlight
  <1>7. LoadAnswers' /\ WriteAnswers'
    BY <1>1, <1>3, Empties DEF Inv, Base, LoadAnswers, WriteAnswers, Update
  <1>8. Steady'
    BY <1>1, <1>5 DEF Inv, Steady, LatestIsSelected, VersionsNumbered, BlockedIsAwaited
  <1>9. ~strayed => VersionsOfSelected'
    BY <1>1, <1>3, <1>4, <1>5, Empties DEF Inv, Shown, VersionsOfSelected
  <1>10. ~strayed => CardOfSelected'
    BY <1>1, <1>5 DEF Inv, Shown, CardOfSelected, Arrived
  <1> QED
    BY <1>1, <1>6, <1>7, <1>8, <1>9, <1>10 DEF Inv, Base, Shown

\* A deletion or a creation is answered; a deletion deselects.
LEMMA EndedKeeps ==
  ASSUME Inv, NEW w \in Writes, Ended(w)
  PROVE  Inv'
  <1>1. /\ write[w].stage = "sent" /\ write' = [write EXCEPT ![w].stage = "list"]
        /\ UNCHANGED <<store, busy>>
        /\ \/ UNCHANGED <<selected, shownVars, load, latest>>
           \/ selected' = NoEntity /\ Unload
    BY DEF Ended, SelectedBecomes
  <1>2. Relisted
    BY <1>1 DEF Relisted, Inv, Base, InFlight, Writing
  <1>3. CASE UNCHANGED <<selected, shownVars, load, latest>>
    BY <1>1, <1>2, <1>3, ListKeeps
  <1>4. CASE selected' = NoEntity /\ Unload
    BY <1>1, <1>2, <1>4, UnloadKeeps
  <1> QED
    BY <1>1, <1>3, <1>4

\* Somebody else's save is only the server's.
LEMMA OtherWritesKeep ==
  ASSUME Inv, NEW e \in Entities, OtherWrites(e)
  PROVE  Inv'
  <1> USE DEF shownVars, requestVars
  <1>1. store' \in [Entities -> Version]
    BY DEF OtherWrites, Inv, Base, Types, Version
  <1>2. UNCHANGED <<selected, shownVars, requestVars, busy>>
    BY DEF OtherWrites
  <1>3. Types' /\ InFlight' /\ LoadAnswers' /\ WriteAnswers'
    BY <1>1, <1>2 DEF Inv, Base, Types, InFlight, LoadAnswers, WriteAnswers, Update
  <1>4. Steady' /\ Shown'
    BY <1>2 DEF Inv, Steady, LatestIsSelected, VersionsNumbered, BlockedIsAwaited, Shown,
                VersionsOfSelected, CardOfSelected, Arrived
  <1> QED
    BY <1>3, <1>4 DEF Inv, Base

\* The invariant holds after every step.
LEMMA InvStep == ASSUME Inv, [Next]_vars PROVE Inv'
  <1>1. CASE UNCHANGED vars
    <2> USE DEF vars, shownVars, requestVars
    <2>1. Types' /\ InFlight' /\ LoadAnswers' /\ WriteAnswers'
      BY <1>1 DEF Inv, Base, Types, InFlight, LoadAnswers, WriteAnswers, Update
    <2>2. Steady' /\ Shown'
      BY <1>1 DEF Inv, Steady, LatestIsSelected, VersionsNumbered, BlockedIsAwaited, Shown,
                  VersionsOfSelected, CardOfSelected, Arrived
    <2> QED
      BY <2>1, <2>2 DEF Inv, Base
  <1>2. CASE \E e \in Entities \cup {NoEntity} : Select(e)
    BY <1>2, SelectKeeps
  <1>3. CASE Rerun
    BY <1>3, RerunKeeps
  <1>4. CASE \E r \in Loads : LoadStep(r)
    BY <1>4, ReadKeeps, LoadedKeeps, VersionsLoadedKeeps DEF LoadStep
  <1>5. CASE \E v \in 1 .. MaxVersion : onSelectVersion(v)
    BY <1>5, SelectVersionKeeps
  <1>6. CASE EditProfile \/ CancelEditing
    BY <1>6, EditKeeps
  <1>7. CASE handleUpdate \/ handleSaveHistoricalAsNew \/ handleDelete \/ handleCreate
    BY <1>7, HandleKeeps
  <1>8. CASE \E w \in Writes : WriteStep(w)
    <2>1. ASSUME NEW w \in Writes, Refused(w) \/ ListReloaded(w) PROVE Inv'
      BY <2>1, WriteEndKeeps DEF Refused, ListReloaded, BusyAfter
    <2> QED
      BY <1>8, <2>1, ServeKeeps, UpdatedKeeps, UpdatedVersionsKeeps, EndedKeeps DEF WriteStep
  <1>9. CASE \E e \in Entities : OtherWrites(e)
    BY <1>9, OtherWritesKeep
  <1> QED
    BY <1>1, <1>2, <1>3, <1>4, <1>5, <1>6, <1>7, <1>8, <1>9 DEF Next

-----------------------------------------------------------------------------
\* The card's inductive invariant, whatever the user presses and when.
THEOREM CardInvariant == Spec => []Inv
  BY InitInv, InvStep, PTL DEF Spec

\* The card, the loads and the writes have their types, however answers of
\* fetchDetails and of the writes overtake each other.
THEOREM CardTypes == Spec => []TypeOK
  <1>1. ASSUME Inv PROVE TypeOK
    BY <1>1 DEF Inv, Base, Types, InFlight, TypeOK, Card, Loading, Writing
  <1> QED
    BY <1>1, CardInvariant, PTL

\* A loader turns only while the latest load runs, and buttons are blocked by
\* busyEntityId only while a write, or the reload of the list after it, does.
THEOREM BlockedOnlyWhileAwaited == Spec => []BlockedIsAwaited
  <1>1. Inv => BlockedIsAwaited
    BY DEF Inv, Steady
  <1> QED
    BY <1>1, CardInvariant, PTL

\* detailsRequestIdRef and the abort are enough for loads, and the number a save
\* asks its versions with for versions: only the answer of a save, applied by
\* handleUpdate or handleSaveHistoricalAsNew after another profile was selected,
\* makes the card show what is not of the selected profile, until the next load.
THEOREM CardShowsTheSelected == Spec => []ShownUnlessStrayed
  <1>1. ASSUME Inv PROVE ShownUnlessStrayed
    BY <1>1 DEF Inv, Shown, VersionsOfSelected, CardOfSelected, Arrived, ShownIsSelected,
                ShownUnlessStrayed
  <1> QED
    BY <1>1, CardInvariant, PTL

\* The document that handleSaveHistoricalAsNew saves is the version named on
\* screen, and each number in versionDetailsByNum stands for its version, for
\* any user; of the selected profile unless a save's answer strayed.
THEOREM HistoryIsNamedRight == Spec => []HistoryIsTheViewed
  <1>1. ASSUME Inv PROVE HistoryIsTheViewed
    BY <1>1 DEF Inv, Steady, VersionsNumbered, Shown, CardOfSelected, Arrived,
                HistoryIsTheViewed
  <1> QED
    BY <1>1, CardInvariant, PTL
=============================================================================
