----------------------- MODULE EntityTypesWidgetProofs -----------------------
(***************************************************************************)
(* Theorems about EntityTypesWidget, for any families, bounds and numbers   *)
(* of requests in flight.                                                   *)
(***************************************************************************)
EXTENDS EntityTypesWidget, TLAPS

USE WidgetAssumption

-----------------------------------------------------------------------------
\* The inductive invariant.
Acting == Write \cup {"page", "reload"}
OfCard == Acting \cup {"detail"}
Kept == {"detail", "page", "reload"} \cup Upgrade

Bounded ==
    /\ \A f \in Families : version[f] \in 0 .. MaxVersion[f]
    /\ \A f \in Families : published[f] \in 0 .. MaxRevisions[f]

\* A request of a card is for a family; reads and upgrades go with their card; a
\* save names the version of the draft it sends.
Named(x) ==
    /\ x.kind \in OfCard => x.family \in Families
    /\ x.kind \in Kept => x.mounted
    /\ x.kind = "save" => x.draft.version = x.if
\* While the list loads there is no card that waits for a request.
Unmounted ==
    listLoading =>
        /\ card.tab = "draft"
        /\ \A r \in Requests : request[r].kind \in OfCard => ~request[r].mounted
Applied == card.detail = NoDraft \/ card.draft = card.detail
LatestDetail ==
    \A r \in Requests :
        request[r].kind = "detail" /\ r = card.latest /\ selected # NoFamily =>
            request[r].family = selected
DialogAlone == createOpened => card.dialog = "none"

Types == TypeOK /\ Bounded /\ \A r \in Requests : Named(request[r])
Steady == Unmounted /\ Applied /\ LatestDetail /\ DialogAlone
Right == ShownUnlessStrayed /\ RowsUnlessStrayed
Inv == Types /\ Steady /\ Right

-----------------------------------------------------------------------------
\* Numbers of versions and revisions, and what stands for nothing.
LEMMA Numbers ==
  /\ 0 \in Version /\ 0 \in Revisions /\ NoFamily \in Family /\ NoDraft \in Draft
  /\ NoDraft.of = NoFamily
  /\ \A f \in Families : 0 .. MaxVersion[f] \subseteq Version
  /\ \A f \in Families : 0 .. MaxRevisions[f] \subseteq Revisions
  BY DEF Version, Revisions, Family, Draft, NoDraft

\* A fresh card and a free name.
LEMMA Blank ==
  /\ Fresh \in Card /\ Fresh.tab = "draft" /\ Fresh.dialog = "none"
  /\ Fresh.detail = NoDraft /\ Fresh.draft = NoDraft /\ Fresh.latest = NoName
  /\ None \in Request /\ None.kind = "none" /\ None.family = NoFamily /\ None.mounted
  BY Numbers DEF Fresh, None, Card, Request, Write

-----------------------------------------------------------------------------
\* New requests.
LEMMA NewRequests ==
  ASSUME NEW f \in Family, NEW b \in BOOLEAN
  PROVE  /\ Detail(f) \in Request /\ Detail(f).kind = "detail" /\ Detail(f).family = f
         /\ Detail(f).mounted
         /\ Page(f, b) \in Request /\ Page(f, b).kind = "page" /\ Page(f, b).family = f
         /\ Page(f, b).mounted
  <1> DEFINE d1 == [None EXCEPT !.kind = "detail"]
             d2 == [d1 EXCEPT !.family = f]
             p1 == [None EXCEPT !.kind = "page"]
             p2 == [p1 EXCEPT !.family = f]
             p3 == [p2 EXCEPT !.append = b]
  <1>1. Detail(f) = d2 /\ Page(f, b) = p3
    BY DEF Detail, Page
  <1> HIDE DEF d1, d2, p1, p2, p3
  <1>2. d1 \in Request /\ d1.kind = "detail" /\ d1.mounted
    BY Blank DEF Request, d1
  <1>3. d2 \in Request /\ d2.kind = "detail" /\ d2.mounted /\ d2.family = f
    BY <1>2 DEF Request, d2
  <1>4. p1 \in Request /\ p1.kind = "page" /\ p1.mounted
    BY Blank DEF Request, p1
  <1>5. p2 \in Request /\ p2.kind = "page" /\ p2.mounted /\ p2.family = f
    BY <1>4 DEF Request, p2
  <1>6. p3 \in Request /\ p3.kind = "page" /\ p3.mounted /\ p3.family = f
    BY <1>5 DEF Request, p3
  <1> QED
    BY <1>1, <1>3, <1>6

\* What a card asks the server to change.
Asked(rec, k, f) == [rec EXCEPT !.kind = k, !.family = f]
\* The request that is sent is the one that was asked for.
LEMMA SentRequest ==
  ASSUME NEW rec \in Request, NEW k \in Write \cup {"reload"}, NEW f \in Family
  PROVE  LET x == Asked(rec, k, f)
         IN  /\ x \in Request /\ x.kind = k /\ x.family = f /\ (rec.mounted => x.mounted)
             /\ x.draft = rec.draft /\ x.if = rec.if /\ x.names = rec.names
  <1> DEFINE x1 == [rec EXCEPT !.kind = k]
             x2 == [x1 EXCEPT !.family = f]
  <1>1. Asked(rec, k, f) = x2
    BY DEF Asked
  <1> HIDE DEF x1, x2
  <1>2. /\ x1 \in Request /\ x1.kind = k /\ (rec.mounted => x1.mounted)
        /\ x1.draft = rec.draft /\ x1.if = rec.if /\ x1.names = rec.names
    BY DEF Request, x1
  <1>3. /\ x2 \in Request /\ x2.kind = k /\ (rec.mounted => x2.mounted) /\ x2.family = f
        /\ x2.draft = rec.draft /\ x2.if = rec.if /\ x2.names = rec.names
    BY <1>2 DEF Request, x2
  <1> QED
    BY <1>1, <1>3

\* The requests that outlive their card.
LEMMA OrphanedFacts ==
  ASSUME request \in [Requests -> Request]
  PROVE  /\ Orphaned \in [Requests -> Request]
         /\ \A q \in Requests :
               \/ Orphaned[q] = None
               \/ Orphaned[q] = request[q] /\ request[q].kind \notin OfCard
               \/ /\ request[q].kind \in Write \ Upgrade /\ Orphaned[q].kind = request[q].kind
                  /\ Orphaned[q].family = request[q].family /\ ~Orphaned[q].mounted
                  /\ Orphaned[q].draft = request[q].draft /\ Orphaned[q].if = request[q].if
  <1>1. ASSUME NEW q \in Requests
        PROVE  LET o == [request[q] EXCEPT !.mounted = FALSE]
               IN  /\ o \in Request /\ o.kind = request[q].kind /\ ~o.mounted
                   /\ o.family = request[q].family
                   /\ o.draft = request[q].draft /\ o.if = request[q].if
    BY DEF Request
  <1> QED
    BY <1>1, Blank DEF Orphaned, OfCard, Acting, Write, Upgrade

-----------------------------------------------------------------------------
\* What the handlers leave alone in a card.
SameView(c, d) ==
    /\ d.detail = c.detail /\ d.draft = c.draft /\ d.latest = c.latest
    /\ d.loading = c.loading /\ d.failed = c.failed
    /\ d.revisionsOf = c.revisionsOf /\ d.revisionsLoading = c.revisionsLoading
    /\ "draft" \in c.strayed => "draft" \in d.strayed
SameChoice(c, d) ==
    /\ d.tab = c.tab /\ d.rows = c.rows /\ d.picked = c.picked
    /\ "rows" \in c.strayed => "rows" \in d.strayed
Unpicked(c) == c.rows = {} /\ c.picked = {}

\* loadFamilyDetail shows a loader for the view.
LEMMA LoadingFacts ==
  ASSUME NEW c \in Card, NEW r \in Requests
  PROVE  /\ Loading(c, r) \in Card /\ Loading(c, r).latest = r
         /\ Loading(c, r).loading = TRUE
         /\ Loading(c, r).detail = c.detail /\ Loading(c, r).draft = c.draft
         /\ Loading(c, r).dialog = c.dialog /\ SameChoice(c, Loading(c, r))
  <1> DEFINE c1 == [c EXCEPT !.latest = r]
             c2 == [c1 EXCEPT !.loading = TRUE]
             c3 == [c2 EXCEPT !.failed = FALSE]
             c4 == [c3 EXCEPT !.revisionsOf = NoFamily]
             c5 == [c4 EXCEPT !.revisions = 0]
             c6 == [c5 EXCEPT !.revisionsLoading = TRUE]
             Same(d) == d.detail = c.detail /\ d.draft = c.draft /\ d.dialog = c.dialog
  <1>1. Loading(c, r) = c6
    BY DEF Loading
  <1> HIDE DEF c1, c2, c3, c4, c5, c6
  <1>2. c1 \in Card /\ c1.latest = r /\ Same(c1) /\ SameChoice(c, c1)
    BY DEF Card, c1, SameChoice
  <1>3. c2 \in Card /\ c2.latest = r /\ c2.loading = TRUE /\ Same(c2) /\ SameChoice(c, c2)
    BY <1>2 DEF Card, c2, SameChoice
  <1>4. c3 \in Card /\ c3.latest = r /\ c3.loading = TRUE /\ Same(c3) /\ SameChoice(c, c3)
    BY <1>3 DEF Card, c3, SameChoice
  <1>5. c4 \in Card /\ c4.latest = r /\ c4.loading = TRUE /\ Same(c4) /\ SameChoice(c, c4)
    BY <1>4, Numbers DEF Card, c4, SameChoice
  <1>6. c5 \in Card /\ c5.latest = r /\ c5.loading = TRUE /\ Same(c5) /\ SameChoice(c, c5)
    BY <1>5, Numbers DEF Card, c5, SameChoice
  <1>7. c6 \in Card /\ c6.latest = r /\ c6.loading = TRUE /\ Same(c6) /\ SameChoice(c, c6)
    BY <1>6 DEF Card, c6, SameChoice
  <1> QED
    BY <1>1, <1>7

\* The upgrade tab forgets what was listed and picked.
LEMMA ClearedFacts ==
  ASSUME NEW c \in Card
  PROVE  /\ Cleared(c) \in Card /\ Unpicked(Cleared(c)) /\ SameView(c, Cleared(c))
         /\ Cleared(c).tab = c.tab /\ Cleared(c).dialog = c.dialog
  <1> DEFINE c1 == [c EXCEPT !.rows = {}]
             c2 == [c1 EXCEPT !.picked = {}]
             c3 == [c2 EXCEPT !.paging = @ \cup {"first"}]
             c4 == [c3 EXCEPT !.strayed = @ \ {"rows"}]
             Same(d) == d.tab = c.tab /\ d.dialog = c.dialog
  <1>1. Cleared(c) = c4
    BY DEF Cleared
  <1> HIDE DEF c1, c2, c3, c4
  <1>2. c1 \in Card /\ c1.rows = {} /\ Same(c1) /\ SameView(c, c1)
    BY DEF Card, c1, SameView
  <1>3. c2 \in Card /\ Unpicked(c2) /\ Same(c2) /\ SameView(c, c2)
    BY <1>2 DEF Card, c2, SameView, Unpicked
  <1>4. c2.paging \cup {"first"} \in SUBSET {"first", "more"}
    BY <1>3 DEF Card
  <1>5. c3 \in Card /\ Unpicked(c3) /\ Same(c3) /\ SameView(c, c3)
    BY <1>3, <1>4 DEF Card, c3, SameView, Unpicked
  <1>6. /\ c3.strayed \ {"rows"} \in SUBSET {"draft", "rows"}
        /\ "draft" \in c3.strayed => "draft" \in c3.strayed \ {"rows"}
    BY <1>5 DEF Card
  <1>7. c4 \in Card /\ Unpicked(c4) /\ Same(c4) /\ SameView(c, c4)
    BY <1>5, <1>6 DEF Card, c4, SameView, Unpicked
  <1> QED
    BY <1>1, <1>7

\* A family without a selection leaves the card empty.
LEMMA DeselectedFacts ==
  ASSUME NEW c \in Card
  PROVE  LET d == [c EXCEPT !.detail = NoDraft, !.draft = NoDraft, !.rows = {},
                            !.picked = {}, !.revisionsOf = NoFamily,
                            !.revisions = 0, !.tab = "draft"]
         IN  d \in Card /\ d.tab = "draft" /\ d.detail = NoDraft /\ d.dialog = c.dialog
  <1> DEFINE c1 == [c EXCEPT !.detail = NoDraft]
             c2 == [c1 EXCEPT !.draft = NoDraft]
             c3 == [c2 EXCEPT !.rows = {}]
             c4 == [c3 EXCEPT !.picked = {}]
             c5 == [c4 EXCEPT !.revisionsOf = NoFamily]
             c6 == [c5 EXCEPT !.revisions = 0]
             c7 == [c6 EXCEPT !.tab = "draft"]
             d == [c EXCEPT !.detail = NoDraft, !.draft = NoDraft, !.rows = {},
                            !.picked = {}, !.revisionsOf = NoFamily,
                            !.revisions = 0, !.tab = "draft"]
             Same(b) == b.detail = NoDraft /\ b.dialog = c.dialog
  <1>1. d = c7
    OBVIOUS
  <1> HIDE DEF c1, c2, c3, c4, c5, c6, c7, d
  <1>2. c1 \in Card /\ Same(c1)
    BY Numbers DEF Card, c1
  <1>3. c2 \in Card /\ Same(c2)
    BY <1>2, Numbers DEF Card, c2
  <1>4. c3 \in Card /\ Same(c3)
    BY <1>3 DEF Card, c3
  <1>5. c4 \in Card /\ Same(c4)
    BY <1>4 DEF Card, c4
  <1>6. c5 \in Card /\ Same(c5)
    BY <1>5, Numbers DEF Card, c5
  <1>7. c6 \in Card /\ Same(c6)
    BY <1>6, Numbers DEF Card, c6
  <1>8. c7 \in Card /\ Same(c7) /\ c7.tab = "draft"
    BY <1>7 DEF Card, c7
  <1>9. d \in Card /\ d.tab = "draft" /\ d.detail = NoDraft /\ d.dialog = c.dialog
    BY <1>1, <1>8
  <1> QED
    BY <1>9 DEF d

\* A draft and its version come from the server together.
LEMMA AppliedFacts ==
  ASSUME TypeOK, NEW c \in Card, NEW f \in Families
  PROVE  LET d == applyFamilyDetail(c, f)
         IN  /\ d \in Card /\ d.detail = [of |-> f, version |-> version[f]] /\ d.draft = d.detail
             /\ d.latest = c.latest /\ d.loading = c.loading /\ d.failed = c.failed
             /\ d.revisionsLoading = c.revisionsLoading /\ d.strayed = c.strayed
             /\ SameChoice(c, d) /\ d.dialog = c.dialog
  <1> DEFINE x == [of |-> f, version |-> version[f]]
             c1 == [c EXCEPT !.detail = x]
             c2 == [c1 EXCEPT !.draft = x]
             c3 == [c2 EXCEPT !.conflict = FALSE]
             Same(d) == /\ d.latest = c.latest /\ d.loading = c.loading /\ d.failed = c.failed
                        /\ d.revisionsLoading = c.revisionsLoading /\ d.strayed = c.strayed
                        /\ SameChoice(c, d) /\ d.dialog = c.dialog
  <1>1. applyFamilyDetail(c, f) = c3
    BY DEF applyFamilyDetail
  <1>2. x \in Draft
    BY DEF TypeOK, Draft, Family
  <1> HIDE DEF x, c1, c2, c3
  <1>3. c1 \in Card /\ c1.detail = x /\ Same(c1)
    BY <1>2 DEF Card, c1, SameChoice
  <1>4. c2 \in Card /\ c2.detail = x /\ c2.draft = x /\ Same(c2)
    BY <1>2, <1>3 DEF Card, c2, SameChoice
  <1>5. c3 \in Card /\ c3.detail = x /\ c3.draft = x /\ Same(c3)
    BY <1>4 DEF Card, c3, SameChoice
  <1> QED
    BY <1>1, <1>5 DEF x

\* So do the revisions.
LEMMA RevisionsFacts ==
  ASSUME TypeOK, NEW c \in Card, NEW f \in Families
  PROVE  LET d == WithRevisions(c, f)
         IN  /\ d \in Card /\ d.revisionsOf = f /\ d.detail = c.detail /\ d.draft = c.draft
             /\ d.latest = c.latest /\ d.loading = c.loading /\ d.failed = c.failed
             /\ d.revisionsLoading = c.revisionsLoading /\ d.strayed = c.strayed
             /\ SameChoice(c, d) /\ d.dialog = c.dialog
  <1> DEFINE c1 == [c EXCEPT !.revisionsOf = f]
             c2 == [c1 EXCEPT !.revisions = published[f]]
             Same(d) == /\ d.revisionsOf = f /\ d.detail = c.detail /\ d.draft = c.draft
                        /\ d.latest = c.latest /\ d.loading = c.loading /\ d.failed = c.failed
                        /\ d.revisionsLoading = c.revisionsLoading /\ d.strayed = c.strayed
                        /\ SameChoice(c, d) /\ d.dialog = c.dialog
  <1>1. WithRevisions(c, f) = c2
    BY DEF WithRevisions
  <1>2. published[f] \in Revisions /\ f \in Family
    BY DEF TypeOK, Family
  <1> HIDE DEF c1, c2
  <1>3. c1 \in Card /\ Same(c1)
    BY <1>2 DEF Card, c1, SameChoice
  <1>4. c2 \in Card /\ Same(c2)
    BY <1>2, <1>3 DEF Card, c2, SameChoice
  <1> QED
    BY <1>1, <1>4

\* History is all that an answer for another family leaves behind by itself.
LEMMA StraysFacts ==
  ASSUME NEW c \in Card, NEW f \in Families, NEW part \in {"draft", "rows"}
  PROVE  LET d == Strays(c, f, part)
         IN  /\ d \in Card /\ SameView(c, d) /\ SameChoice(c, d) /\ d.dialog = c.dialog
             /\ f # selected => part \in d.strayed
  <1> DEFINE m == IF f = selected THEN c.strayed ELSE c.strayed \cup {part}
             d == [c EXCEPT !.strayed = m]
  <1>1. Strays(c, f, part) = d
    BY DEF Strays
  <1>2. m \in SUBSET {"draft", "rows"} /\ c.strayed \subseteq m /\ (f # selected => part \in m)
    BY DEF Card
  <1> HIDE DEF m
  <1>3. /\ d \in Card /\ SameView(c, d) /\ SameChoice(c, d) /\ d.dialog = c.dialog
        /\ d.strayed = m
    BY <1>2 DEF Card, SameView, SameChoice
  <1> QED
    BY <1>1, <1>2, <1>3

\* A write gives its button back.
LEMMA FreedFacts ==
  ASSUME card \in Card, NEW r \in Requests
  PROVE  /\ Freed(r) \in Card /\ SameView(card, Freed(r)) /\ SameChoice(card, Freed(r))
         /\ Freed(r).dialog = card.dialog
         /\ ~request[r].mounted => Freed(r) = card
  BY DEF Freed, Card, SameView, SameChoice

-----------------------------------------------------------------------------
\* The view and the choice are kept, and so is what they say of the selected family.
LEMMA ViewKept ==
  ASSUME UNCHANGED <<listLoading, selected>>
  PROVE  /\ SameView(card, card') /\ Applied => Applied'
         /\ SameView(card, card') /\ ShownUnlessStrayed => ShownUnlessStrayed'
         /\ SameChoice(card, card') /\ RowsUnlessStrayed => RowsUnlessStrayed'
  BY DEF SameView, SameChoice, Applied, ShownUnlessStrayed, ShownIsSelected, Panel,
         RowsUnlessStrayed

-----------------------------------------------------------------------------
\* A step of the card, its user or the server that leaves the list alone: what
\* it may ask for, and what must hold of the card after it.
Welcome(x) ==
    /\ Named(x) /\ x.kind # "detail"
    /\ listLoading /\ x.kind \in OfCard => ~x.mounted
Served ==
    /\ version \in [Families -> Version] /\ gone \subseteq Families
    /\ published \in [Families -> Revisions] /\ Bounded

\* A step of the card alone: what it must leave for the invariant to hold.
LEMMA CardStepKeeps ==
  ASSUME Inv, UNCHANGED <<listVars, createVars>>, Served',
         request' \in [Requests -> Request],
         \A q \in Requests : request'[q] = request[q] \/ Welcome(request'[q]),
         card' \in Card, card'.latest = card.latest, Applied',
         createOpened => card'.dialog = "none",
         listLoading => card'.tab = "draft",
         Right'
  PROVE  Inv'
  <1> USE DEF listVars, createVars
  <1>1. TypeOK' /\ Bounded'
    BY DEF Inv, Types, TypeOK, Served
  <1>2. \A q \in Requests : Named(request'[q])
    BY DEF Inv, Types, Welcome
  <1>3. Types'
    BY <1>1, <1>2 DEF Types, Named
  <1>4. Unmounted'
    BY DEF Inv, Steady, Unmounted, Welcome
  <1>5. LatestDetail'
    BY DEF Inv, Steady, LatestDetail, Welcome
  <1>6. DialogAlone'
    BY DEF DialogAlone
  <1> QED
    BY <1>3, <1>4, <1>5, <1>6 DEF Inv, Steady

\* A request ends and leaves the card's view and choice alone.
LEMMA FailedKeeps ==
  ASSUME Inv, NEW r \in Requests, NEW c \in Card, Failed(r, c), Served',
         SameView(card, c), SameChoice(card, c), c.dialog = card.dialog
  PROVE  Inv'
  <1>1. card' = c /\ request' = [request EXCEPT ![r] = None] /\ UNCHANGED <<listVars, createVars>>
    BY DEF Failed
  <1> USE DEF listVars, createVars
  <1>2. request' \in [Requests -> Request]
    BY <1>1, Blank DEF Inv, Types, TypeOK
  <1>3. Welcome(None)
    BY Blank DEF Welcome, Named, OfCard, Acting, Kept, Write, Upgrade
  <1>4. \A q \in Requests : request'[q] = request[q] \/ Welcome(request'[q])
    BY <1>1, <1>2, <1>3 DEF Inv, Types, TypeOK
  <1>5. Applied' /\ Right'
    BY <1>1, ViewKept DEF Inv, Steady, Right
  <1>6. /\ createOpened => card'.dialog = "none"
        /\ listLoading => card'.tab = "draft"
    BY <1>1 DEF Inv, Steady, DialogAlone, Unmounted, SameChoice
  <1>7. card' \in Card /\ card'.latest = card.latest
    BY <1>1 DEF SameView
  <1> QED
    BY <1>1, <1>2, <1>4, <1>5, <1>6, <1>7, CardStepKeeps

\* The card's write ends with an error, or its answer is lost.
LEMMA RefusedKeeps ==
  ASSUME Inv, NEW r \in Requests, Failed(r, Freed(r)), Served'
  PROVE  Inv'
  <1>1. card \in Card
    BY DEF Inv, Types, TypeOK
  <1> QED
    BY <1>1, FreedFacts, FailedKeeps

-----------------------------------------------------------------------------
\* What a press on the card can rely on.
LEMMA PressableFacts ==
  ASSUME Inv, Pressable
  PROVE  /\ selected \in Families /\ ~listLoading /\ ~createOpened
         /\ card.draft = card.detail
  BY DEF Pressable, Panel, Inv, Types, TypeOK, Family, Steady, Applied

\* A press that asks the server nothing.
LEMMA QuietKeeps ==
  ASSUME Inv, UNCHANGED <<serverVars, listVars, createVars, request>>, ~listLoading,
         card' \in Card, SameView(card, card'),
         createOpened => card'.dialog = "none",
         RowsUnlessStrayed'
  PROVE  Inv'
  <1> USE DEF serverVars, listVars, createVars
  <1>1. Served'
    BY DEF Served, Inv, Types, TypeOK, Bounded
  <1>2. Applied'
    BY ViewKept DEF Inv, Steady
  <1>3. Right'
    BY ViewKept DEF Inv, Right
  <1>4. request' \in [Requests -> Request] /\ card'.latest = card.latest
    BY DEF Inv, Types, TypeOK, SameView
  <1> QED
    BY <1>1, <1>2, <1>3, <1>4, CardStepKeeps

\* A press that asks one thing for the selected family.
LEMMA AskKeeps ==
  ASSUME Inv, Pressable \/ (~listLoading /\ selected \in Families),
         UNCHANGED <<serverVars, listVars, createVars>>,
         NEW r \in Requests, NEW x \in Request, request' = [request EXCEPT ![r] = x],
         x.kind \in Acting, x.family = selected, x.mounted,
         x.kind = "save" => x.draft.version = x.if,
         card' \in Card, SameView(card, card'),
         card'.dialog = card.dialog, RowsUnlessStrayed'
  PROVE  Inv'
  <1> USE DEF serverVars, listVars, createVars
  <1>1. Served'
    BY DEF Served, Inv, Types, TypeOK, Bounded
  <1>2. Applied'
    BY ViewKept DEF Inv, Steady
  <1>3. Right'
    BY ViewKept DEF Inv, Right
  <1>4. request' \in [Requests -> Request] /\ card'.latest = card.latest
    BY DEF Inv, Types, TypeOK, SameView
  <1>5. selected \in Families /\ ~listLoading
    BY PressableFacts
  <1>6. Welcome(x)
    BY <1>5 DEF Welcome, Named, Acting, Write, Upgrade
  <1>7. createOpened => card'.dialog = "none"
    BY DEF Inv, Steady, DialogAlone
  <1>8. \A q \in Requests : request'[q] = request[q] \/ Welcome(request'[q])
    BY <1>4, <1>6 DEF Inv, Types, TypeOK
  <1> QED
    BY <1>1, <1>2, <1>3, <1>4, <1>5, <1>7, <1>8, CardStepKeeps

-----------------------------------------------------------------------------
\* The upgrade tab asks for its first page.
LEMMA OpenTabKeeps ==
  ASSUME Inv, NEW tab \in {"draft", "revisions", "upgrade"}, OpenTab(tab)
  PROVE  Inv'
  <1>1. Pressable /\ UNCHANGED <<serverVars, listVars, createVars>>
    BY DEF OpenTab
  <1>2. card \in Card /\ request \in [Requests -> Request]
    BY DEF Inv, Types, TypeOK
  <1>3. CASE tab = "upgrade"
    <2> DEFINE c == [Cleared(card) EXCEPT !.tab = tab]
    <2>1. PICK r \in FreeName :
             /\ request' = [request EXCEPT ![r] = Page(selected, FALSE)] /\ card' = c
      BY <1>3 DEF OpenTab
    <2>2. r \in Requests /\ selected \in Families
      BY <1>1, PressableFacts DEF FreeName
    <2>3. /\ c \in Card /\ SameView(card, c) /\ c.dialog = card.dialog /\ Unpicked(c)
      BY <1>2, ClearedFacts DEF Card, SameView, Unpicked
    <2> HIDE DEF c
    <2>4. RowsUnlessStrayed'
      BY <2>1, <2>3 DEF RowsUnlessStrayed, Unpicked
    <2> DEFINE x == Page(selected, FALSE)
    <2>5. x \in Request /\ x.kind = "page" /\ x.family = selected /\ x.mounted
      BY <2>2, NewRequests DEF Family
    <2> HIDE DEF x
    <2>6. x.kind \in Acting
      BY <2>5 DEF Acting
    <2>7. request' = [request EXCEPT ![r] = x]
      BY <2>1 DEF x
    <2> QED
      BY <1>1, <2>1, <2>2, <2>3, <2>4, <2>5, <2>6, <2>7, AskKeeps
  <1>4. CASE tab # "upgrade"
    <2>1. card' = [card EXCEPT !.tab = tab] /\ UNCHANGED request
      BY <1>4 DEF OpenTab
    <2>2. card' \in Card /\ SameView(card, card') /\ card'.dialog = card.dialog /\ card'.tab = tab
      BY <1>2, <2>1 DEF Card, SameView
    <2>3. RowsUnlessStrayed'
      BY <1>4, <2>2 DEF RowsUnlessStrayed
    <2> QED
      BY <1>1, <2>1, <2>2, <2>3, PressableFacts, QuietKeeps
  <1> QED
    BY <1>3, <1>4

\* The button for more asks for the next page.
LEMMA LoadMoreKeeps == ASSUME Inv, LoadMore PROVE Inv'
  <1> DEFINE c == [card EXCEPT !.paging = @ \cup {"more"}]
             x == Page(selected, TRUE)
  <1>1. Pressable /\ UNCHANGED <<serverVars, listVars, createVars>> /\ card' = c
    BY DEF LoadMore
  <1>2. PICK r \in FreeName : request' = [request EXCEPT ![r] = x]
    BY DEF LoadMore
  <1>3. r \in Requests /\ selected \in Families /\ card \in Card
    BY <1>1, PressableFacts DEF FreeName, Inv, Types, TypeOK
  <1>4. c \in Card /\ SameView(card, c) /\ SameChoice(card, c) /\ c.dialog = card.dialog
    BY <1>3 DEF Card, SameView, SameChoice
  <1>5. x \in Request /\ x.kind = "page" /\ x.family = selected /\ x.mounted
    BY <1>3, NewRequests DEF Family
  <1> HIDE DEF c, x
  <1>6. x.kind \in Acting
    BY <1>5 DEF Acting
  <1>7. RowsUnlessStrayed'
    BY <1>1, <1>4, ViewKept DEF Inv, Right, listVars
  <1> QED
    BY <1>1, <1>2, <1>3, <1>4, <1>5, <1>6, <1>7, AskKeeps

\* Picking a profile asks for nothing.
LEMMA ToggleKeeps ==
  ASSUME Inv, NEW f \in Families, toggleEntitySelected(f)
  PROVE  Inv'
  <1> DEFINE p == IF f \in card.picked THEN card.picked \ {f} ELSE card.picked \cup {f}
  <1>1. /\ Pressable /\ f \in card.rows /\ card.tab = "upgrade"
        /\ card' = [card EXCEPT !.picked = p]
        /\ UNCHANGED <<serverVars, listVars, createVars, request>>
    BY DEF toggleEntitySelected
  <1>2. card \in Card /\ p \in SUBSET Families
    BY DEF Inv, Types, TypeOK, Card
  <1> HIDE DEF p
  <1>3. /\ card' \in Card /\ SameView(card, card') /\ card'.dialog = card.dialog
        /\ card'.picked = p /\ card'.rows = card.rows /\ card'.tab = card.tab
        /\ card'.strayed = card.strayed
    BY <1>1, <1>2 DEF Card, SameView
  <1>4. RowsUnlessStrayed'
    BY <1>1, <1>3 DEF Inv, Right, RowsUnlessStrayed, listVars, p
  <1> QED
    BY <1>1, <1>3, <1>4, PressableFacts, QuietKeeps

\* Opening or closing a dialog asks for nothing.
LEMMA DialogKeeps ==
  ASSUME Inv, NEW dialog \in {"none", "patch", "delete"}, Dialog(dialog)
  PROVE  Inv'
  <1>1. /\ dialog # card.dialog
        /\ IF card.dialog = "none" THEN Pressable ELSE ~listLoading /\ dialog = "none"
        /\ card' = [card EXCEPT !.dialog = dialog]
        /\ UNCHANGED <<serverVars, listVars, createVars, request>>
    BY DEF Dialog
  <1>2. card \in Card
    BY DEF Inv, Types, TypeOK
  <1>3. /\ card' \in Card /\ SameView(card, card') /\ SameChoice(card, card')
        /\ card'.dialog = dialog
    BY <1>1, <1>2 DEF Card, SameView, SameChoice
  <1>4. ~listLoading /\ (createOpened => card'.dialog = "none")
    BY <1>1, <1>3, PressableFacts
  <1>5. RowsUnlessStrayed'
    BY <1>1, <1>3, ViewKept DEF Inv, Right, listVars
  <1> QED
    BY <1>1, <1>3, <1>4, <1>5, QuietKeeps

\* A write or a reload of the card starts.
LEMMA SendKeeps ==
  ASSUME Inv, Pressable \/ (~listLoading /\ selected \in Families),
         NEW k \in Write \cup {"reload"}, NEW rec \in Request, rec.mounted, Send(k, rec),
         k = "save" => rec.draft.version = rec.if
  PROVE  Inv'
  <1> DEFINE x == Asked(rec, k, selected)
             c1 == [card EXCEPT !.busy = k]
             c2 == [c1 EXCEPT !.conflict = @ /\ k # "save"]
  <1>1. /\ card' = c2 /\ UNCHANGED <<serverVars, listVars, createVars>>
    BY DEF Send
  <1>2. PICK r \in FreeName : request' = [request EXCEPT ![r] = x]
    BY DEF Send, Asked
  <1>3. r \in Requests /\ selected \in Family /\ card \in Card
    BY DEF FreeName, Inv, Types, TypeOK
  <1>4. /\ x \in Request /\ x.kind = k /\ x.family = selected /\ x.mounted
        /\ x.draft = rec.draft /\ x.if = rec.if
    BY <1>3, SentRequest
  <1> HIDE DEF x, c1, c2
  <1>5. c1 \in Card /\ SameView(card, c1) /\ SameChoice(card, c1) /\ c1.dialog = card.dialog
    BY <1>3 DEF Card, SameView, SameChoice, c1
  <1>6. c2 \in Card /\ SameView(card, c2) /\ SameChoice(card, c2) /\ c2.dialog = card.dialog
    BY <1>5 DEF Card, SameView, SameChoice, c2
  <1>7. x.kind = "save" => x.draft.version = x.if
    BY <1>4
  <1>8. x.kind \in Acting
    BY <1>4 DEF Acting
  <1>9. RowsUnlessStrayed'
    BY <1>1, <1>6, ViewKept DEF Inv, Right, listVars
  <1> QED
    BY <1>1, <1>2, <1>3, <1>4, <1>6, <1>7, <1>8, <1>9, AskKeeps

\* A draft is sent with the version it was read with.
LEMMA SaveKeeps == ASSUME Inv, handleSaveDraft PROVE Inv'
  <1> DEFINE r1 == [None EXCEPT !.draft = card.draft]
             r2 == [r1 EXCEPT !.if = card.detail.version]
  <1>1. Pressable /\ Send("save", r2)
    BY DEF handleSaveDraft
  <1>2. card.draft \in Draft /\ card.detail \in Draft /\ card.detail.version \in Version
    BY DEF Inv, Types, TypeOK, Card, Draft
  <1> HIDE DEF r1, r2
  <1>3. r1 \in Request /\ r1.mounted /\ r1.draft = card.draft
    BY <1>2, Blank DEF Request, r1
  <1>4. /\ r2 \in Request /\ r2.mounted /\ r2.draft = card.draft
        /\ r2.if = card.detail.version
    BY <1>2, <1>3 DEF Request, r2
  <1>5. r2.draft.version = r2.if
    BY <1>1, <1>4, PressableFacts
  <1>6. "save" \in Write \cup {"reload"}
    BY DEF Write
  <1> QED
    BY <1>1, <1>4, <1>5, <1>6, SendKeeps

\* Profiles are sent to be upgraded, whichever are listed or picked.
LEMMA UpgradeKeeps ==
  ASSUME Inv, \/ \E f \in Families : handleSingleUpgrade(f)
              \/ handleBatchUpgradeSelected \/ handleBatchUpgradeBehind
  PROVE  Inv'
  <1>1. ASSUME NEW n \in SUBSET Families
        PROVE  LET rec == [None EXCEPT !.names = n] IN rec \in Request /\ rec.mounted
    BY Blank DEF Request
  <1>2. PICK k \in Upgrade, rec \in Request : Pressable /\ Send(k, rec) /\ rec.mounted
    <2>1. CASE \E f \in Families : handleSingleUpgrade(f)
      <3>1. PICK f \in Families : handleSingleUpgrade(f)
        BY <2>1
      <3>2. Pressable /\ Send("single", [None EXCEPT !.names = {f}])
        BY <3>1 DEF handleSingleUpgrade, HasTarget
      <3>3. "single" \in Upgrade /\ {f} \in SUBSET Families
        BY DEF Upgrade
      <3> QED
        BY <1>1, <3>2, <3>3
    <2>2. CASE handleBatchUpgradeSelected
      <3>1. Pressable /\ Send("batch", [None EXCEPT !.names = card.picked])
        BY <2>2 DEF handleBatchUpgradeSelected, HasTarget
      <3>2. "batch" \in Upgrade /\ card.picked \in SUBSET Families
        BY DEF Upgrade, Inv, Types, TypeOK, Card
      <3> QED
        BY <1>1, <3>1, <3>2
    <2>3. CASE handleBatchUpgradeBehind
      <3>1. Pressable /\ Send("behind", None)
        BY <2>3 DEF handleBatchUpgradeBehind, HasTarget
      <3>2. "behind" \in Upgrade
        BY DEF Upgrade
      <3> QED
        BY <3>1, <3>2, Blank
    <2> QED
      BY <2>1, <2>2, <2>3
  <1>3. k \in Write \cup {"reload"} /\ k # "save"
    BY DEF Write, Upgrade
  <1> QED
    BY <1>2, <1>3, SendKeeps

\* The other writes are of the family shown.
LEMMA OtherSendsKeep ==
  ASSUME Inv, handlePublish \/ handleReloadDraftFromServer \/ handlePatchFamily \/ handleDeleteFamily
  PROVE  Inv'
  <1>1. PICK k \in {"publish", "reload", "patch", "delete"} :
           /\ \/ Pressable
              \/ ~listLoading /\ selected # NoFamily
           /\ Send(k, None)
    BY DEF handlePublish, handleReloadDraftFromServer, handlePatchFamily, handleDeleteFamily
  <1>2. Pressable \/ (~listLoading /\ selected \in Families)
    BY <1>1 DEF Inv, Types, TypeOK, Family
  <1>3. k \in Write \cup {"reload"} /\ k # "save"
    BY DEF Write
  <1> QED
    BY <1>1, <1>2, <1>3, Blank, SendKeeps

-----------------------------------------------------------------------------
\* The list is asked for again: no card, and no request of one, is left.
LEMMA ReloadKeeps ==
  ASSUME Inv, NEW r \in Requests, NEW then \in Family, LoadFamilies(r, then), Served',
         selected' = selected \/ selected' = NoFamily,
         createOpened' \in BOOLEAN, createBusy' = createBusy
  PROVE  Inv'
  <1> DEFINE l1 == [None EXCEPT !.kind = "list"]
             l2 == [l1 EXCEPT !.family = then]
  <1>1. /\ request' = [Orphaned EXCEPT ![r] = l2]
        /\ latestList' = r /\ listLoading' = TRUE /\ card' = Fresh /\ UNCHANGED families
    BY DEF LoadFamilies
  <1> HIDE DEF l1, l2
  <1>2. l1 \in Request /\ l1.kind = "list"
    BY Blank DEF Request, l1
  <1>3. l2 \in Request /\ l2.kind = "list" /\ l2.family = then
    BY <1>2 DEF Request, l2
  <1>4. /\ request' \in [Requests -> Request] /\ request'[r] = l2
        /\ \A q \in Requests \ {r} : request'[q] = Orphaned[q]
    BY <1>1, <1>3, OrphanedFacts DEF Inv, Types, TypeOK
  <1>5. TypeOK' /\ Bounded'
    BY <1>1, <1>4, Blank, Numbers DEF Inv, Types, TypeOK, Served
  <1>6. \A q \in Requests :
           \/ request'[q] = None
           \/ q = r /\ request'[q] = l2
           \/ q # r /\ request'[q] = request[q] /\ request[q].kind \notin OfCard
           \/ /\ request[q].kind \in Write \ Upgrade /\ request'[q].kind = request[q].kind
              /\ request'[q].family = request[q].family /\ ~request'[q].mounted
              /\ request'[q].draft = request[q].draft /\ request'[q].if = request[q].if
    BY <1>4, OrphanedFacts DEF Inv, Types, TypeOK
  <1>7. \A q \in Requests : /\ Named(request'[q])
                            /\ request'[q].kind \in OfCard => ~request'[q].mounted
                            /\ request'[q].kind # "detail"
    <2> SUFFICES ASSUME NEW q \in Requests
                 PROVE  /\ Named(request'[q])
                        /\ request'[q].kind \in OfCard => ~request'[q].mounted
                        /\ request'[q].kind # "detail"
      OBVIOUS
    <2>1. Named(request[q])
      BY DEF Inv, Types
    <2> QED
      BY <1>3, <1>6, <2>1, Blank DEF Named, OfCard, Acting, Kept, Write, Upgrade
  <1>8. Types'
    BY <1>5, <1>7 DEF Types, Named
  <1>9. Steady'
    BY <1>1, <1>7, Blank DEF Steady, Unmounted, Applied, LatestDetail, DialogAlone
  <1>10. Right'
    BY <1>1, Blank DEF Right, ShownUnlessStrayed, ShownIsSelected, Panel, RowsUnlessStrayed
  <1> QED
    BY <1>8, <1>9, <1>10 DEF Inv

\* A change that succeeded.
LEMMA CatalogReloadKeeps ==
  ASSUME Inv, NEW r \in Requests, CatalogReload(r), Served'
  PROVE  Inv'
  <1>1. /\ LoadFamilies(r, NoFamily) /\ NoFamily \in Family
        /\ UNCHANGED <<selected, createOpened, createBusy>> /\ createOpened' \in BOOLEAN
    BY DEF CatalogReload, createVars, Family, Inv, Types, TypeOK
  <1> QED
    BY <1>1, ReloadKeeps

\* The server's state stays in its bounds when it is left alone.
LEMMA ServedKept ==
  ASSUME Inv, UNCHANGED serverVars
  PROVE  Served'
  BY DEF Served, Inv, Types, TypeOK, Bounded, serverVars

\* The list is asked for again by the host,
LEMMA RerunKeeps == ASSUME Inv, Rerun PROVE Inv'
  <1>1. PICK r \in FreeName : LoadFamilies(r, NoFamily)
    BY DEF Rerun
  <1>2. /\ r \in Requests /\ NoFamily \in Family /\ Served' /\ selected' = selected
        /\ createOpened' = createOpened /\ createBusy' = createBusy /\ createOpened' \in BOOLEAN
    BY ServedKept DEF Rerun, FreeName, Family, createVars, Inv, Types, TypeOK
  <1> QED
    BY <1>1, <1>2, ReloadKeeps

-----------------------------------------------------------------------------
\* Another family is selected, or none, with its card mounted.
LEMMA SelectionKeeps ==
  ASSUME Inv, ~listLoading, NEW r \in Requests, NEW f \in Family, SelectedBecomes(r, f),
         UNCHANGED <<serverVars, listLoading, latestList, createOpened>>,
         families' \subseteq Families,
         createBusy' \in BOOLEAN
  PROVE  Inv'
  <1> DEFINE c0 == [card EXCEPT !.detail = NoDraft, !.draft = NoDraft, !.rows = {},
                            !.picked = {}, !.revisionsOf = NoFamily,
                            !.revisions = 0, !.tab = "draft"]
             cl == Loading(card, r)
             c1 == [Cleared(cl) EXCEPT !.tab = "draft"]
             c2 == [cl EXCEPT !.tab = "draft"]
             d == Detail(f)
             p == Page(f, FALSE)
  <1>1. selected' = f
    BY DEF SelectedBecomes
  <1>2. card \in Card /\ request \in [Requests -> Request]
    BY DEF Inv, Types, TypeOK
  <1>3. /\ c0 \in Card /\ c0.tab = "draft" /\ c0.detail = NoDraft /\ c0.dialog = card.dialog
    BY <1>2, DeselectedFacts
  <1>4. /\ cl \in Card /\ cl.latest = r /\ cl.loading = TRUE /\ cl.detail = card.detail
        /\ cl.draft = card.draft /\ cl.dialog = card.dialog
    BY <1>2, LoadingFacts
  <1> DEFINE Ready(c) == /\ c \in Card /\ c.tab = "draft" /\ c.latest = r /\ c.loading = TRUE
                         /\ c.detail = card.detail /\ c.draft = card.draft
                         /\ c.dialog = card.dialog
  <1> HIDE DEF c0, cl
  <1>5. Ready(c1) /\ Ready(c2)
    BY <1>4, ClearedFacts DEF Card, SameView
  <1>6. /\ d \in Request /\ d.kind = "detail" /\ d.family = f /\ d.mounted
        /\ p \in Request /\ p.kind = "page" /\ p.family = f /\ p.mounted
    BY NewRequests
  <1>7. \/ f = NoFamily /\ card' = c0 /\ request' = [request EXCEPT ![r] = None]
        \/ /\ f # NoFamily /\ card' = c1
           /\ \E n \in Requests \ {r} :
                 request' = [request EXCEPT ![r] = d, ![n] = p]
        \/ f # NoFamily /\ card' = c2 /\ request' = [request EXCEPT ![r] = d]
    BY DEF SelectedBecomes, c0, cl
  <1> HIDE DEF c1, c2, d, p
  <1>8. /\ request' \in [Requests -> Request]
        /\ \A q \in Requests :
              \/ q # r /\ request'[q] = request[q]
              \/ q = r /\ f = NoFamily /\ request'[q] = None
              \/ q = r /\ f # NoFamily /\ request'[q] = d
              \/ q # r /\ f # NoFamily /\ request'[q] = p
    <2>1. CASE f = NoFamily /\ request' = [request EXCEPT ![r] = None]
      BY <1>2, <2>1, Blank
    <2>2. CASE f # NoFamily /\ request' = [request EXCEPT ![r] = d]
      BY <1>2, <1>6, <2>2
    <2>3. CASE f # NoFamily /\ \E n \in Requests \ {r} :
                   request' = [request EXCEPT ![r] = d, ![n] = p]
      <3>1. PICK n \in Requests \ {r} : request' = [request EXCEPT ![r] = d, ![n] = p]
        BY <2>3
      <3> DEFINE q1 == [request EXCEPT ![r] = d]
                 q2 == [q1 EXCEPT ![n] = p]
      <3>2. request' = q2
        BY <3>1
      <3>3. q1 \in [Requests -> Request] /\ q1[r] = d /\ \A q \in Requests \ {r} : q1[q] = request[q]
        BY <1>2, <1>6
      <3> HIDE DEF q1
      <3>4. /\ q2 \in [Requests -> Request] /\ q2[n] = p
            /\ \A q \in Requests \ {n} : q2[q] = q1[q]
        BY <1>6, <3>3
      <3> HIDE DEF q2
      <3> QED
        BY <2>3, <3>2, <3>3, <3>4
    <2> QED
      BY <1>7, <2>1, <2>2, <2>3
  <1>9. /\ card' \in Card /\ card'.tab = "draft" /\ card'.dialog = card.dialog
        /\ \/ f = NoFamily /\ card'.detail = NoDraft
           \/ /\ f # NoFamily /\ card'.latest = r /\ card'.loading = TRUE
              /\ card'.detail = card.detail /\ card'.draft = card.draft
    BY <1>3, <1>5, <1>7
  <1>10. TypeOK' /\ Bounded'
    BY <1>1, <1>8, <1>9 DEF Inv, Types, TypeOK, Bounded, serverVars
  <1>11. f # NoFamily => f \in Families
    BY DEF Family
  <1>12. \A q \in Requests : Named(request'[q])
    BY <1>6, <1>8, <1>11, Blank DEF Inv, Types, Named, OfCard, Acting, Kept, Write, Upgrade
  <1>13. Types'
    BY <1>10, <1>12 DEF Types, Named
  <1>14. Steady'
    <2>1. LatestDetail'
      BY <1>1, <1>6, <1>8, <1>9 DEF LatestDetail
    <2>2. Unmounted' /\ Applied' /\ DialogAlone'
      BY <1>9 DEF Inv, Steady, Unmounted, Applied, DialogAlone
    <2> QED
      BY <2>1, <2>2 DEF Steady
  <1>15. Right'
    BY <1>1, <1>9 DEF Right, ShownUnlessStrayed, ShownIsSelected, Panel, RowsUnlessStrayed
  <1> QED
    BY <1>13, <1>14, <1>15 DEF Inv

\* A row is pressed.
LEMMA SelectKeeps ==
  ASSUME Inv, NEW f \in Family, Select(f)
  PROVE  Inv'
  <1>1. PICK r \in FreeName : SelectedBecomes(r, f)
    BY DEF Select
  <1>2. /\ r \in Requests /\ ~listLoading
        /\ UNCHANGED <<serverVars, listLoading, latestList, createOpened>>
        /\ createBusy' = createBusy /\ families' \subseteq Families
    BY DEF Select, FreeName, createVars, Inv, Types, TypeOK
  <1>3. createBusy' \in BOOLEAN
    BY <1>2 DEF Inv, Types, TypeOK
  <1> QED
    BY <1>1, <1>2, <1>3, SelectionKeeps

\* The list arrives while a loader stands for the widget.
LEMMA ListArrivesKeeps ==
  ASSUME Inv, listLoading, NEW r \in Requests, request[r].kind = "list",
         NEW x \in Request, request' = [request EXCEPT ![r] = x],
         UNCHANGED <<serverVars, latestList, createOpened>>,
         families' \subseteq Families, listLoading' \in BOOLEAN, selected' \in Family,
         createBusy' \in BOOLEAN,
         card' \in Card, card'.tab = "draft", card'.dialog = card.dialog \/ card'.dialog = "none",
         Applied',
         \/ x = None /\ (listLoading' \/ selected' = NoFamily)
         \/ /\ x = Detail(selected') /\ selected' # NoFamily /\ ~listLoading'
            /\ card'.latest = r /\ card'.loading = TRUE
  PROVE  Inv'
  <1>1. \/ x = None
        \/ x.kind = "detail" /\ x.family = selected' /\ x.mounted /\ selected' \in Families
    BY NewRequests DEF Family
  <1>2. /\ request' \in [Requests -> Request] /\ request'[r] = x
        /\ \A q \in Requests \ {r} : request'[q] = request[q]
    BY DEF Inv, Types, TypeOK
  <1>3. TypeOK' /\ Bounded'
    BY <1>2 DEF Inv, Types, TypeOK, Bounded, serverVars
  <1>4. \A q \in Requests : Named(request'[q])
    BY <1>1, <1>2, Blank DEF Inv, Types, Named, OfCard, Acting, Kept, Write, Upgrade
  <1>5. Types'
    BY <1>3, <1>4 DEF Types, Named
  <1>6. \A q \in Requests \ {r} : request'[q].kind # "detail"
    BY <1>2 DEF Inv, Types, Named, Kept, Steady, Unmounted, OfCard
  <1>7. Unmounted'
    BY <1>1, <1>2, Blank DEF Inv, Steady, Unmounted, OfCard, Acting, Write, Upgrade
  <1>8. LatestDetail'
    BY <1>1, <1>2, <1>6, Blank DEF LatestDetail
  <1>9. DialogAlone'
    BY DEF Inv, Steady, DialogAlone
  <1>10. Right'
    BY DEF Right, ShownUnlessStrayed, ShownIsSelected, Panel, RowsUnlessStrayed
  <1> QED
    BY <1>5, <1>7, <1>8, <1>9, <1>10 DEF Inv, Steady

\* The answer of listFamilies, with a card to mount, to keep or to select for.
LEMMA FamiliesArriveKeeps ==
  ASSUME Inv, NEW r \in Requests, FamiliesArrive(r)
  PROVE  Inv'
  <1> DEFINE then == request[r].family
             next == IF then = NoFamily THEN selected ELSE then
  <1>1. /\ request[r].kind = "list" /\ UNCHANGED <<serverVars, latestList, createOpened>>
        /\ families' \in {families, {f \in Families : version[f] > 0}}
        /\ listLoading' = (listLoading /\ r # latestList)
        /\ createBusy' = (createBusy /\ then = NoFamily)
    BY DEF FamiliesArrive, LoadingAfter
  <1>2. \/ /\ listLoading' \/ (~listLoading /\ next = selected)
           /\ selected' = next /\ request' = [request EXCEPT ![r] = None] /\ UNCHANGED card
        \/ /\ listLoading /\ ~listLoading' /\ next = NoFamily
           /\ selected' = next /\ request' = [request EXCEPT ![r] = None] /\ card' = Fresh
        \/ /\ listLoading /\ ~listLoading' /\ next # NoFamily
           /\ selected' = next /\ request' = [request EXCEPT ![r] = Detail(next)]
           /\ card' = Loading(Fresh, r)
        \/ /\ ~listLoading /\ next # selected /\ SelectedBecomes(r, next)
    BY DEF FamiliesArrive
  <1>3. /\ card \in Card /\ request \in [Requests -> Request] /\ next \in Family
        /\ families' \subseteq Families /\ listLoading' \in BOOLEAN /\ createBusy' \in BOOLEAN
    BY <1>1 DEF Inv, Types, TypeOK, Request
  <1> HIDE DEF next
  <1>4. CASE /\ listLoading' \/ (~listLoading /\ next = selected)
             /\ selected' = next /\ request' = [request EXCEPT ![r] = None] /\ UNCHANGED card
    <2>1. CASE listLoading'
      <3>1. listLoading /\ card.tab = "draft" /\ Applied'
        BY <1>1, <1>4, <2>1 DEF Inv, Steady, Unmounted, Applied
      <3> QED
        BY <1>1, <1>3, <1>4, <2>1, <3>1, Blank, ListArrivesKeeps
    <2>2. CASE ~listLoading' /\ ~listLoading /\ next = selected
      <3> USE DEF serverVars
      <3>1. /\ request' \in [Requests -> Request] /\ request'[r] = None
            /\ \A q \in Requests \ {r} : request'[q] = request[q]
        BY <1>3, <1>4, Blank
      <3>2. TypeOK' /\ Bounded'
        BY <1>1, <1>3, <1>4, <2>2, <3>1 DEF Inv, Types, TypeOK, Bounded
      <3>3. \A q \in Requests : Named(request'[q])
        BY <3>1, Blank DEF Inv, Types, Named, OfCard, Acting, Kept, Write, Upgrade
      <3>4. Types'
        BY <3>2, <3>3 DEF Types, Named
      <3>5. Steady'
        <4>1. Unmounted' /\ Applied'
          BY <1>4, <2>2 DEF Inv, Steady, Unmounted, Applied
        <4>2. LatestDetail'
          BY <1>4, <2>2, <3>1, Blank DEF Inv, Steady, LatestDetail
        <4>3. DialogAlone'
          BY <1>1, <1>4 DEF Inv, Steady, DialogAlone
        <4> QED
          BY <4>1, <4>2, <4>3 DEF Steady
      <3>6. Right'
        BY <1>4, <2>2
        DEF Inv, Right, ShownUnlessStrayed, ShownIsSelected, Panel, RowsUnlessStrayed
      <3> QED
        BY <3>4, <3>5, <3>6 DEF Inv
    <2> QED
      BY <1>1, <1>3, <1>4, <2>1, <2>2
  <1>5. CASE /\ listLoading /\ ~listLoading' /\ next = NoFamily
             /\ selected' = next /\ request' = [request EXCEPT ![r] = None] /\ card' = Fresh
    <2>1. Applied'
      BY <1>5, Blank DEF Applied
    <2> QED
      BY <1>1, <1>3, <1>5, <2>1, Blank, ListArrivesKeeps
  <1>6. CASE /\ listLoading /\ ~listLoading' /\ next # NoFamily
             /\ selected' = next /\ request' = [request EXCEPT ![r] = Detail(next)]
             /\ card' = Loading(Fresh, r)
    <2>1. /\ card' \in Card /\ card'.tab = "draft" /\ card'.dialog = "none" /\ Applied'
          /\ card'.latest = r /\ card'.loading = TRUE
      BY <1>6, Blank, LoadingFacts DEF Applied, SameChoice
    <2>2. Detail(next) \in Request
      BY <1>3, NewRequests
    <2> QED
      BY <1>1, <1>3, <1>6, <2>1, <2>2, ListArrivesKeeps
  <1>7. CASE ~listLoading /\ next # selected /\ SelectedBecomes(r, next)
    <2>1. UNCHANGED <<serverVars, listLoading, latestList, createOpened>>
      BY <1>1, <1>3, <1>7 DEF Inv, Types, TypeOK
    <2> QED
      BY <1>3, <1>7, <2>1, SelectionKeeps
  <1> QED
    BY <1>2, <1>4, <1>5, <1>6, <1>7

-----------------------------------------------------------------------------
\* The details of a family arrive: those that count are of the selected one.
LEMMA DetailArrivesKeeps ==
  ASSUME Inv, NEW r \in Requests, DetailArrives(r)
  PROVE  Inv'
  <1> DEFINE f == request[r].family
             e1 == [card EXCEPT !.loading = FALSE]
             ended == [e1 EXCEPT !.revisionsLoading = FALSE]
             loaded == [ended EXCEPT !.strayed = @ \ {"draft"}]
             shown == WithRevisions(applyFamilyDetail(loaded, f), f)
             n1 == [ended EXCEPT !.failed = TRUE]
             none == [n1 EXCEPT !.detail = NoDraft]
             Same(c) == /\ c \in Card /\ c.latest = card.latest
                        /\ SameChoice(card, c) /\ c.dialog = card.dialog
  <1>1. /\ request[r].kind = "detail" /\ request' = [request EXCEPT ![r] = None]
        /\ UNCHANGED <<serverVars, listVars, createVars>>
    BY DEF DetailArrives
  <1>2. (r = card.latest /\ card' \in {shown, none}) \/ card' = card
    BY DEF DetailArrives, Counts
  <1>3. f \in Families /\ card \in Card /\ TypeOK
    BY <1>1 DEF Inv, Types, Named, OfCard, TypeOK
  <1> HIDE DEF f, e1, ended, loaded, shown, n1, none
  <1>4. Same(e1)
    BY <1>3 DEF Card, SameChoice, e1
  <1>5. Same(ended)
    BY <1>4 DEF Card, SameChoice, ended
  <1>6. /\ Same(shown) /\ shown.detail = [of |-> f, version |-> version[f]]
        /\ shown.draft = shown.detail /\ shown.revisionsOf = f
    <2> DEFINE a == applyFamilyDetail(loaded, f)
    <2>1. /\ ended.strayed \ {"draft"} \in SUBSET {"draft", "rows"}
          /\ "rows" \in ended.strayed => "rows" \in ended.strayed \ {"draft"}
      BY <1>5 DEF Card
    <2>2. Same(loaded)
      BY <1>5, <2>1 DEF Card, SameChoice, loaded
    <2>3. Same(a) /\ a.detail = [of |-> f, version |-> version[f]] /\ a.draft = a.detail
      BY <1>3, <2>2, AppliedFacts DEF SameChoice
    <2> HIDE DEF a
    <2>4. /\ Same(WithRevisions(a, f)) /\ WithRevisions(a, f).detail = a.detail
          /\ WithRevisions(a, f).draft = a.draft /\ WithRevisions(a, f).revisionsOf = f
      BY <1>3, <2>3, RevisionsFacts DEF SameChoice
    <2> QED
      BY <2>3, <2>4 DEF a, shown
  <1>7. Same(n1) /\ n1.failed = TRUE
    BY <1>5 DEF Card, SameChoice, n1
  <1>8. Same(none) /\ none.failed = TRUE /\ none.detail = NoDraft
    BY <1>7, Numbers DEF Card, SameChoice, none
  <1>9. Same(card')
    BY <1>2, <1>3, <1>6, <1>8 DEF SameChoice
  <1>10. Applied'
    BY <1>2, <1>6, <1>8 DEF Inv, Steady, Applied
  <1>11. RowsUnlessStrayed'
    BY <1>1, <1>9, ViewKept DEF Inv, Right, listVars
  <1>12. ShownUnlessStrayed'
    <2> USE DEF listVars
    <2>1. CASE r = card.latest /\ card' = shown
      <3>1. selected # NoFamily => f = selected
        BY <1>1, <2>1 DEF Inv, Steady, LatestDetail, f
      <3> QED
        BY <1>1, <1>6, <2>1, <3>1 DEF ShownUnlessStrayed, ShownIsSelected, Panel
    <2>2. CASE card' = none
      BY <1>8, <2>2 DEF ShownUnlessStrayed, ShownIsSelected, Panel
    <2>3. CASE card' = card
      BY <1>1, <2>3 DEF Inv, Right, ShownUnlessStrayed, ShownIsSelected, Panel
    <2> QED
      BY <1>2, <2>1, <2>2, <2>3
  <1>13. request' \in [Requests -> Request] /\ Welcome(None)
    BY <1>1, <1>3, Blank DEF TypeOK, Welcome, Named, OfCard, Acting, Kept, Write, Upgrade
  <1>14. \A q \in Requests : request'[q] = request[q] \/ Welcome(request'[q])
    BY <1>1, <1>3, <1>13 DEF TypeOK
  <1>15. /\ createOpened => card'.dialog = "none"
         /\ listLoading => card'.tab = "draft"
    BY <1>9 DEF Inv, Steady, DialogAlone, Unmounted, SameChoice
  <1>16. Right'
    BY <1>11, <1>12 DEF Right
  <1> QED
    BY <1>1, <1>9, <1>10, <1>13, <1>14, <1>15, <1>16, ServedKept, CardStepKeeps

\* A page of profiles arrives: of the selected family, or it strays.
LEMMA PageArrivesKeeps ==
  ASSUME Inv, NEW r \in Requests, PageArrives(r)
  PROVE  Inv'
  <1> DEFINE f == request[r].family
  <1>1. /\ request[r].kind = "page" /\ request' = [request EXCEPT ![r] = None]
        /\ UNCHANGED <<serverVars, listVars, createVars>>
    BY DEF PageArrives
  <1>2. f \in Families /\ TypeOK /\ card \in Card
    BY <1>1 DEF Inv, Types, Named, OfCard, Acting, TypeOK
  <1>3. /\ card' \in Card /\ SameView(card, card') /\ card'.dialog = card.dialog
        /\ card'.tab = card.tab /\ RowsUnlessStrayed'
    <2>1. CASE card' = [card EXCEPT !.paging = {}]
      <3>1. card' \in Card /\ SameView(card, card') /\ SameChoice(card, card')
            /\ card'.dialog = card.dialog
        BY <1>2, <2>1 DEF Card, SameView, SameChoice
      <3> QED
        BY <1>1, <3>1, ViewKept DEF Inv, Right, listVars, SameChoice
    <2>2. CASE \E page \in {{}, {f}} :
             card' = [Strays(card, f, "rows") EXCEPT
                         !.rows = IF request[r].append THEN @ \cup page ELSE page,
                         !.paging = {}]
      <3> DEFINE d == Strays(card, f, "rows")
      <3>1. PICK page \in {{}, {f}} :
               card' = [d EXCEPT !.rows = IF request[r].append THEN @ \cup page ELSE page,
                                 !.paging = {}]
        BY <2>2
      <3>2. /\ d \in Card /\ SameView(card, d) /\ SameChoice(card, d) /\ d.dialog = card.dialog
            /\ f # selected => "rows" \in d.strayed
        BY <1>2, StraysFacts
      <3> HIDE DEF d
      <3> DEFINE rows == IF request[r].append THEN d.rows \cup page ELSE page
                 c1 == [d EXCEPT !.rows = rows]
                 c2 == [c1 EXCEPT !.paging = {}]
      <3>3. card' = c2
        BY <3>1
      <3>4. rows \in SUBSET Families /\ rows \subseteq d.rows \cup {f}
        BY <1>2, <3>2 DEF Card
      <3> HIDE DEF f, rows, c1, c2
      <3> DEFINE Same(c) == /\ c \in Card /\ SameView(card, c) /\ c.dialog = card.dialog
                            /\ c.tab = card.tab /\ c.strayed = d.strayed
                            /\ c.picked = card.picked
      <3>5. Same(c1) /\ c1.rows = rows
        BY <3>2, <3>4 DEF Card, SameView, SameChoice, c1
      <3>6. Same(c2) /\ c2.rows = rows
        BY <3>5 DEF Card, SameView, c2
      <3>7. RowsUnlessStrayed'
        BY <1>1, <3>2, <3>3, <3>4, <3>6
        DEF Inv, Right, RowsUnlessStrayed, SameChoice, listVars
      <3> QED
        BY <3>3, <3>6, <3>7
    <2> QED
      BY <2>1, <2>2 DEF PageArrives
  <1>4. Applied' /\ Right'
    BY <1>1, <1>3, ViewKept DEF Inv, Steady, Right, listVars
  <1>5. request' \in [Requests -> Request] /\ Welcome(None)
    BY <1>1, <1>2, Blank DEF TypeOK, Welcome, Named, OfCard, Acting, Kept, Write, Upgrade
  <1>6. \A q \in Requests : request'[q] = request[q] \/ Welcome(request'[q])
    BY <1>1, <1>2, <1>5 DEF TypeOK
  <1>7. /\ createOpened => card'.dialog = "none"
        /\ listLoading => card'.tab = "draft"
        /\ card'.latest = card.latest
    BY <1>3 DEF Inv, Steady, DialogAlone, Unmounted, SameView
  <1> QED
    BY <1>1, <1>3, <1>4, <1>5, <1>6, <1>7, ServedKept, CardStepKeeps

-----------------------------------------------------------------------------
\* A save is taken, lost, refused for its version, or fails.
LEMMA SaveArrivesKeeps ==
  ASSUME Inv, NEW r \in Requests, SaveArrives(r)
  PROVE  Inv'
  <1> DEFINE f == request[r].family
             c == IF request[r].mounted THEN [Freed(r) EXCEPT !.conflict = TRUE] ELSE card
  <1>1. request[r].kind = "save" /\ UNCHANGED <<gone, published>>
    BY DEF SaveArrives
  <1>2. f \in Families /\ card \in Card
    BY <1>1 DEF Inv, Types, Named, OfCard, Acting, Write, TypeOK
  <1>3. \/ version' = version
        \/ version[f] < MaxVersion[f] /\ version' = [version EXCEPT ![f] = @ + 1]
    BY DEF SaveArrives
  <1>4. Served'
    <2>1. CASE version' = version
      BY <1>1, <2>1 DEF Inv, Types, TypeOK, Bounded, Served
    <2>2. CASE version[f] < MaxVersion[f] /\ version' = [version EXCEPT ![f] = @ + 1]
      <3>1. version[f] + 1 \in 0 .. MaxVersion[f] /\ version[f] + 1 \in Version
        BY <1>2, <2>2, Numbers DEF Inv, Types, Bounded
      <3> QED
        BY <1>1, <1>2, <2>2, <3>1 DEF Inv, Types, TypeOK, Bounded, Served
    <2> QED
      BY <1>3, <2>1, <2>2
  <1>5. CatalogReload(r) \/ Failed(r, Freed(r)) \/ Failed(r, c)
    BY DEF SaveArrives
  <1>6. /\ c \in Card /\ SameView(card, c) /\ SameChoice(card, c) /\ c.dialog = card.dialog
    <2> DEFINE d == Freed(r)
               e == [d EXCEPT !.conflict = TRUE]
    <2>1. /\ d \in Card /\ SameView(card, d) /\ SameChoice(card, d) /\ d.dialog = card.dialog
      BY <1>2, FreedFacts
    <2> HIDE DEF d
    <2>2. /\ e \in Card /\ SameView(card, e) /\ SameChoice(card, e) /\ e.dialog = card.dialog
      BY <2>1 DEF Card, SameView, SameChoice
    <2>3. SameView(card, card) /\ SameChoice(card, card)
      BY DEF SameView, SameChoice
    <2>4. c = e \/ c = card
      BY DEF d
    <2> HIDE DEF e
    <2> QED
      BY <1>2, <2>2, <2>3, <2>4
  <1> HIDE DEF c
  <1> QED
    BY <1>4, <1>5, <1>6, CatalogReloadKeeps, RefusedKeeps, FailedKeeps

\* The second request of a handler goes on for the family of the first.
LEMMA StageKeeps ==
  ASSUME Inv, NEW r \in Requests, request[r].kind \in {"publish", "reload"},
         request' = [request EXCEPT ![r].stage = "revisions"],
         UNCHANGED <<listVars, createVars>>, Served',
         \/ card' = card
         \/ LET f == request[r].family
            IN  /\ request[r].mounted
                /\ card' = [applyFamilyDetail(Strays(card, f, "draft"), f) EXCEPT
                               !.revisionsLoading = TRUE]
  PROVE  Inv'
  <1> DEFINE f == request[r].family
             x == [request[r] EXCEPT !.stage = "revisions"]
             d == Strays(card, f, "draft")
             a == applyFamilyDetail(d, f)
             c == [a EXCEPT !.revisionsLoading = TRUE]
             Same(b) == /\ b \in Card /\ SameChoice(card, b) /\ b.dialog = card.dialog
                        /\ b.latest = card.latest
                        /\ f # selected => "draft" \in b.strayed
  <1>1. f \in Families /\ card \in Card /\ TypeOK
    BY DEF Inv, Types, Named, OfCard, Acting, Write, TypeOK
  <1>2. Same(d)
    BY <1>1, StraysFacts DEF SameView
  <1> HIDE DEF d
  <1>3. Same(a) /\ a.detail = [of |-> f, version |-> version[f]] /\ a.draft = a.detail
    BY <1>1, <1>2, AppliedFacts DEF SameChoice
  <1> HIDE DEF a
  <1>4. /\ Same(c) /\ c.detail = [of |-> f, version |-> version[f]] /\ c.draft = c.detail
        /\ c.revisionsLoading = TRUE
    BY <1>3 DEF Card, SameChoice
  <1>5. card' = card \/ (request[r].mounted /\ card' = c)
    BY DEF a, d
  <1> HIDE DEF c
  <1>6. /\ x \in Request /\ x.kind = request[r].kind /\ x.family = f
        /\ x.mounted = request[r].mounted
    BY <1>1 DEF TypeOK, Request
  <1>7. request' = [request EXCEPT ![r] = x]
    OBVIOUS
  <1>8. listLoading => ~request[r].mounted /\ card.tab = "draft"
    BY DEF Inv, Steady, Unmounted, OfCard, Acting, Write
  <1> HIDE DEF x
  <1>9. Welcome(x)
    BY <1>1, <1>6, <1>8
    DEF Welcome, Inv, Types, Named, OfCard, Acting, Kept, Write, Upgrade
  <1>10. /\ request' \in [Requests -> Request]
         /\ \A q \in Requests : request'[q] = request[q] \/ Welcome(request'[q])
    BY <1>1, <1>6, <1>7, <1>9 DEF TypeOK
  <1>11. Applied'
    BY <1>4, <1>5 DEF Inv, Steady, Applied
  <1>12. RowsUnlessStrayed'
    BY <1>4, <1>5, ViewKept DEF Inv, Right, RowsUnlessStrayed, listVars
  <1>13. ShownUnlessStrayed'
    BY <1>4, <1>5 DEF Inv, Right, ShownUnlessStrayed, ShownIsSelected, Panel, listVars
  <1>14. /\ createOpened => card'.dialog = "none"
         /\ listLoading => card'.tab = "draft"
         /\ card' \in Card /\ card'.latest = card.latest
    BY <1>1, <1>4, <1>5, <1>8 DEF Inv, Steady, DialogAlone
  <1>15. Right'
    BY <1>12, <1>13 DEF Right
  <1> QED
    BY <1>10, <1>11, <1>14, <1>15, CardStepKeeps

\* Publishing goes on to the revisions of its family.
LEMMA PublishArrivesKeeps ==
  ASSUME Inv, NEW r \in Requests, PublishArrives(r)
  PROVE  Inv'
  <1> DEFINE f == request[r].family
  <1>1. request[r].kind = "publish" /\ UNCHANGED <<version, gone>>
    BY DEF PublishArrives
  <1>2. f \in Families
    BY <1>1 DEF Inv, Types, Named, OfCard, Acting, Write
  <1>3. \/ published' = published
        \/ published[f] < MaxRevisions[f] /\ published' = [published EXCEPT ![f] = @ + 1]
    BY DEF PublishArrives
  <1>4. Served'
    <2>1. CASE published' = published
      BY <1>1, <2>1 DEF Inv, Types, TypeOK, Bounded, Served
    <2>2. CASE published[f] < MaxRevisions[f] /\ published' = [published EXCEPT ![f] = @ + 1]
      <3>1. published[f] + 1 \in 0 .. MaxRevisions[f] /\ published[f] + 1 \in Revisions
        BY <1>2, <2>2, Numbers DEF Inv, Types, Bounded
      <3> QED
        BY <1>1, <1>2, <2>2, <3>1 DEF Inv, Types, TypeOK, Bounded, Served
    <2> QED
      BY <1>3, <2>1, <2>2
  <1>5. \/ CatalogReload(r)
        \/ Failed(r, Freed(r))
        \/ /\ request' = [request EXCEPT ![r].stage = "revisions"]
           /\ card' = IF request[r].mounted
                      THEN [applyFamilyDetail(Strays(card, f, "draft"), f) EXCEPT
                               !.revisionsLoading = TRUE]
                      ELSE card
           /\ UNCHANGED <<listVars, createVars>>
    BY DEF PublishArrives
  <1> QED
    BY <1>1, <1>4, <1>5, CatalogReloadKeeps, RefusedKeeps, StageKeeps

\* So does the reload after a conflict.
LEMMA ReloadArrivesKeeps ==
  ASSUME Inv, NEW r \in Requests, ReloadArrives(r)
  PROVE  Inv'
  <1> DEFINE f == request[r].family
             a == Freed(r)
             ended == [a EXCEPT !.revisionsLoading = FALSE]
             d == Strays(ended, f, "draft")
             shown == WithRevisions(d, f)
             no == [ended EXCEPT !.failed = TRUE]
             Same(c) == /\ c \in Card /\ c.latest = card.latest /\ c.detail = card.detail
                        /\ c.draft = card.draft /\ SameChoice(card, c)
                        /\ c.dialog = card.dialog
                        /\ "draft" \in card.strayed => "draft" \in c.strayed
             View(c) == c.loading = card.loading /\ c.failed = card.failed
  <1>1. request[r].kind = "reload" /\ UNCHANGED serverVars /\ Served'
    BY ServedKept DEF ReloadArrives
  <1>2. f \in Families /\ card \in Card /\ TypeOK /\ request[r].mounted
    BY <1>1 DEF Inv, Types, Named, OfCard, Acting, Kept, TypeOK
  <1>3. \/ Failed(r, shown) \/ Failed(r, no) \/ Failed(r, Freed(r))
        \/ /\ request' = [request EXCEPT ![r].stage = "revisions"]
           /\ card' = [applyFamilyDetail(Strays(card, f, "draft"), f) EXCEPT
                          !.revisionsLoading = TRUE]
           /\ UNCHANGED <<listVars, createVars>>
    BY DEF ReloadArrives
  <1>4. Same(a) /\ View(a)
    BY <1>2, FreedFacts DEF SameView
  <1> HIDE DEF a, f
  <1>5. Same(ended) /\ View(ended)
    BY <1>4 DEF Card, SameChoice
  <1> HIDE DEF ended
  <1>6. Same(d) /\ View(d) /\ (f # selected => "draft" \in d.strayed)
    BY <1>2, <1>5, StraysFacts DEF SameView, SameChoice
  <1> HIDE DEF d
  <1>7. /\ Same(shown) /\ View(shown) /\ shown.revisionsOf = f
        /\ f # selected => "draft" \in shown.strayed
    BY <1>2, <1>6, RevisionsFacts DEF SameChoice
  <1>8. Same(no) /\ no.failed = TRUE
    BY <1>5 DEF Card, SameChoice
  <1> HIDE DEF shown, no
  <1>9. CASE Failed(r, shown) \/ Failed(r, no)
    <2>1. /\ card' = shown \/ card' = no
          /\ request' = [request EXCEPT ![r] = None] /\ UNCHANGED <<listVars, createVars>>
      BY <1>9 DEF Failed
    <2>2. Same(card')
      BY <1>7, <1>8, <2>1
    <2>3. Applied'
      BY <2>2 DEF Inv, Steady, Applied
    <2>4. RowsUnlessStrayed'
      BY <2>1, <2>2, ViewKept DEF Inv, Right, listVars
    <2>5. ShownUnlessStrayed'
      BY <1>7, <1>8, <2>1
      DEF Inv, Right, ShownUnlessStrayed, ShownIsSelected, Panel, listVars
    <2>6. request' \in [Requests -> Request] /\ Welcome(None)
      BY <1>2, <2>1, Blank DEF TypeOK, Welcome, Named, OfCard, Acting, Kept, Write, Upgrade
    <2>7. \A q \in Requests : request'[q] = request[q] \/ Welcome(request'[q])
      BY <1>2, <2>1, <2>6 DEF TypeOK
    <2>8. /\ createOpened => card'.dialog = "none"
          /\ listLoading => card'.tab = "draft"
      BY <2>2 DEF Inv, Steady, DialogAlone, Unmounted, SameChoice
    <2>9. Right'
      BY <2>4, <2>5 DEF Right
    <2> QED
      BY <1>1, <2>1, <2>2, <2>3, <2>6, <2>7, <2>8, <2>9, CardStepKeeps
  <1>10. CASE Failed(r, Freed(r))
    BY <1>1, <1>10, RefusedKeeps
  <1>11. CASE /\ request' = [request EXCEPT ![r].stage = "revisions"]
              /\ card' = [applyFamilyDetail(Strays(card, f, "draft"), f) EXCEPT
                             !.revisionsLoading = TRUE]
              /\ UNCHANGED <<listVars, createVars>>
    BY <1>1, <1>2, <1>11, StageKeeps DEF f
  <1> QED
    BY <1>3, <1>9, <1>10, <1>11

\* The answer to a change of the family's data.
LEMMA PatchArrivesKeeps ==
  ASSUME Inv, NEW r \in Requests, PatchArrives(r)
  PROVE  Inv'
  BY ServedKept, CatalogReloadKeeps, RefusedKeeps DEF PatchArrives

\* The answer to a deletion: the selection goes with the family.
LEMMA DeleteArrivesKeeps ==
  ASSUME Inv, NEW r \in Requests, DeleteArrives(r)
  PROVE  Inv'
  <1> DEFINE f == request[r].family
  <1>1. request[r].kind = "delete" /\ UNCHANGED published
    BY DEF DeleteArrives
  <1>2. f \in Families
    BY <1>1 DEF Inv, Types, Named, OfCard, Acting, Write
  <1>3. \/ UNCHANGED <<version, gone>>
        \/ version' = [version EXCEPT ![f] = 0] /\ gone' = gone \cup {f}
    BY DEF DeleteArrives
  <1>4. 0 \in Version /\ 0 \in 0 .. MaxVersion[f]
    BY <1>2, Numbers
  <1>5. Served'
    BY <1>1, <1>2, <1>3, <1>4 DEF Inv, Types, TypeOK, Bounded, Served
  <1>6. \/ LoadFamilies(r, NoFamily) /\ selected' = NoFamily /\ UNCHANGED createVars
        \/ Failed(r, Freed(r))
    BY DEF DeleteArrives
  <1>7. CASE LoadFamilies(r, NoFamily) /\ selected' = NoFamily /\ UNCHANGED createVars
    <2>1. /\ NoFamily \in Family /\ createOpened' = createOpened /\ createBusy' = createBusy
          /\ createOpened' \in BOOLEAN
      BY <1>7 DEF Family, createVars, Inv, Types, TypeOK
    <2> QED
      BY <1>5, <1>7, <2>1, ReloadKeeps
  <1> QED
    BY <1>5, <1>6, <1>7, RefusedKeeps

\* After an upgrade the first page is asked for again, for the same family.
LEMMA UpgradeArrivesKeeps ==
  ASSUME Inv, NEW r \in Requests, UpgradeArrives(r)
  PROVE  Inv'
  <1> DEFINE f == request[r].family
             a == Freed(r)
             c1 == [a EXCEPT !.paging = @ \cup {"first"}]
             c2 == [c1 EXCEPT !.picked = IF request[r].kind = "batch" THEN {} ELSE @]
             x == Page(f, FALSE)
  <1>1. request[r].kind \in Upgrade /\ UNCHANGED serverVars /\ Served'
    BY ServedKept DEF UpgradeArrives
  <1>2. /\ f \in Families /\ card \in Card /\ TypeOK /\ request[r].mounted
    BY <1>1 DEF Inv, Types, Named, OfCard, Acting, Kept, Write, TypeOK
  <1>3. \/ /\ request' = [request EXCEPT ![r] = x] /\ card' = c2
           /\ UNCHANGED <<listVars, createVars>>
        \/ Failed(r, Freed(r))
    BY DEF UpgradeArrives
  <1>4. a \in Card /\ SameView(card, a) /\ SameChoice(card, a) /\ a.dialog = card.dialog
    BY <1>2, FreedFacts
  <1>5. x \in Request /\ x.kind = "page" /\ x.family = f /\ x.mounted
    BY <1>2, NewRequests DEF Family
  <1> HIDE DEF f, a, c1, c2, x
  <1>6. a.paging \cup {"first"} \in SUBSET {"first", "more"}
    BY <1>4 DEF Card
  <1>7. c1 \in Card /\ SameView(card, c1) /\ SameChoice(card, c1) /\ c1.dialog = card.dialog
    BY <1>4, <1>6 DEF Card, SameView, SameChoice, c1
  <1>8. /\ c2 \in Card /\ SameView(card, c2) /\ c2.dialog = card.dialog /\ c2.tab = card.tab
        /\ c2.rows = card.rows /\ c2.picked \subseteq card.picked
        /\ "rows" \in card.strayed => "rows" \in c2.strayed
    BY <1>7 DEF Card, SameView, SameChoice, c2
  <1>9. CASE /\ request' = [request EXCEPT ![r] = x] /\ card' = c2
             /\ UNCHANGED <<listVars, createVars>>
    <2>1. ~listLoading
      BY <1>1, <1>2 DEF Inv, Steady, Unmounted, OfCard, Acting, Write
    <2>2. Welcome(x)
      BY <1>2, <1>5, <2>1 DEF Welcome, Named
    <2>3. /\ request' \in [Requests -> Request]
          /\ \A q \in Requests : request'[q] = request[q] \/ Welcome(request'[q])
      BY <1>2, <1>5, <1>9, <2>2 DEF TypeOK
    <2>4. RowsUnlessStrayed'
      BY <1>8, <1>9 DEF Inv, Right, RowsUnlessStrayed, listVars
    <2>5. Applied' /\ Right'
      BY <1>8, <1>9, <2>4, ViewKept DEF Inv, Steady, Right, listVars
    <2>6. /\ createOpened => card'.dialog = "none"
          /\ card' \in Card /\ card'.latest = card.latest
      BY <1>8, <1>9 DEF Inv, Steady, DialogAlone, SameView
    <2> QED
      BY <1>1, <1>9, <2>1, <2>3, <2>5, <2>6, CardStepKeeps
  <1>10. CASE Failed(r, Freed(r))
    BY <1>1, <1>10, RefusedKeeps
  <1> QED
    BY <1>3, <1>9, <1>10

-----------------------------------------------------------------------------
\* The dialog for a new family, and the server by itself, leave card and list alone.
LEMMA CreateStepKeeps ==
  ASSUME Inv, UNCHANGED <<listVars, card>>, Served',
         createOpened' \in BOOLEAN, createBusy' \in BOOLEAN,
         request' \in [Requests -> Request],
         \A q \in Requests : request'[q] = request[q] \/ request'[q].kind \in {"none", "create"},
         createOpened' => card.dialog = "none"
  PROVE  Inv'
  <1> USE DEF listVars
  <1>1. \A q \in Requests : request'[q] = request[q] \/ request'[q].kind \notin OfCard
    BY DEF OfCard, Acting, Write, Upgrade
  <1>2. OfCard = Acting \cup {"detail"} /\ Kept \subseteq OfCard /\ Upgrade \subseteq OfCard
        /\ "save" \in OfCard
    BY DEF OfCard, Acting, Kept, Write
  <1>3. TypeOK' /\ Bounded'
    BY DEF Inv, Types, TypeOK, Served
  <1>4. \A q \in Requests : Named(request'[q])
    BY <1>1, <1>2 DEF Inv, Types, Named
  <1>5. Types'
    BY <1>3, <1>4 DEF Types, Named
  <1>6. Steady'
    BY <1>1, <1>2 DEF Inv, Steady, Unmounted, Applied, LatestDetail, DialogAlone
  <1>7. Right'
    BY DEF Inv, Right, ShownUnlessStrayed, ShownIsSelected, Panel, RowsUnlessStrayed
  <1> QED
    BY <1>5, <1>6, <1>7 DEF Inv

\* The dialog for a new family opens when no other is open.
LEMMA CreateDialogKeeps ==
  ASSUME Inv, OpenCreate \/ CancelCreate
  PROVE  Inv'
  <1>1. /\ UNCHANGED <<serverVars, listVars, createBusy, card, request>>
        /\ createOpened' => card.dialog = "none"
    BY DEF OpenCreate, CancelCreate
  <1>2. /\ request' \in [Requests -> Request] /\ createOpened' \in BOOLEAN
        /\ createBusy' \in BOOLEAN
    BY DEF OpenCreate, CancelCreate, Inv, Types, TypeOK
  <1>3. Served' /\ UNCHANGED <<listVars, card>>
        /\ \A q \in Requests : request'[q] = request[q]
    BY <1>1, ServedKept
  <1> QED
    BY <1>1, <1>2, <1>3, CreateStepKeeps

\* It sends one creation at a time,
LEMMA CreateFamilyKeeps == ASSUME Inv, handleCreateFamily PROVE Inv'
  <1> DEFINE x == [None EXCEPT !.kind = "create"]
  <1>1. PICK r \in FreeName : request' = [request EXCEPT ![r] = x]
    BY DEF handleCreateFamily
  <1>2. /\ createOpened /\ ~createBusy /\ createBusy' = TRUE
        /\ UNCHANGED <<serverVars, listVars, createOpened, card>>
    BY DEF handleCreateFamily
  <1>3. x \in Request /\ x.kind = "create"
    BY Blank DEF Request
  <1> HIDE DEF x
  <1>4. /\ r \in Requests /\ request' \in [Requests -> Request] /\ request'[r] = x
        /\ \A q \in Requests \ {r} : request'[q] = request[q]
        /\ createOpened' \in BOOLEAN /\ createBusy' \in BOOLEAN
    BY <1>1, <1>2, <1>3 DEF FreeName, Inv, Types, TypeOK
  <1>5. Served' /\ UNCHANGED <<listVars, card>>
    BY <1>2, ServedKept
  <1>6. createOpened' => card.dialog = "none"
    BY <1>2 DEF Inv, Steady, DialogAlone
  <1> QED
    BY <1>3, <1>4, <1>5, <1>6, CreateStepKeeps

\* whose answer reloads the list for the new family.
LEMMA CreateArrivesKeeps ==
  ASSUME Inv, NEW r \in Requests, CreateArrives(r)
  PROVE  Inv'
  <1>1. request[r].kind = "create" /\ UNCHANGED <<gone, published>>
    BY DEF CreateArrives
  <1>2. \/ version' = version
        \/ \E f \in Families : version' = [version EXCEPT ![f] = 1]
    BY DEF CreateArrives
  <1>3. \A f \in Families : 1 \in 0 .. MaxVersion[f] /\ 1 \in Version
    BY Numbers
  <1>4. Served'
    BY <1>1, <1>2, <1>3 DEF Inv, Types, TypeOK, Bounded, Served
  <1>5. \/ \E f \in Families :
              /\ LoadFamilies(r, f) /\ createOpened' = FALSE /\ UNCHANGED <<selected, createBusy>>
        \/ /\ createBusy' = FALSE /\ request' = [request EXCEPT ![r] = None]
           /\ UNCHANGED <<listVars, createOpened, card>>
    BY DEF CreateArrives
  <1>6. CASE \E f \in Families :
              /\ LoadFamilies(r, f) /\ createOpened' = FALSE /\ UNCHANGED <<selected, createBusy>>
    <2>1. PICK f \in Families : LoadFamilies(r, f) /\ createOpened' = FALSE
                                /\ UNCHANGED <<selected, createBusy>>
      BY <1>6
    <2>2. f \in Family /\ createOpened' \in BOOLEAN /\ selected' = selected
          /\ createBusy' = createBusy
      BY <2>1 DEF Family
    <2> QED
      BY <1>1, <1>4, <2>1, <2>2, ReloadKeeps
  <1>7. CASE /\ createBusy' = FALSE /\ request' = [request EXCEPT ![r] = None]
             /\ UNCHANGED <<listVars, createOpened, card>>
    <2>1. /\ request' \in [Requests -> Request] /\ request'[r] = None
          /\ \A q \in Requests \ {r} : request'[q] = request[q]
          /\ createOpened' \in BOOLEAN /\ createBusy' \in BOOLEAN
      BY <1>7, Blank DEF Inv, Types, TypeOK
    <2>2. createOpened' => card.dialog = "none"
      BY <1>7 DEF Inv, Steady, DialogAlone
    <2>3. UNCHANGED <<listVars, card>>
      BY <1>7
    <2> QED
      BY <1>4, <2>1, <2>2, <2>3, Blank, CreateStepKeeps
  <1> QED
    BY <1>5, <1>6, <1>7

\* What others save disturbs no card.
LEMMA SavedElsewhereKeeps ==
  ASSUME Inv, NEW f \in Families, SavedElsewhere(f)
  PROVE  Inv'
  <1>1. /\ version[f] \in 1 .. MaxVersion[f] - 1 /\ version' = [version EXCEPT ![f] = @ + 1]
        /\ UNCHANGED <<gone, published, listVars, createVars, card, request>>
    BY DEF SavedElsewhere
  <1>2. version[f] + 1 \in 0 .. MaxVersion[f] /\ version[f] + 1 \in Version
    BY <1>1, Numbers
  <1>3. Served'
    BY <1>1, <1>2 DEF Inv, Types, TypeOK, Bounded, Served
  <1>4. /\ createOpened' = createOpened /\ createBusy' = createBusy
        /\ request' = request /\ UNCHANGED <<listVars, card>>
    BY <1>1 DEF createVars
  <1>5. /\ request' \in [Requests -> Request] /\ createOpened' \in BOOLEAN
        /\ createBusy' \in BOOLEAN
    BY <1>4 DEF Inv, Types, TypeOK
  <1>6. createOpened' => card.dialog = "none"
    BY <1>4 DEF Inv, Steady, DialogAlone
  <1> QED
    BY <1>3, <1>4, <1>5, <1>6, CreateStepKeeps

-----------------------------------------------------------------------------
\* The invariant holds when the widget is mounted.
LEMMA InitInv == ASSUME Init PROVE Inv
  <1> DEFINE x == [None EXCEPT !.kind = "list"]
  <1>1. x \in Request /\ x.kind = "list" /\ x.family = NoFamily
    BY Blank DEF Request
  <1>2. /\ latestList \in Requests
        /\ request = [r \in Requests |-> IF r = latestList THEN x ELSE None]
    BY DEF Init
  <1> HIDE DEF x
  <1>3. /\ request \in [Requests -> Request]
        /\ \A r \in Requests : request[r] = x \/ request[r] = None
    BY <1>1, <1>2, Blank
  <1>4. \A r \in Requests : /\ request[r].kind \in {"list", "none"}
                            /\ request[r].family = NoFamily
    BY <1>1, <1>3, Blank
  <1>5. \A f \in Families : 0 \in 0 .. MaxVersion[f] /\ 1 \in 0 .. MaxVersion[f]
                            /\ 0 \in 0 .. MaxRevisions[f] /\ 1 \in Version
    BY Numbers
  <1>6. TypeOK /\ Bounded
    BY <1>2, <1>3, <1>5, Blank, Numbers DEF Init, TypeOK, Bounded
  <1>7. \A r \in Requests : Named(request[r]) /\ request[r].kind \notin OfCard
    BY <1>4 DEF Named, OfCard, Acting, Kept, Write, Upgrade
  <1>8. Steady
    BY <1>4, <1>7, Blank DEF Init, Steady, Unmounted, Applied, LatestDetail, DialogAlone
  <1>9. Right
    BY Blank
    DEF Init, Right, ShownUnlessStrayed, ShownIsSelected, Panel, RowsUnlessStrayed
  <1> QED
    BY <1>6, <1>7, <1>8, <1>9 DEF Inv, Types

\* The invariant holds after every step.
LEMMA InvStep == ASSUME Inv, [Next]_vars PROVE Inv'
  <1>1. CASE UNCHANGED vars
    <2>1. /\ createOpened' = createOpened /\ createBusy' = createBusy /\ UNCHANGED serverVars
          /\ request' = request /\ UNCHANGED <<listVars, card>>
      BY <1>1 DEF vars, createVars
    <2>2. Served'
      BY <2>1, ServedKept
    <2>3. /\ request' \in [Requests -> Request] /\ createOpened' \in BOOLEAN
          /\ createBusy' \in BOOLEAN
      BY <2>1 DEF Inv, Types, TypeOK
    <2>4. createOpened' => card.dialog = "none"
      BY <2>1 DEF Inv, Steady, DialogAlone
    <2> QED
      BY <2>1, <2>2, <2>3, <2>4, CreateStepKeeps
  <1>2. CASE Press
    <2>1. CASE \E f \in Family : Select(f)
      BY <2>1, SelectKeeps
    <2>2. CASE Rerun
      BY <2>2, RerunKeeps
    <2>3. CASE \E tab \in {"draft", "revisions", "upgrade"} : OpenTab(tab)
      BY <2>3, OpenTabKeeps
    <2>4. CASE LoadMore
      BY <2>4, LoadMoreKeeps
    <2>5. CASE \E f \in Families : toggleEntitySelected(f)
      BY <2>5, ToggleKeeps
    <2>6. CASE \E dialog \in {"none", "patch", "delete"} : Dialog(dialog)
      BY <2>6, DialogKeeps
    <2>7. CASE handleSaveDraft
      BY <2>7, SaveKeeps
    <2>8. CASE \/ handlePublish \/ handleReloadDraftFromServer
               \/ handlePatchFamily \/ handleDeleteFamily
      BY <2>8, OtherSendsKeep
    <2>9. CASE \/ \E f \in Families : handleSingleUpgrade(f)
               \/ handleBatchUpgradeSelected \/ handleBatchUpgradeBehind
      BY <2>9, UpgradeKeeps
    <2>10. CASE OpenCreate \/ CancelCreate
      BY <2>10, CreateDialogKeeps
    <2>11. CASE handleCreateFamily
      BY <2>11, CreateFamilyKeeps
    <2> QED
      BY <1>2, <2>1, <2>2, <2>3, <2>4, <2>5, <2>6, <2>7, <2>8, <2>9, <2>10, <2>11 DEF Press
  <1>3. CASE \E r \in Requests : Arrives(r)
    BY <1>3, FamiliesArriveKeeps, DetailArrivesKeeps, PageArrivesKeeps, SaveArrivesKeeps,
       PublishArrivesKeeps, ReloadArrivesKeeps, PatchArrivesKeeps, DeleteArrivesKeeps,
       UpgradeArrivesKeeps, CreateArrivesKeeps DEF Arrives
  <1>4. CASE \E f \in Families : SavedElsewhere(f)
    BY <1>4, SavedElsewhereKeeps
  <1> QED
    BY <1>1, <1>2, <1>3, <1>4 DEF Next, Unpressed

-----------------------------------------------------------------------------
\* Only the server's answers to three writes, and others, change a draft.
LEMMA WhoWrites ==
  ASSUME [Next]_vars, version' # version
  PROVE  \/ \E q \in Requests : SaveArrives(q) \/ DeleteArrives(q) \/ CreateArrives(q)
         \/ \E f \in Families : SavedElsewhere(f)
  <1>1. ASSUME NEW k, NEW rec, Send(k, rec) PROVE version' = version
    BY <1>1 DEF Send, serverVars
  <1>2. Press => version' = version
    <2>1. ~(\E f \in Family : Select(f)) /\ ~Rerun
      BY DEF Select, Rerun, serverVars
    <2>2. /\ ~(\E tab \in {"draft", "revisions", "upgrade"} : OpenTab(tab))
          /\ ~LoadMore /\ ~(\E f \in Families : toggleEntitySelected(f))
          /\ ~(\E dialog \in {"none", "patch", "delete"} : Dialog(dialog))
      BY DEF OpenTab, LoadMore, toggleEntitySelected, Dialog, serverVars
    <2>3. /\ ~(\E f \in Families : handleSingleUpgrade(f)) /\ ~handleSaveDraft
          /\ ~handleBatchUpgradeSelected /\ ~handleBatchUpgradeBehind /\ ~handlePublish
          /\ ~handleReloadDraftFromServer /\ ~handlePatchFamily /\ ~handleDeleteFamily
      BY <1>1, Zenon DEF handleSingleUpgrade, handleSaveDraft, handleBatchUpgradeSelected,
         handleBatchUpgradeBehind, handlePublish, handleReloadDraftFromServer,
         handlePatchFamily, handleDeleteFamily
    <2>4. ~OpenCreate /\ ~CancelCreate /\ ~handleCreateFamily
      BY DEF OpenCreate, CancelCreate, handleCreateFamily, serverVars
    <2> QED
      BY <2>1, <2>2, <2>3, <2>4 DEF Press
  <1>3. ASSUME NEW q \in Requests
        PROVE  /\ ~FamiliesArrive(q) /\ ~DetailArrives(q) /\ ~PageArrives(q)
               /\ ~PublishArrives(q) /\ ~ReloadArrives(q) /\ ~PatchArrives(q)
               /\ ~UpgradeArrives(q)
    <2>1. ~FamiliesArrive(q) /\ ~DetailArrives(q) /\ ~PageArrives(q)
      BY DEF FamiliesArrive, DetailArrives, PageArrives, serverVars
    <2>2. ~PublishArrives(q) /\ ~ReloadArrives(q) /\ ~PatchArrives(q) /\ ~UpgradeArrives(q)
      BY DEF PublishArrives, ReloadArrives, PatchArrives, UpgradeArrives, serverVars
    <2> QED
      BY <2>1, <2>2
  <1>4. ~UNCHANGED vars
    BY DEF vars, serverVars
  <1> QED
    BY <1>2, <1>3, <1>4 DEF Next, Unpressed, Arrives

\* A save that waits for its answer is not ended by the answer to another request.
LEMMA SavesWait ==
  ASSUME Inv, NEW q \in Requests, NEW r \in Requests, r # q, request[r].kind = "save",
         (\E f \in Family : LoadFamilies(q, f)) \/ request' = [request EXCEPT ![q] = None]
  PROVE  request'[r].kind = "save"
  <1>1. request \in [Requests -> Request]
    BY DEF Inv, Types, TypeOK
  <1>2. CASE \E f \in Family : LoadFamilies(q, f)
    <2>1. request'[r] = Orphaned[r]
      BY <1>1, <1>2, OrphanedFacts DEF LoadFamilies
    <2>2. Orphaned[r].kind = "save"
      BY <1>1 DEF Orphaned, Request, Write, Upgrade
    <2> QED
      BY <2>1, <2>2
  <1>3. CASE request' = [request EXCEPT ![q] = None]
    BY <1>1, <1>3
  <1> QED
    BY <1>2, <1>3

\* A save that ends in a change of the server's drafts was the one that changed
\* them, and named the version it replaced.
LEMMA SaveEnds ==
  ASSUME Inv, [Next]_vars, NEW r \in Requests,
         request[r].kind = "save", request'[r].kind # "save", version' # version
  PROVE  request[r].draft.version = version[request[r].family]
  <1>1. CASE \E f \in Families : SavedElsewhere(f)
    BY <1>1 DEF SavedElsewhere
  <1>2. ASSUME NEW q \in Requests, SaveArrives(q) \/ DeleteArrives(q) \/ CreateArrives(q)
        PROVE  (\E f \in Family : LoadFamilies(q, f)) \/ request' = [request EXCEPT ![q] = None]
    <2>1. NoFamily \in Family /\ Families \subseteq Family
      BY DEF Family
    <2>2. CASE SaveArrives(q)
      BY <2>1, <2>2 DEF SaveArrives, CatalogReload, Failed
    <2>3. CASE DeleteArrives(q)
      BY <2>1, <2>3 DEF DeleteArrives, Failed
    <2>4. CASE CreateArrives(q)
      BY <2>1, <2>4 DEF CreateArrives
    <2> QED
      BY <1>2, <2>2, <2>3, <2>4
  <1>3. CASE \E q \in Requests : SaveArrives(q) \/ DeleteArrives(q) \/ CreateArrives(q)
    <2>1. PICK q \in Requests : SaveArrives(q) \/ DeleteArrives(q) \/ CreateArrives(q)
      BY <1>3
    <2>2. q = r
      BY <1>2, <2>1, SavesWait
    <2>3. SaveArrives(r)
      BY <2>1, <2>2 DEF DeleteArrives, CreateArrives
    <2>4. version[request[r].family] = request[r].if
      BY <2>3 DEF SaveArrives
    <2>5. request[r].draft.version = request[r].if
      BY DEF Inv, Types, Named
    <2> QED
      BY <2>4, <2>5
  <1> QED
    BY <1>1, <1>3, WhoWrites

-----------------------------------------------------------------------------
\* The inductive invariant holds in every reachable state of the widget.
THEOREM WidgetInvariant == Spec => []Inv
  BY InitInv, InvStep, PTL DEF Spec

\* Types and ranges, for any number of families and of requests in flight.
THEOREM WidgetTypes == Spec => []TypeOK
  <1>1. Inv => TypeOK
    BY DEF Inv, Types
  <1> QED
    BY <1>1, WidgetInvariant, PTL

\* Whatever is selected and in whichever order details and lists come, the family,
\* the draft and the revisions shown are those of the selected row (the request
\* counter of loadFamilyDetail, and the card mounted anew by loadFamilies), until
\* the answer of a Publish or a "Reload draft" for another row fills them in
\* (handlePublish and handleReloadDraftFromServer, which ask for no such number).
THEOREM WidgetShowsTheSelected == Spec => []ShownUnlessStrayed
  <1>1. Inv => ShownUnlessStrayed
    BY DEF Inv, Right
  <1> QED
    BY <1>1, WidgetInvariant, PTL

\* What is listed and picked to be upgraded is of the selected family, through
\* every change of family and tab, upgrade and reload (the effect that clears
\* both), until a page that was asked for another family comes (loadUpgradePage).
THEOREM RowsAreOfTheFamily == Spec => []RowsUnlessStrayed
  <1>1. Inv => RowsUnlessStrayed
    BY DEF Inv, Right
  <1> QED
    BY <1>1, WidgetInvariant, PTL

\* A save the server takes replaces the version its user had before him, whoever
\* saved or published meanwhile and after whichever conflict and reload: what
\* ifDraftSchemaVersion is sent for.
THEOREM SavesOverwriteWhatTheyRead == Spec => NoBlindOverwrite
  <1> DEFINE A == \A r \in Requests :
                     request[r].kind = "save" /\ request'[r].kind # "save" /\ version' # version =>
                         request[r].draft.version = version[request[r].family]
  <1>1. Inv /\ [Next]_vars => A
    BY SaveEnds
  <1> HIDE DEF A
  <1>2. Inv /\ [Next]_vars => [A]_vars
    BY <1>1
  <1>3. Spec => [][A]_vars
    BY <1>2, WidgetInvariant, PTL DEF Spec
  <1> QED
    BY <1>3 DEF A, NoBlindOverwrite
=============================================================================
