------------------------- MODULE ShopMastersProofs -------------------------
(***************************************************************************)
(* What is proved of ShopMasters when at most one request is under way      *)
(* (Serial): for every number of items, machines, people, orders and pages, *)
(* any workbook and any steps that can be typed, the tables fit together,   *)
(* a table comes into being as the workbook has it, and, when no page shows *)
(* an old routing (~StalePages), recorded production stays at the front of  *)
(* its routing.                                                             *)
(***************************************************************************)
EXTENDS ShopMasters, TLAPS

(***************************************************************************)
(* The inductive invariant.  In parts: the types; before the workbook's     *)
(* tables are all in the store nothing else was written; what is ordered or *)
(* drafted is routed; recorded production fits the routings; and the request*)
(* under way (one at a time) writes what it checked, which still holds.     *)
(***************************************************************************)

Doc(t) == CASE t = "items" -> items [] t = "machines" -> machines [] t = "operators" -> operators

TypesOK ==
    /\ book \in {{}} \cup {{b} : b \in Workbooks}
    /\ made \subseteq Tables /\ edits \in 0..MaxEdits
    /\ items \in [Items -> Item] /\ machines \in [Machines -> Nat]
    /\ operators \in [People -> SUBSET Machines]
    /\ lists \in [Lists -> SUBSET (People \cup Machines \cup Days)]
    /\ lists["absences"] \subseteq People /\ lists["breaks"] \subseteq Machines
    /\ lists["holidays"] \subseteq Days
    /\ punched \in [Orders -> SUBSET Names] /\ running \subseteq Machines /\ loose \subseteq Orders
    /\ page \in [Clients -> [Items -> Item]] /\ req = [r \in Clients |-> req[r]]

BooksOK ==
    /\ drafts \subseteq Orders /\ open \subseteq Orders /\ archived \subseteq Orders
    /\ open \cap archived = {} /\ drafts \cap (open \cup archived) = {}
    /\ \A o \in Orders \ (open \cup archived) : punched[o] = {}

(* Nothing is edited or ordered before the workbook was taken over.         *)
Settled == book = {} \/ made = Tables

SeedOK ==
    ~Settled => /\ \A t \in made, b \in book : Doc(t) = SeedDoc(t, b)
                /\ open = {} /\ archived = {} /\ drafts = {} /\ lists["breaks"] = {}

Fits(done, steps) ==
    /\ done \subseteq NamesOf(steps)
    /\ \A n, p \in Names : p \in done /\ Ahead(steps, n, p) => n \in done

RoutingsOK ==
    /\ \A o \in ((open \cup archived) \ loose) \cup drafts : Exists(ItemOf[o])
    /\ StalePages \/ \A o \in (open \cup archived) \ loose : Fits(punched[o], items[ItemOf[o]].steps)

MachinesOK == Settled => Named \cup lists["breaks"] \subseteq Tabled \cup Unknown

(* What each request has checked of the tables it is about to write.        *)
SeedHolds(q) == q.key \notin made /\ \E b \in book : q.doc = SeedDoc(q.key, b)

ItemHolds(q) ==
    \E c \in Items : LET it == q.doc[c] IN
       /\ it \in Item /\ q.doc = [items EXCEPT ![c] = it]
       /\ it.ver = 0 => \A o \in open \cup drafts : ItemOf[o] # c
       /\ MachinesOf(it.steps) \subseteq Tabled \cup MachinesOf(items[c].steps)
       /\ StalePages \/ \A o \in open \ loose : ItemOf[o] = c => Fits(punched[o], it.steps)

MachineHolds(q) ==
    \E m \in Machines :
       /\ q.doc[m] \in Nat /\ q.doc = [machines EXCEPT ![m] = q.doc[m]]
       /\ q.doc[m] = 0 => m \notin Named \cup lists["breaks"]

ListHolds(q) ==
    /\ q.key = "absences" => q.doc \subseteq People
    /\ q.key = "breaks" => q.doc \subseteq lists["breaks"] \cup Tabled \cup Named
    /\ q.key = "holidays" => q.doc \subseteq Days

DraftsHold(q) ==
    q.doc \subseteq Orders /\ \A o \in q.doc : Exists(ItemOf[o]) /\ o \notin open \cup archived

PunchHolds(q) ==
    /\ q.order \in open \cup archived /\ q.doc \in Names /\ q.op \in {"punch", "undo"}
    /\ q.op = "undo" => CanUndo(q.order, q.doc)
    /\ q.op = "punch" => /\ CanPunch(q.order, q.doc)
                         /\ StalePages \/ q.doc \in NamesOf(items[ItemOf[q.order]].steps)

Holds(q) ==
    \/ q.op = "seed" /\ q.key \in Tables /\ SeedHolds(q)
    \/ /\ q.op # "seed" /\ Settled
       /\ \/ q.key = "items" /\ ItemHolds(q)
          \/ q.key = "machines" /\ MachineHolds(q)
          \/ q.key = "operators" /\ q.doc \in [People -> SUBSET Machines]
          \/ q.key \in Lists /\ ListHolds(q)
          \/ q.key = "drafts" /\ DraftsHold(q)
          \/ q.key = "book" /\ q.doc = drafts
          \/ q.key = "punches" /\ PunchHolds(q)

RequestsOK ==
    /\ \A r, s \in Clients : req[r] # Idle /\ req[s] # Idle => r = s
    /\ \A r \in Clients : req[r] # Idle => Holds(req[r])

IInv == TypesOK /\ BooksOK /\ SeedOK /\ RoutingsOK /\ MachinesOK /\ RequestsOK

-----------------------------------------------------------------------------
(* Routings.                                                                *)

(* What is typed is a sequence of steps. *)
LEMMA TypedSteps == Typed \subseteq Seq(Menu)
  BY MastersAssumption DEF Typed, SeqOf

(* The machines and the names of a routing are machines and names. *)
LEMMA RoutingTypes ==
  ASSUME NEW steps \in Seq(Menu)
  PROVE  MachinesOf(steps) \subseteq Machines /\ NamesOf(steps) \subseteq Names
<1>1. \A i \in DOMAIN steps : steps[i] \in Menu
  OBVIOUS
<1> QED BY <1>1, MastersAssumption DEF MachinesOf, NamesOf, Names

(* An item that is not there names nothing. *)
LEMMA NoItemType ==
  NoItem \in Item /\ NoItem.ver = 0 /\ NoItem.steps = <<>> /\ MachinesOf(<<>>) = {}
<1>1. <<>> \in Seq(Menu) /\ DOMAIN <<>> = {}
  OBVIOUS
<1> QED BY <1>1, MastersAssumption DEF NoItem, Item, MachinesOf

(* Nothing recorded fits every routing. *)
LEMMA NothingFits == ASSUME NEW steps PROVE Fits({}, steps)
  BY DEF Fits

(* A name that is before another one is in the routing, and before all that *)
(* come after the other one.                                                *)
LEMMA AheadNames ==
  ASSUME NEW steps \in Seq(Menu), NEW n, NEW p, Ahead(steps, n, p)
  PROVE  n \in NamesOf(steps) /\ p \in NamesOf(steps)
  BY DEF Ahead, NamesOf

(* A saved routing that passed punch_safety_errors fits what is recorded.   *)
LEMMA SaveFits ==
  ASSUME NEW old, NEW new \in Seq(Menu), NEW done, Fits(done, old),
         LET P == done \cap NamesOf(old)
         IN  /\ P \subseteq NamesOf(new)
             /\ \A p \in P, n \in NamesOf(new) \ P : Ahead(new, n, p) => Ahead(old, n, p)
  PROVE  Fits(done, new)
<1>1. done \cap NamesOf(old) = done
  BY DEF Fits
<1>2. done \subseteq NamesOf(new)
  BY <1>1
<1>3. ASSUME NEW n \in Names, NEW p \in Names, p \in done, Ahead(new, n, p), n \notin done
      PROVE  FALSE
  <2>1. n \in NamesOf(new)
    BY <1>3, AheadNames
  <2>2. Ahead(old, n, p)
    BY <1>1, <1>3, <2>1
  <2> QED BY <1>3, <2>2 DEF Fits
<1> QED BY <1>2, <1>3 DEF Fits

(* A punch of a step whose step before was punched fits.                    *)
LEMMA PunchFits ==
  ASSUME NEW steps \in Seq(Menu), NEW done, Fits(done, steps), NEW n \in NamesOf(steps),
         \A i \in DOMAIN steps : steps[i].name = n /\ i > 1 => steps[i - 1].name \in done
  PROVE  Fits(done \cup {n}, steps)
<1>1. done \cup {n} \subseteq NamesOf(steps)
  BY DEF Fits
<1>2. ASSUME NEW m \in Names, Ahead(steps, m, n) PROVE m \in done
  <2>1. PICK i, j \in DOMAIN steps : i < j /\ steps[i].name = m /\ steps[j].name = n
    BY <1>2 DEF Ahead
  <2>2. j > 1 /\ j - 1 \in DOMAIN steps /\ i <= j - 1 /\ i \in Nat /\ j \in Nat
    BY <2>1
  <2>3. steps[j - 1].name \in done
    BY <2>1, <2>2
  <2>4. CASE i = j - 1
    BY <2>1, <2>3, <2>4
  <2>5. CASE i < j - 1
    <3>1. Ahead(steps, m, steps[j - 1].name)
      BY <2>1, <2>2, <2>5 DEF Ahead
    <3>2. steps[j - 1].name \in Names
      BY <2>2, RoutingTypes DEF NamesOf
    <3> QED BY <2>3, <3>1, <3>2 DEF Fits
  <2> QED BY <2>2, <2>4, <2>5
<1> QED BY <1>1, <1>2 DEF Fits

(* So does taking back a punch whose next step has none.                    *)
LEMMA UndoFits ==
  ASSUME NEW steps \in Seq(Menu), NEW done, Fits(done, steps), NEW n,
         \A i \in 1..Len(steps) - 1 : steps[i].name = n => steps[i + 1].name \notin done
  PROVE  Fits(done \ {n}, steps)
<1>1. done \ {n} \subseteq NamesOf(steps)
  BY DEF Fits
<1>2. ASSUME NEW p \in Names, p \in done, Ahead(steps, n, p) PROVE FALSE
  <2>1. PICK i, j \in DOMAIN steps : i < j /\ steps[i].name = n /\ steps[j].name = p
    BY <1>2 DEF Ahead
  <2>2. i \in 1..Len(steps) - 1 /\ i + 1 \in DOMAIN steps /\ i + 1 <= j /\ i \in Nat /\ j \in Nat
    BY <2>1
  <2>3. steps[i + 1].name \notin done
    BY <2>1, <2>2
  <2>4. CASE j = i + 1
    BY <1>2, <2>1, <2>3, <2>4
  <2>5. CASE i + 1 < j
    <3>1. Ahead(steps, steps[i + 1].name, p)
      BY <2>1, <2>2, <2>5 DEF Ahead
    <3>2. steps[i + 1].name \in Names
      BY <2>2, RoutingTypes DEF NamesOf
    <3> QED BY <1>2, <2>3, <3>1, <3>2 DEF Fits
  <2> QED BY <2>2, <2>4, <2>5
<1>3. ASSUME NEW m \in Names, NEW p \in Names, p \in done \ {n}, Ahead(steps, m, p)
      PROVE  m \in done \ {n}
  BY <1>2, <1>3 DEF Fits
<1> QED BY <1>1, <1>3 DEF Fits

-----------------------------------------------------------------------------
(* Requests that begin.                                                     *)

(* What routings and tables name depends on the tables alone. *)
LEMMA SameTables ==
  /\ UNCHANGED items => /\ Named' = Named /\ \A c : Exists(c)' <=> Exists(c)
  /\ UNCHANGED machines => Tabled' = Tabled
  /\ UNCHANGED book => Unknown' = Unknown
  BY DEF Named, Exists, Tabled, Unknown

(* What a request has checked stays so while nothing is written.            *)
LEMMA HoldsOn ==
  ASSUME NEW q, Holds(q), UNCHANGED <<book, tables, lists, orders, loose, edits>>
  PROVE  Holds(q)'
<1>1. /\ UNCHANGED <<book, items, machines, operators, made, lists, loose>>
      /\ UNCHANGED <<drafts, open, archived, punched>>
  BY DEF tables, orders
<1>2. /\ Named' = Named /\ Tabled' = Tabled /\ \A c : Exists(c)' <=> Exists(c)
      /\ Settled' <=> Settled
  BY <1>1, SameTables DEF Settled
<1>3. SeedHolds(q) => SeedHolds(q)'
  BY <1>1 DEF SeedHolds
<1>4. ItemHolds(q) => ItemHolds(q)'
  BY <1>1, <1>2 DEF ItemHolds
<1>5. MachineHolds(q) => MachineHolds(q)'
  BY <1>1, <1>2 DEF MachineHolds
<1>6. ListHolds(q) => ListHolds(q)'
  BY <1>1, <1>2 DEF ListHolds
<1>7. DraftsHold(q) => DraftsHold(q)'
  BY <1>1, <1>2 DEF DraftsHold
<1>8. PunchHolds(q) => PunchHolds(q)'
  BY <1>1 DEF PunchHolds, CanPunch, CanUndo
<1>9. q.doc = drafts => q.doc = drafts'
  BY <1>1
<1> QED BY <1>2, <1>3, <1>4, <1>5, <1>6, <1>7, <1>8, <1>9 DEF Holds

(* A request that begins, all alone, keeps the invariant.                   *)
LEMMA BeginStep ==
  ASSUME Serial, IInv, NEW r \in Clients, Free(r), NEW q, Begin(r, q), Holds(q)
  PROVE  IInv'
<1>1. /\ UNCHANGED <<book, items, machines, operators, made, lists, loose, page, edits>>
      /\ UNCHANGED <<drafts, open, archived, punched, running>>
      /\ UNCHANGED <<book, tables, lists, orders, loose, edits>>
  BY DEF Begin, tables, orders
<1>2. /\ Named' = Named /\ Tabled' = Tabled /\ Unknown' = Unknown /\ \A c : Exists(c)' <=> Exists(c)
      /\ Settled' <=> Settled
  BY <1>1, SameTables DEF Settled
<1>3. TypesOK'
  BY <1>1 DEF IInv, TypesOK, Begin
<1>4. BooksOK' /\ SeedOK' /\ MachinesOK'
  BY <1>1, <1>2 DEF IInv, BooksOK, SeedOK, MachinesOK, Doc
<1>5. RoutingsOK'
  BY <1>1, <1>2 DEF IInv, RoutingsOK
<1>6. RequestsOK'
  <2>1. Holds(q)'
    BY <1>1, HoldsOn
  <2>2. \A s \in Clients : req'[s] = IF s = r THEN q ELSE Idle
    BY DEF IInv, TypesOK, Begin, Free, Quiet
  <2> QED BY <2>1, <2>2 DEF RequestsOK
<1> QED BY <1>3, <1>4, <1>5, <1>6 DEF IInv

(* What each kind of request has checked when it begins: of the items,      *)
LEMMA ItemBegins ==
  ASSUME IInv, NEW r \in Clients,
         CreateItemBegins(r) \/ SaveItemBegins(r) \/ DeleteItemBegins(r)
  PROVE  \E q : Begin(r, q) /\ Holds(q) /\ Free(r)
<1>0. items \in [Items -> Item] /\ edits \in 0..MaxEdits
  BY DEF IInv, TypesOK
<1>1. MayEdit(r) /\ Settled /\ Free(r)
  BY DEF CreateItemBegins, SaveItemBegins, DeleteItemBegins, MayEdit, Ready, Settled
<1>2. ASSUME NEW c \in Items, NEW it \in Item, NEW q,
             q.op # "seed", q.key = "items", q.doc = [items EXCEPT ![c] = it],
             it.ver = 0 => \A o \in open \cup drafts : ItemOf[o] # c,
             MachinesOf(it.steps) \subseteq Tabled \cup MachinesOf(items[c].steps),
             StalePages \/ \A o \in open \ loose : ItemOf[o] = c => Fits(punched[o], it.steps)
      PROVE  Holds(q)
  <2>1. q.doc[c] = it
    BY <1>0, <1>2
  <2> QED BY <1>1, <1>2, <2>1 DEF Holds, ItemHolds
<1>3. CASE CreateItemBegins(r)
  <2>1. PICK c \in Items, steps \in Typed :
           /\ ~Exists(c) /\ ValidItem(steps, <<>>)
           /\ Begin(r, [op |-> "create", key |-> "items", item |-> c,
                        doc |-> [items EXCEPT ![c] = [steps |-> steps, ver |-> 1, born |-> edits + 1]]])
    BY <1>3 DEF CreateItemBegins
  <2> DEFINE it == [steps |-> steps, ver |-> 1, born |-> edits + 1]
  <2>2. it \in Item /\ it.ver # 0 /\ it.steps = steps
    BY <1>0, <1>1, <2>1, TypedSteps, MastersAssumption DEF Item, MayEdit
  <2>3. MachinesOf(steps) \subseteq Tabled
    BY <2>1, NoItemType DEF ValidItem
  <2>4. StalePages \/ \A o \in open \ loose : ItemOf[o] # c
    BY <2>1 DEF IInv, RoutingsOK
  <2> QED BY <1>1, <1>2, <2>1, <2>2, <2>3, <2>4
<1>4. CASE SaveItemBegins(r)
  <2>1. PICK c \in Items, steps \in Typed :
           /\ Exists(c) /\ ValidItem(steps, items[c].steps) /\ PunchSafe(c, steps)
           /\ Begin(r, [op |-> "save", key |-> "items", item |-> c,
                        doc |-> [items EXCEPT ![c].steps = steps, ![c].ver = @ + 1]])
    BY <1>4 DEF SaveItemBegins
  <2> DEFINE it == [[items[c] EXCEPT !.steps = steps] EXCEPT !.ver = @ + 1]
  <2>2. items[c] \in Item
    BY <1>0
  <2>3. it \in Item /\ it.ver # 0 /\ it.steps = steps
    <3> DEFINE put == [items[c] EXCEPT !.steps = steps]
    <3>1. steps \in Seq(Menu)
      BY TypedSteps
    <3>2. put \in Item /\ put.steps = steps
      BY <2>2, <3>1 DEF Item
    <3> HIDE DEF put
    <3>3. \A i \in Item : /\ [i EXCEPT !.ver = @ + 1] \in Item
                         /\ [i EXCEPT !.ver = @ + 1].ver # 0
                         /\ [i EXCEPT !.ver = @ + 1].steps = i.steps
      BY DEF Item
    <3>4. it = [put EXCEPT !.ver = @ + 1]
      BY DEF put
    <3> QED BY <3>2, <3>3, <3>4
  <2>4. [items EXCEPT ![c].steps = steps, ![c].ver = @ + 1] = [items EXCEPT ![c] = it]
    BY <1>0, <2>2 DEF Item
  <2>5. MachinesOf(steps) \subseteq Tabled \cup MachinesOf(items[c].steps)
    BY <2>1 DEF ValidItem
  <2>6. ASSUME ~StalePages, NEW o \in open \ loose, ItemOf[o] = c
        PROVE  Fits(punched[o], steps)
    <3>1. Fits(punched[o], items[c].steps)
      BY <2>6 DEF IInv, RoutingsOK
    <3>2. steps \in Seq(Menu)
      BY TypedSteps
    <3> QED BY <2>1, <2>6, <3>1, <3>2, SaveFits DEF PunchSafe
  <2> HIDE DEF it
  <2> QED BY <1>1, <1>2, <2>1, <2>3, <2>4, <2>5, <2>6
<1>5. CASE DeleteItemBegins(r)
  <2>1. PICK c \in Items :
           /\ ~ItemUsed(c)
           /\ Begin(r, [op |-> "delete", key |-> "items", item |-> c, doc |-> [items EXCEPT ![c] = NoItem]])
    BY <1>5 DEF DeleteItemBegins
  <2>2. \A o \in open \cup drafts : ItemOf[o] # c
    BY <2>1 DEF ItemUsed
  <2> QED BY <1>1, <1>2, <2>1, <2>2, NoItemType
<1> QED BY <1>3, <1>4, <1>5

(* of the machines, the operators and the lists,                            *)
LEMMA TableBegins ==
  ASSUME IInv, NEW r \in Clients,
         \/ SaveMachineBegins(r) \/ DeleteMachineBegins(r)
         \/ SaveOperatorBegins(r) \/ ListBegins(r)
  PROVE  \E q : Begin(r, q) /\ Holds(q) /\ Free(r)
<1>0. /\ machines \in [Machines -> Nat] /\ operators \in [People -> SUBSET Machines]
      /\ lists["absences"] \subseteq People /\ lists["holidays"] \subseteq Days
  BY DEF IInv, TypesOK
<1>1. Settled /\ Free(r)
  BY DEF SaveMachineBegins, DeleteMachineBegins, SaveOperatorBegins, ListBegins, MayEdit, Ready, Settled
<1>2. ASSUME NEW m \in Machines, NEW v \in Nat, NEW q,
             q.op # "seed", q.key = "machines", q.doc = [machines EXCEPT ![m] = v],
             v = 0 => m \notin Named \cup lists["breaks"]
      PROVE  Holds(q)
  <2>1. q.doc[m] = v
    BY <1>0, <1>2
  <2> QED BY <1>1, <1>2, <2>1 DEF Holds, MachineHolds
<1>3. CASE SaveMachineBegins(r)
  <2>1. PICK m \in Machines :
           Begin(r, [op |-> IF machines[m] = 0 THEN "create" ELSE "save", key |-> "machines",
                     doc |-> [machines EXCEPT ![m] = @ + 1]])
    BY <1>3 DEF SaveMachineBegins
  <2>2. machines[m] + 1 \in Nat /\ machines[m] + 1 # 0
    BY <1>0
  <2> DEFINE q == [op |-> IF machines[m] = 0 THEN "create" ELSE "save", key |-> "machines",
                   doc |-> [machines EXCEPT ![m] = machines[m] + 1]]
  <2>3. q.op # "seed" /\ q.key = "machines" /\ q.doc = [machines EXCEPT ![m] = machines[m] + 1]
    OBVIOUS
  <2>4. Begin(r, q)
    BY <2>1
  <2> HIDE DEF q
  <2>5. Holds(q)
    BY <1>2, <2>2, <2>3
  <2> QED BY <1>1, <2>4, <2>5
<1>4. CASE DeleteMachineBegins(r)
  <2>1. PICK m \in Machines :
           /\ ~MachineUsed(m)
           /\ Begin(r, [op |-> "delete", key |-> "machines", doc |-> [machines EXCEPT ![m] = 0]])
    BY <1>4 DEF DeleteMachineBegins
  <2>2. m \notin Named \cup lists["breaks"]
    BY <2>1 DEF MachineUsed
  <2> QED BY <1>1, <1>2, <2>1, <2>2
<1>5. CASE SaveOperatorBegins(r)
  <2>1. PICK p \in People, ms \in SUBSET Machines :
           Begin(r, [op |-> IF ms = {} THEN "delete" ELSE "save", key |-> "operators",
                     doc |-> [operators EXCEPT ![p] = ms]])
    BY <1>5 DEF SaveOperatorBegins
  <2> DEFINE q == [op |-> IF ms = {} THEN "delete" ELSE "save", key |-> "operators",
                   doc |-> [operators EXCEPT ![p] = ms]]
  <2>2. q.op # "seed" /\ q.key = "operators" /\ q.doc \in [People -> SUBSET Machines]
    BY <1>0
  <2>3. Begin(r, q)
    BY <2>1
  <2> HIDE DEF q
  <2> QED BY <1>1, <2>2, <2>3 DEF Holds
<1>6. CASE ListBegins(r)
  <2>1. PICK l \in Lists : \E x \in CanList(l) \cup lists[l] :
           Begin(r, [op |-> IF x \in lists[l] THEN "unlist" ELSE "list", key |-> l,
                     doc |-> IF x \in lists[l] THEN lists[l] \ {x} ELSE lists[l] \cup {x}])
    BY <1>6 DEF ListBegins
  <2>2. PICK x \in CanList(l) \cup lists[l] :
           Begin(r, [op |-> IF x \in lists[l] THEN "unlist" ELSE "list", key |-> l,
                     doc |-> IF x \in lists[l] THEN lists[l] \ {x} ELSE lists[l] \cup {x}])
    BY <2>1
  <2> DEFINE q == [op |-> IF x \in lists[l] THEN "unlist" ELSE "list", key |-> l,
                   doc |-> IF x \in lists[l] THEN lists[l] \ {x} ELSE lists[l] \cup {x}]
  <2>3. q.op # "seed" /\ q.key = l /\ q.doc \subseteq lists[l] \cup CanList(l)
    OBVIOUS
  <2>4. Begin(r, q)
    BY <2>2
  <2> HIDE DEF q
  <2>5. /\ CanList("absences") \subseteq People /\ CanList("breaks") = Tabled \cup Named
        /\ CanList("holidays") = Days
    BY DEF CanList
  <2>6. ListHolds(q)
    BY <1>0, <2>3, <2>5 DEF ListHolds
  <2> QED BY <1>1, <2>3, <2>4, <2>6 DEF Holds
<1> QED BY <1>3, <1>4, <1>5, <1>6

(* of the drafts, the order book and the punches,                           *)
LEMMA OrderBegins ==
  ASSUME IInv, NEW r \in Clients,
         DraftsBegins(r) \/ AddBegins(r) \/ PunchBegins(r) \/ UndoBegins(r)
  PROVE  \E q : Begin(r, q) /\ Holds(q) /\ Free(r)
<1>0. /\ punched \in [Orders -> SUBSET Names] /\ open \cup archived \subseteq Orders
      /\ drafts # {} \/ open \cup archived # {} => Settled
  BY DEF IInv, TypesOK, BooksOK, SeedOK
<1>1. CASE DraftsBegins(r)
  <2>1. PICK ds \in SUBSET {o \in Orders : Draftable(o)} :
           Begin(r, [op |-> "draft", key |-> "drafts", doc |-> ds])
    BY <1>1 DEF DraftsBegins
  <2>2. Settled /\ Free(r)
    BY <1>1 DEF DraftsBegins, MayEdit, Ready, Settled
  <2> DEFINE q == [op |-> "draft", key |-> "drafts", doc |-> ds]
  <2>3. DraftsHold(q)
    BY DEF DraftsHold, Draftable
  <2> QED BY <2>1, <2>2, <2>3 DEF Holds
<1>2. CASE AddBegins(r)
  <2>1. Settled /\ Free(r) /\ Begin(r, [op |-> "add", key |-> "book", doc |-> drafts])
    BY <1>0, <1>2 DEF AddBegins
  <2> QED BY <2>1 DEF Holds
<1>3. CASE PunchBegins(r)
  <2>1. PICK o \in open \cup archived, n \in Names :
           /\ CanPunch(o, n)
           /\ StalePages \/ n \in NamesOf(items[ItemOf[o]].steps)
           /\ Begin(r, [op |-> "punch", key |-> "punches", order |-> o, doc |-> n])
    BY <1>3 DEF PunchBegins
  <2>2. Settled /\ Free(r)
    BY <1>0, <1>3 DEF PunchBegins
  <2> DEFINE q == [op |-> "punch", key |-> "punches", order |-> o, doc |-> n]
  <2>3. PunchHolds(q)
    BY <2>1 DEF PunchHolds
  <2> QED BY <2>1, <2>2, <2>3 DEF Holds
<1>4. CASE UndoBegins(r)
  <2>1. PICK o \in open \cup archived : \E n \in punched[o] :
           CanUndo(o, n) /\ Begin(r, [op |-> "undo", key |-> "punches", order |-> o, doc |-> n])
    BY <1>4 DEF UndoBegins
  <2>2. PICK n \in punched[o] :
           CanUndo(o, n) /\ Begin(r, [op |-> "undo", key |-> "punches", order |-> o, doc |-> n])
    BY <2>1
  <2>3. Settled /\ Free(r) /\ n \in Names
    BY <1>0, <1>4, <2>2 DEF UndoBegins
  <2> DEFINE q == [op |-> "undo", key |-> "punches", order |-> o, doc |-> n]
  <2>4. PunchHolds(q)
    BY <2>2, <2>3 DEF PunchHolds
  <2> QED BY <2>2, <2>3, <2>4 DEF Holds
<1> QED BY <1>1, <1>2, <1>3, <1>4

(* and of a table that is not there.                                        *)
LEMMA TableSeeds ==
  ASSUME IInv, NEW r \in Clients, SeedBegins(r)
  PROVE  \E q : Begin(r, q) /\ Holds(q) /\ Free(r)
<1>1. PICK t \in Tables \ made, b \in book : Begin(r, [op |-> "seed", key |-> t, doc |-> SeedDoc(t, b)])
  BY DEF SeedBegins
<1> DEFINE q == [op |-> "seed", key |-> t, doc |-> SeedDoc(t, b)]
<1>2. SeedHolds(q)
  BY DEF SeedHolds
<1> QED BY <1>1, <1>2 DEF Holds, SeedBegins

-----------------------------------------------------------------------------
(* Requests that write.                                                     *)

(* The request that ends was the only one.                                  *)
LEMMA EndsAlone ==
  ASSUME IInv, NEW r \in Clients, req[r] # Idle, Ends(r)
  PROVE  /\ \A s \in Clients : req'[s] = Idle
         /\ req' = [s \in Clients |-> req'[s]] /\ RequestsOK' /\ Holds(req[r])
<1>1. \A s \in Clients : req'[s] = IF s = r THEN Idle ELSE req[s]
  BY DEF Ends, IInv, TypesOK
<1>2. \A s \in Clients : req'[s] = Idle
  BY <1>1 DEF IInv, RequestsOK
<1>3. req' = [s \in Clients |-> req'[s]]
  BY DEF Ends, IInv, TypesOK
<1> QED BY <1>2, <1>3 DEF RequestsOK, IInv

(* A table comes into being as the workbook has it.                         *)
LEMMA SeedWrites ==
  ASSUME IInv, NEW r \in Clients, WriteTable(r), req[r].op = "seed"
  PROVE  IInv'
<1> DEFINE q == req[r]
<1>1. /\ RequestsOK' /\ req' = [s \in Clients |-> req'[s]] /\ Holds(q)
  BY EndsAlone DEF WriteTable
<1>2. /\ UNCHANGED <<book, lists, drafts, open, archived, punched, running, page, edits>>
      /\ made' = made \cup {q.key} /\ q # Idle
      /\ items'     = IF q.key = "items"     THEN q.doc ELSE items
      /\ machines'  = IF q.key = "machines"  THEN q.doc ELSE machines
      /\ operators' = IF q.key = "operators" THEN q.doc ELSE operators
      /\ loose' = loose \cup {o \in archived : items'[ItemOf[o]] # items[ItemOf[o]]}
  BY DEF WriteTable, orders, Its
<1> HIDE DEF q
<1>3. PICK b \in book : q.doc = SeedDoc(q.key, b) /\ q.key \in Tables \ made
  BY <1>1 DEF Holds, SeedHolds, q
<1>4. /\ book = {b} /\ ~Settled /\ b \in Workbooks
      /\ open = {} /\ archived = {} /\ drafts = {} /\ lists["breaks"] = {}
      /\ \A t \in made : Doc(t) = SeedDoc(t, b)
  BY <1>3 DEF IInv, TypesOK, SeedOK, Settled
<1>5. /\ b.items \in [Items -> Item] /\ b.operators \in [People -> SUBSET Machines]
      /\ SeedDoc("items", b) = b.items /\ SeedDoc("operators", b) = b.operators
      /\ SeedDoc("machines", b) = [m \in Machines |-> IF m \in b.machines THEN 1 ELSE 0]
  BY <1>4, MastersAssumption DEF SeedDoc
<1>6. TypesOK'
  <2>1. /\ items' \in [Items -> Item] /\ machines' \in [Machines -> Nat]
        /\ operators' \in [People -> SUBSET Machines]
    BY <1>2, <1>3, <1>5 DEF IInv, TypesOK
  <2>2. loose' \subseteq Orders /\ made' \subseteq Tables
    BY <1>2, <1>3, <1>4 DEF IInv, TypesOK
  <2> QED BY <1>1, <1>2, <2>1, <2>2 DEF IInv, TypesOK
<1>7. \A t \in made' : Doc(t)' = SeedDoc(t, b)
  <2>1. \A t \in made : t # q.key /\ t \in Tables
    BY <1>3 DEF IInv, TypesOK
  <2>2. ASSUME NEW t \in Tables, t = q.key PROVE Doc(t)' = SeedDoc(t, b)
    <3>1. CASE t = "items"
      BY <1>2, <1>3, <2>2, <3>1 DEF Doc
    <3>2. CASE t = "machines"
      BY <1>2, <1>3, <2>2, <3>2 DEF Doc
    <3>3. CASE t = "operators"
      BY <1>2, <1>3, <2>2, <3>3 DEF Doc
    <3> QED BY <3>1, <3>2, <3>3 DEF Tables
  <2>3. \A t \in made : Doc(t)' = Doc(t)
    BY <1>2, <2>1 DEF Doc, Tables
  <2>4. ASSUME NEW t \in made' PROVE Doc(t)' = SeedDoc(t, b)
    <3>1. CASE t \in made
      BY <1>4, <2>3, <3>1
    <3>2. CASE t = q.key
      BY <1>3, <2>2, <3>2
    <3> QED BY <1>2, <2>4, <3>1, <3>2
  <2> QED BY <2>4
<1>8. BooksOK' /\ SeedOK' /\ RoutingsOK'
  BY <1>2, <1>4, <1>7 DEF IInv, BooksOK, SeedOK, RoutingsOK
<1>9. MachinesOK'
  <2>1. SUFFICES ASSUME made' = Tables PROVE Named' \subseteq Tabled' \cup Unknown'
    BY <1>2, <1>4 DEF MachinesOK, Settled
  <2>2. items' = b.items /\ machines' = [m \in Machines |-> IF m \in b.machines THEN 1 ELSE 0]
    <3>1. Doc("items")' = b.items /\ Doc("machines")' = SeedDoc("machines", b)
      BY <1>5, <1>7, <2>1 DEF Tables
    <3> QED BY <1>5, <3>1 DEF Doc
  <2>3. Tabled' = b.machines
    BY <1>4, <2>2, MastersAssumption DEF Tabled
  <2>4. ASSUME NEW m \in Named' PROVE m \in Tabled' \cup Unknown'
    <3>1. PICK c \in Items : m \in MachinesOf(b.items[c].steps)
      BY <2>2, <2>4 DEF Named
    <3>2. CASE m \in b.machines
      BY <2>3, <3>2
    <3>3. CASE m \notin b.machines
      <4>1. b \in book'
        BY <1>2, <1>4
      <4> DEFINE part == MachinesOf(b.items[c].steps) \ b.machines
                 all == {MachinesOf(w.items[d].steps) \ w.machines : d \in Items, w \in book'}
      <4>2. m \in part
        BY <3>1, <3>3
      <4>3. Unknown' = UNION all
        BY DEF Unknown
      <4>4. part \in all
        BY <4>1
      <4> HIDE DEF part, all
      <4> QED BY <4>2, <4>3, <4>4
    <3> QED BY <3>2, <3>3
  <2> QED BY <2>4
<1> QED BY <1>1, <1>6, <1>8, <1>9 DEF IInv

(* An edited item keeps what is ordered routed and what is recorded first.  *)
LEMMA ItemWrites ==
  ASSUME IInv, NEW r \in Clients, WriteTable(r), req[r].op # "seed", req[r].key = "items"
  PROVE  IInv'
<1> DEFINE q == req[r]
<1>1. /\ RequestsOK' /\ req' = [s \in Clients |-> req'[s]] /\ Holds(q)
  BY EndsAlone DEF WriteTable
<1>2. /\ UNCHANGED <<book, lists, drafts, open, archived, punched, running, page, machines, operators>>
      /\ made' = made \cup {"items"} /\ items' = q.doc /\ Counts
      /\ loose' = loose \cup {o \in archived : items'[ItemOf[o]] # items[ItemOf[o]]}
  BY DEF WriteTable, orders, Its
<1> HIDE DEF q
<1>3. q.op # "seed" /\ q.key = "items"
  BY DEF q
<1>4. Settled /\ ItemHolds(q)
  BY <1>1, <1>3 DEF Holds, Lists
<1>5. PICK c \in Items :
        /\ q.doc[c] \in Item /\ q.doc = [items EXCEPT ![c] = q.doc[c]]
        /\ q.doc[c].ver = 0 => \A o \in open \cup drafts : ItemOf[o] # c
        /\ MachinesOf(q.doc[c].steps) \subseteq Tabled \cup MachinesOf(items[c].steps)
        /\ StalePages \/ \A o \in open \ loose : ItemOf[o] = c => Fits(punched[o], q.doc[c].steps)
  BY <1>4 DEF ItemHolds
<1>6. /\ items \in [Items -> Item] /\ items' \in [Items -> Item]
      /\ \A d \in Items : d # c => items'[d] = items[d]
      /\ items'[c] = q.doc[c]
  BY <1>2, <1>5 DEF IInv, TypesOK
<1>7. TypesOK'
  <2>1. edits' \in 0..MaxEdits /\ made' \subseteq Tables
    BY <1>2, MastersAssumption DEF IInv, TypesOK, Counts, Tables
  <2>2. loose' \subseteq Orders
    BY <1>2 DEF IInv, TypesOK, BooksOK
  <2> QED BY <1>1, <1>2, <1>6, <2>1, <2>2 DEF IInv, TypesOK
<1>8. BooksOK' /\ SeedOK' /\ Settled'
  <2>1. Settled'
    BY <1>2, <1>4 DEF Settled, Tables
  <2> QED BY <1>2, <2>1 DEF IInv, BooksOK, SeedOK
<1>9. RoutingsOK'
  <2>1. \A o \in Orders : ItemOf[o] \in Items
    BY MastersAssumption
  <2>2. ASSUME NEW o \in ((open \cup archived) \ loose') \cup drafts PROVE Exists(ItemOf[o])'
    <3>1. o \in Orders /\ o \in ((open \cup archived) \ loose) \cup drafts /\ Exists(ItemOf[o])
      BY <1>2, <2>2 DEF IInv, BooksOK, RoutingsOK
    <3>2. CASE ItemOf[o] # c \/ items'[c] = items[c]
      BY <1>6, <2>1, <3>1, <3>2 DEF Exists
    <3>3. CASE ItemOf[o] = c /\ items'[c] # items[c]
      <4>1. o \in open \cup drafts
        BY <1>2, <2>2, <3>3
      <4>2. q.doc[c].ver # 0 /\ q.doc[c].ver \in Nat
        BY <1>5, <3>3, <4>1 DEF Item
      <4> QED BY <1>6, <3>3, <4>2 DEF Exists
    <3> QED BY <3>2, <3>3
  <2>3. ASSUME ~StalePages, NEW o \in (open \cup archived) \ loose'
        PROVE  Fits(punched[o], items'[ItemOf[o]].steps)
    <3>1. o \in Orders /\ o \notin loose /\ Fits(punched[o], items[ItemOf[o]].steps)
      BY <1>2, <2>3 DEF IInv, BooksOK, RoutingsOK
    <3>2. CASE ItemOf[o] # c \/ items'[c] = items[c]
      BY <1>6, <2>1, <3>1, <3>2
    <3>3. CASE ItemOf[o] = c /\ items'[c] # items[c]
      <4>1. o \in open \ loose
        BY <1>2, <2>3, <3>1, <3>3
      <4> QED BY <1>5, <1>6, <2>3, <3>3, <4>1
    <3> QED BY <3>2, <3>3
  <2> QED BY <1>2, <2>2, <2>3 DEF RoutingsOK
<1>10. MachinesOK'
  <2>1. Tabled' = Tabled /\ Unknown' = Unknown
    BY <1>2, SameTables
  <2>2. Named \cup lists["breaks"] \subseteq Tabled \cup Unknown
    BY <1>4 DEF IInv, MachinesOK
  <2>3. ASSUME NEW m \in Named' PROVE m \in Tabled \cup Named
    <3>1. PICK d \in Items : m \in MachinesOf(items'[d].steps)
      BY <2>3 DEF Named
    <3>2. CASE d # c
      BY <1>6, <3>1, <3>2 DEF Named
    <3>3. CASE d = c
      <4>1. MachinesOf(items[c].steps) \subseteq Named
        BY DEF Named
      <4> QED BY <1>5, <1>6, <3>1, <3>3, <4>1
    <3> QED BY <3>2, <3>3
  <2> QED BY <1>2, <2>1, <2>2, <2>3 DEF MachinesOK
<1> QED BY <1>1, <1>7, <1>8, <1>9, <1>10 DEF IInv

(* A machine stays in the table while a routing or a break names it.        *)
LEMMA MachineWrites ==
  ASSUME IInv, NEW r \in Clients, WriteTable(r), req[r].op # "seed", req[r].key \in {"machines", "operators"}
  PROVE  IInv'
<1> DEFINE q == req[r]
<1>1. /\ RequestsOK' /\ req' = [s \in Clients |-> req'[s]] /\ Holds(q)
  BY EndsAlone DEF WriteTable
<1>2. /\ UNCHANGED <<book, lists, drafts, open, archived, punched, running, page, items>>
      /\ made' = made \cup {q.key} /\ Counts
      /\ machines'  = IF q.key = "machines"  THEN q.doc ELSE machines
      /\ operators' = IF q.key = "operators" THEN q.doc ELSE operators
      /\ loose' = loose \cup {o \in archived : items'[ItemOf[o]] # items[ItemOf[o]]}
  BY DEF WriteTable, orders, Its
<1> HIDE DEF q
<1>3. q.op # "seed" /\ q.key \in {"machines", "operators"}
  BY DEF q
<1>4. /\ Settled
      /\ q.key = "machines" => MachineHolds(q)
      /\ q.key = "operators" => q.doc \in [People -> SUBSET Machines]
  BY <1>1, <1>3 DEF Holds, Lists
<1>5. loose' = loose
  BY <1>2
<1>6. machines' \in [Machines -> Nat] /\ \A m \in Tabled \ Tabled' : m \notin Named \cup lists["breaks"]
  <2>1. machines \in [Machines -> Nat]
    BY DEF IInv, TypesOK
  <2>2. CASE q.key = "operators"
    <3>1. machines' = machines
      BY <1>2, <2>2
    <3> QED BY <2>1, <3>1, SameTables
  <2>3. CASE q.key = "machines"
    <3>1. PICK m \in Machines :
             /\ q.doc[m] \in Nat /\ q.doc = [machines EXCEPT ![m] = q.doc[m]]
             /\ q.doc[m] = 0 => m \notin Named \cup lists["breaks"]
      BY <1>4, <2>3 DEF MachineHolds
    <3>2. machines' \in [Machines -> Nat] /\ \A n \in Machines : n # m => machines'[n] = machines[n]
      BY <1>2, <2>1, <2>3, <3>1
    <3>3. machines'[m] = q.doc[m]
      BY <1>2, <2>3
    <3> QED BY <3>1, <3>2, <3>3 DEF Tabled
  <2> QED BY <1>3, <2>2, <2>3
<1>7. TypesOK'
  <2>1. edits' \in 0..MaxEdits /\ made' \subseteq Tables
    BY <1>2, <1>3, MastersAssumption DEF IInv, TypesOK, Counts, Tables
  <2>2. operators' \in [People -> SUBSET Machines]
    BY <1>2, <1>4 DEF IInv, TypesOK
  <2> QED BY <1>1, <1>2, <1>5, <1>6, <2>1, <2>2 DEF IInv, TypesOK
<1>8. BooksOK' /\ SeedOK' /\ RoutingsOK'
  <2>1. Settled'
    BY <1>2, <1>3, <1>4 DEF Settled, Tables
  <2> QED BY <1>2, <1>5, <2>1, SameTables DEF IInv, BooksOK, SeedOK, RoutingsOK
<1>9. MachinesOK'
  <2>1. Named' = Named /\ Unknown' = Unknown
    BY <1>2, SameTables
  <2>2. Named \cup lists["breaks"] \subseteq Tabled \cup Unknown
    BY <1>4 DEF IInv, MachinesOK
  <2> QED BY <1>2, <1>6, <2>1, <2>2 DEF MachinesOK
<1> QED BY <1>1, <1>7, <1>8, <1>9 DEF IInv

(* A break names a machine of the table or of a routing.                    *)
LEMMA ListWrites ==
  ASSUME IInv, NEW r \in Clients, WriteList(r)
  PROVE  IInv'
<1> DEFINE q == req[r]
<1>1. /\ RequestsOK' /\ req' = [s \in Clients |-> req'[s]] /\ Holds(q)
  BY EndsAlone DEF WriteList
<1>2. /\ UNCHANGED <<book, items, machines, operators, made, drafts, open, archived, punched, running, page, loose>>
      /\ q.key \in Lists /\ Counts /\ lists' = [lists EXCEPT ![q.key] = q.doc]
  BY DEF WriteList, orders, tables
<1> HIDE DEF q
<1>3. Settled /\ ListHolds(q)
  BY <1>1, <1>2 DEF Holds, Lists, Tables
<1>4. /\ Named' = Named /\ Unknown' = Unknown /\ Tabled' = Tabled /\ (Settled' <=> Settled)
      /\ \A c : Exists(c)' <=> Exists(c)
  BY <1>2, SameTables DEF Settled
<1>5. Named \subseteq Machines
  <2>1. \A c \in Items : items[c].steps \in Seq(Menu)
    BY DEF IInv, TypesOK, Item
  <2> QED BY <2>1, RoutingTypes DEF Named
<1>6. /\ lists' \in [Lists -> SUBSET (People \cup Machines \cup Days)]
      /\ lists'["absences"] \subseteq People /\ lists'["holidays"] \subseteq Days
      /\ lists'["breaks"] \subseteq lists["breaks"] \cup Tabled \cup Named
      /\ lists'["breaks"] \subseteq Machines
  <2>1. /\ lists \in [Lists -> SUBSET (People \cup Machines \cup Days)] /\ lists["absences"] \subseteq People
        /\ lists["holidays"] \subseteq Days /\ lists["breaks"] \subseteq Machines
        /\ "absences" \in Lists /\ "holidays" \in Lists /\ "breaks" \in Lists
    BY DEF IInv, TypesOK, Lists
  <2>2. Tabled \subseteq Machines
    BY DEF Tabled
  <2>3. q.doc \subseteq People \cup Machines \cup Days
    BY <1>2, <1>3, <1>5, <2>1, <2>2 DEF ListHolds, Lists
  <2>4. \A l \in Lists : lists'[l] = IF l = q.key THEN q.doc ELSE lists[l]
    BY <1>2, <2>1
  <2>5. lists' \in [Lists -> SUBSET (People \cup Machines \cup Days)]
    BY <1>2, <2>1, <2>3
  <2> QED BY <1>3, <1>5, <2>1, <2>2, <2>4, <2>5 DEF ListHolds
<1>7. TypesOK'
  <2>1. edits' \in 0..MaxEdits
    BY <1>2, MastersAssumption DEF IInv, TypesOK, Counts
  <2> QED BY <1>1, <1>2, <1>6, <2>1 DEF IInv, TypesOK
<1>8. BooksOK' /\ SeedOK' /\ RoutingsOK'
  BY <1>2, <1>3, <1>4 DEF IInv, BooksOK, SeedOK, RoutingsOK
<1>9. MachinesOK'
  BY <1>3, <1>4, <1>6 DEF IInv, MachinesOK
<1> QED BY <1>1, <1>7, <1>8, <1>9 DEF IInv

(* A draft line has a routing, and becomes an order of its own.             *)
LEMMA DraftWrites ==
  ASSUME IInv, NEW r \in Clients, WriteDrafts(r) \/ AddOrders(r)
  PROVE  IInv'
<1> DEFINE q == req[r]
<1>1. /\ RequestsOK' /\ req' = [s \in Clients |-> req'[s]] /\ Holds(q)
  BY EndsAlone DEF WriteDrafts, AddOrders, Its
<1>2. /\ UNCHANGED <<book, items, machines, operators, made, lists, archived, punched, running, page, loose>>
      /\ \/ q.key = "drafts" /\ Counts /\ drafts' = q.doc /\ open' = open
         \/ q.key = "book" /\ edits' = edits /\ drafts' = {} /\ open' = open \cup q.doc
  BY DEF WriteDrafts, AddOrders, tables, Its
<1> HIDE DEF q
<1>3. /\ Settled
      /\ q.key = "drafts" => DraftsHold(q)
      /\ q.key = "book" => q.doc = drafts
  BY <1>1, <1>2 DEF Holds, Lists, Tables
<1>4. /\ Named' = Named /\ Unknown' = Unknown /\ Tabled' = Tabled /\ (Settled' <=> Settled)
      /\ \A c : Exists(c)' <=> Exists(c)
  BY <1>2, SameTables DEF Settled
<1>5. TypesOK'
  <2>1. edits' \in 0..MaxEdits
    BY <1>2, MastersAssumption DEF IInv, TypesOK, Counts
  <2> QED BY <1>1, <1>2, <2>1 DEF IInv, TypesOK
<1>6. BooksOK'
  BY <1>2, <1>3 DEF IInv, BooksOK, DraftsHold
<1>7. RoutingsOK'
  <2>1. \A o \in ((open' \cup archived') \ loose') \cup drafts' : Exists(ItemOf[o])
    BY <1>2, <1>3 DEF IInv, RoutingsOK, DraftsHold
  <2>2. ASSUME ~StalePages, NEW o \in (open' \cup archived') \ loose'
        PROVE  Fits(punched[o], items[ItemOf[o]].steps)
    <3>1. CASE o \in open \cup archived
      BY <1>2, <2>2, <3>1 DEF IInv, RoutingsOK
    <3>2. CASE o \in drafts
      <4>1. punched[o] = {}
        BY <3>2 DEF IInv, BooksOK
      <4> QED BY <4>1, NothingFits
    <3> QED BY <1>2, <1>3, <3>1, <3>2
  <2> QED BY <1>2, <1>4, <2>1, <2>2 DEF RoutingsOK
<1>8. SeedOK' /\ MachinesOK'
  BY <1>2, <1>3, <1>4 DEF IInv, SeedOK, MachinesOK
<1> QED BY <1>1, <1>5, <1>6, <1>7, <1>8 DEF IInv

(* Recorded production stays at the front of the routing.                   *)
LEMMA PunchWrites ==
  ASSUME IInv, NEW r \in Clients, WritePunch(r)
  PROVE  IInv'
<1> DEFINE q == req[r]
<1>1. /\ RequestsOK' /\ req' = [s \in Clients |-> req'[s]] /\ Holds(q)
  BY EndsAlone DEF WritePunch, Its
<1>2. /\ UNCHANGED <<book, items, machines, operators, made, lists, drafts, open, archived, running, page, loose, edits>>
      /\ q.key = "punches"
      /\ punched' = [punched EXCEPT ![q.order] = IF q.op = "punch" THEN @ \cup {q.doc} ELSE @ \ {q.doc}]
  BY DEF WritePunch, tables, Its
<1> HIDE DEF q
<1>3. Settled /\ PunchHolds(q)
  BY <1>1, <1>2 DEF Holds, Lists, Tables
<1>4. /\ Named' = Named /\ Unknown' = Unknown /\ Tabled' = Tabled /\ (Settled' <=> Settled)
      /\ \A c : Exists(c)' <=> Exists(c)
  BY <1>2, SameTables DEF Settled
<1>5. /\ punched \in [Orders -> SUBSET Names] /\ q.order \in Orders /\ q.doc \in Names
      /\ q.order \in open \cup archived
  BY <1>3 DEF IInv, TypesOK, BooksOK, PunchHolds
<1>6. /\ punched' \in [Orders -> SUBSET Names]
      /\ \A o \in Orders : o # q.order => punched'[o] = punched[o]
      /\ q.op = "punch" => punched'[q.order] = punched[q.order] \cup {q.doc}
      /\ q.op # "punch" => punched'[q.order] = punched[q.order] \ {q.doc}
  BY <1>2, <1>5
<1>7. TypesOK' /\ BooksOK'
  BY <1>1, <1>2, <1>5, <1>6 DEF IInv, TypesOK, BooksOK
<1>8. RoutingsOK'
  <2>1. ASSUME ~StalePages, NEW o \in (open \cup archived) \ loose
        PROVE  Fits(punched'[o], items[ItemOf[o]].steps)
    <3>1. Fits(punched[o], items[ItemOf[o]].steps) /\ o \in Orders
      BY <2>1 DEF IInv, RoutingsOK, BooksOK
    <3>2. items[ItemOf[o]].steps \in Seq(Menu)
      BY <3>1, MastersAssumption DEF IInv, TypesOK, Item
    <3>3. CASE o # q.order
      BY <1>6, <3>1, <3>3
    <3>4. CASE o = q.order /\ q.op = "punch"
      <4>1. /\ q.doc \in NamesOf(items[ItemOf[o]].steps)
            /\ \A i \in DOMAIN items[ItemOf[o]].steps :
                 items[ItemOf[o]].steps[i].name = q.doc /\ i > 1 =>
                     items[ItemOf[o]].steps[i - 1].name \in punched[o]
        BY <1>3, <2>1, <3>4 DEF PunchHolds, CanPunch
      <4>2. Fits(punched[o] \cup {q.doc}, items[ItemOf[o]].steps)
        BY <3>1, <3>2, <4>1, PunchFits
      <4> QED BY <1>6, <3>4, <4>2
    <3>5. CASE o = q.order /\ q.op = "undo"
      <4>1. \A i \in 1..Len(items[ItemOf[o]].steps) - 1 :
              items[ItemOf[o]].steps[i].name = q.doc =>
                  items[ItemOf[o]].steps[i + 1].name \notin punched[o]
        BY <1>3, <3>5 DEF PunchHolds, CanUndo
      <4>2. Fits(punched[o] \ {q.doc}, items[ItemOf[o]].steps)
        BY <3>1, <3>2, <4>1, UndoFits
      <4> QED BY <1>6, <3>5, <4>2
    <3> QED BY <1>3, <3>3, <3>4, <3>5 DEF PunchHolds
  <2> QED BY <1>2, <1>4, <2>1 DEF IInv, RoutingsOK
<1>9. SeedOK' /\ MachinesOK'
  BY <1>2, <1>3, <1>4 DEF IInv, SeedOK, MachinesOK
<1> QED BY <1>1, <1>7, <1>8, <1>9 DEF IInv

-----------------------------------------------------------------------------
(* What happens between requests: a page is loaded, an order is completed   *)
(* or comes back, the frozen rows are rewritten.                            *)
LEMMA QuietStep ==
  ASSUME Serial, IInv, (\E r \in Clients : Opens(r) \/ Complete(r) \/ Reopen(r)) \/ Freeze
  PROVE  IInv'
<1>1. /\ UNCHANGED <<book, items, machines, operators, made, lists, drafts, punched, loose, req, edits>>
      /\ Quiet
  BY DEF Opens, Complete, Reopen, Freeze, tables, orders, Ready, Free
<1>2. /\ Named' = Named /\ Unknown' = Unknown /\ Tabled' = Tabled /\ (Settled' <=> Settled)
      /\ \A c : Exists(c)' <=> Exists(c)
  BY <1>1, SameTables DEF Settled
<1>3. Named \subseteq Machines
  <2>1. \A c \in Items : items[c].steps \in Seq(Menu)
    BY DEF IInv, TypesOK, Item
  <2> QED BY <2>1, RoutingTypes DEF Named
<1>4. page' \in [Clients -> [Items -> Item]] /\ running' \subseteq Machines
  <2>1. /\ \/ \E r \in Clients : page' = [page EXCEPT ![r] = items]
           \/ page' = page
        /\ running' = running \/ running' \subseteq Named
    BY DEF Opens, Complete, Reopen, Freeze, orders
  <2> QED BY <1>3, <2>1 DEF IInv, TypesOK
<1>5. /\ open' \cup archived' = open \cup archived /\ open' \cap archived' = {}
  BY DEF Opens, Complete, Reopen, Freeze, orders, IInv, BooksOK
<1>6. TypesOK'
  BY <1>1, <1>4 DEF IInv, TypesOK
<1>7. BooksOK' /\ SeedOK'
  BY <1>1, <1>2, <1>5 DEF IInv, BooksOK, SeedOK, Doc
<1>8. RoutingsOK' /\ MachinesOK'
  BY <1>1, <1>2, <1>5 DEF IInv, RoutingsOK, MachinesOK
<1>9. RequestsOK'
  BY <1>1 DEF RequestsOK, Quiet
<1> QED BY <1>6, <1>7, <1>8, <1>9 DEF IInv

(* A request that writes keeps the invariant, whatever it writes.           *)
LEMMA WriteStep ==
  ASSUME IInv, NEW r \in Clients,
         WriteTable(r) \/ WriteList(r) \/ WriteDrafts(r) \/ AddOrders(r) \/ WritePunch(r)
  PROVE  IInv'
<1>1. CASE WriteTable(r)
  <2>1. req[r].key \in {"items", "machines", "operators"}
    BY <1>1 DEF WriteTable, Tables
  <2> QED BY <1>1, <2>1, SeedWrites, ItemWrites, MachineWrites
<1> QED BY <1>1, ListWrites, DraftWrites, PunchWrites

(* Every step does.                                                         *)
LEMMA Step == ASSUME Serial, IInv, [Next]_vars PROVE IInv'
<1>1. CASE \E r \in Clients : \/ CreateItemBegins(r) \/ SaveItemBegins(r) \/ DeleteItemBegins(r)
                              \/ SaveMachineBegins(r) \/ DeleteMachineBegins(r)
                              \/ SaveOperatorBegins(r) \/ ListBegins(r)
                              \/ DraftsBegins(r) \/ AddBegins(r) \/ PunchBegins(r) \/ UndoBegins(r)
                              \/ SeedBegins(r)
  <2>1. PICK r \in Clients : \E q : Begin(r, q) /\ Holds(q) /\ Free(r)
    BY <1>1, ItemBegins, TableBegins, OrderBegins, TableSeeds
  <2> QED BY <2>1, BeginStep
<1>2. CASE \E r \in Clients : \/ WriteTable(r) \/ WriteList(r) \/ WriteDrafts(r)
                              \/ AddOrders(r) \/ WritePunch(r)
  BY <1>2, WriteStep
<1>3. CASE (\E r \in Clients : Opens(r) \/ Complete(r) \/ Reopen(r)) \/ Freeze
  BY <1>3, QuietStep
<1>4. CASE UNCHANGED vars
  <2>1. /\ UNCHANGED <<book, items, machines, operators, made, lists, drafts, open, archived>>
        /\ UNCHANGED <<punched, running, loose, page, req, edits>>
        /\ UNCHANGED <<book, tables, lists, orders, loose, edits>>
    BY <1>4 DEF vars, tables, orders
  <2>2. /\ Named' = Named /\ Tabled' = Tabled /\ Unknown' = Unknown /\ \A c : Exists(c)' <=> Exists(c)
        /\ Settled' <=> Settled
    BY <2>1, SameTables DEF Settled
  <2>3. TypesOK' /\ BooksOK' /\ SeedOK' /\ MachinesOK'
    BY <2>1, <2>2 DEF IInv, TypesOK, BooksOK, SeedOK, MachinesOK, Doc
  <2>4. RoutingsOK'
    BY <2>1, <2>2 DEF IInv, RoutingsOK
  <2>5. RequestsOK'
    BY <2>1, HoldsOn DEF IInv, RequestsOK
  <2> QED BY <2>3, <2>4, <2>5 DEF IInv
<1> QED BY <1>1, <1>2, <1>3, <1>4 DEF Next

(* The shop starts with no table written and nothing ordered.               *)
LEMMA Start == Init => IInv
<1> SUFFICES ASSUME Init PROVE IInv
  OBVIOUS
<1>1. TypesOK
  BY MastersAssumption, NoItemType DEF Init, TypesOK, Lists
<1>2. BooksOK /\ SeedOK
  BY DEF Init, BooksOK, SeedOK, Lists
<1>4. RoutingsOK /\ RequestsOK
  BY DEF Init, RoutingsOK, RequestsOK
<1>3. MachinesOK
  <2>1. \A c \in Items : items[c].steps = <<>>
    BY NoItemType DEF Init
  <2>2. Named = {}
    BY <2>1, NoItemType DEF Named
  <2> QED BY <2>2 DEF Init, MachinesOK, Lists
<1> QED BY <1>1, <1>2, <1>3, <1>4 DEF IInv

(* One request at a time, the invariant always holds.                       *)
LEMMA Always == Serial /\ Spec => []IInv
<1> SUFFICES ASSUME Serial PROVE Spec => []IInv
  OBVIOUS
<1>1. IInv /\ [Next]_vars => IInv'
  BY Step
<1> QED BY <1>1, Start, PTL DEF Spec

-----------------------------------------------------------------------------
(* After every edit what is ordered or drafted has a routing, and what names *)
(* a machine names one on file (refusals of delete_item, delete_machine and  *)
(* the draft lines): one request at a time, for every shop and any number of *)
(* edits, pages old or new.                                                  *)
THEOREM TablesFit == Serial /\ Spec => []TablesSound
<1>1. IInv => TypeOK
  BY DEF IInv, TypesOK, BooksOK, TypeOK
<1>2. IInv => OrdersRouted /\ MachinesKnown
  BY DEF IInv, RoutingsOK, MachinesOK, Settled, OrdersRouted, MachinesKnown
<1>3. IInv => TablesSound
  BY <1>1, <1>2 DEF TablesSound
<1> QED BY <1>3, Always, PTL

(* Recorded production stays at the front of the routing it was recorded on  *)
(* (punch_safety_errors, the refusals of a punch and of a rollback), when the*)
(* page punched from shows the routing on file.                              *)
THEOREM ProductionFirst == Serial /\ ~StalePages /\ Spec => []PunchedIsPrefix
<1> SUFFICES ASSUME ~StalePages PROVE Serial /\ Spec => []PunchedIsPrefix
  OBVIOUS
<1>1. IInv => PunchedIsPrefix
  BY DEF IInv, RoutingsOK, Fits, PunchedIsPrefix
<1> QED BY <1>1, Always, PTL

(* A table comes into being with what the workbook on file has (_seed_once): *)
(* no edit makes a bare table first.                                         *)
THEOREM WorkbookFirst == Serial /\ Spec => SeededFirst
<1>1. ASSUME IInv, [Next]_vars, NEW t \in made' \ made, NEW b \in book
      PROVE  Doc(t)' = SeedDoc(t, b)
  <2>1. PICK r \in Clients : WriteTable(r)
    BY <1>1, ZenonT(60) DEF Next, vars, tables, orders, SeedBegins, Opens, CreateItemBegins, SaveItemBegins,
                DeleteItemBegins, SaveMachineBegins, DeleteMachineBegins, SaveOperatorBegins,
                ListBegins, DraftsBegins, AddBegins, PunchBegins, UndoBegins, Begin, WriteList,
                WriteDrafts, AddOrders, WritePunch, Complete, Reopen, Freeze
  <2>2. Holds(req[r]) /\ t = req[r].key /\ t \in Tables
    BY <1>1, <2>1 DEF WriteTable, IInv, RequestsOK
  <2>3. req[r].op = "seed"
    BY <1>1, <2>2 DEF Holds, Settled, IInv, TypesOK
  <2>4. req[r].doc = SeedDoc(t, b)
    BY <1>1, <2>2, <2>3 DEF Holds, SeedHolds, IInv, TypesOK
  <2> QED BY <2>1, <2>2, <2>4 DEF WriteTable, Its, Doc, Tables
<1>2. IInv /\ [Next]_vars =>
        [\A t \in made' \ made, b \in book :
            (CASE t = "items" -> items' [] t = "machines" -> machines'
               [] t = "operators" -> operators') = SeedDoc(t, b)]_vars
  BY <1>1 DEF Doc
<1> QED BY <1>2, Always, PTL DEF SeededFirst, Spec
=============================================================================
