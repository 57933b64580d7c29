---------------------------- MODULE ShopMasters ----------------------------
(***************************************************************************)
(* The tables a planner edits in the app (engine/item_master.py,            *)
(* engine/shop_masters.py, the operator table and the lists of absences,    *)
(* machine breaks and holidays), with the parts of the order book their     *)
(* refusals protect: the open orders, the draft lines of Add New Orders and *)
(* which steps have been punched.                                          *)
(*                                                                         *)
(* A table is one document under one key.  A request reads it, checks, and  *)
(* writes the whole document back; there is no lock.  So a request is two   *)
(* actions: Begin, with all its reads, and Write, its store call.           *)
(*                                                                         *)
(* Abstracted: a cycle time, a machine's type and hours, an operator's shift*)
(* and the dates of a break are not told apart; pieces are counted by       *)
(* OrderLedger, here a step is punched or not.  The order and punch actions *)
(* keep only the guards that read a routing.                                *)
(***************************************************************************)
EXTENDS Naturals, Sequences, FiniteSets, SequencesExt

CONSTANTS
    Items,          \* item codes
    Machines,       \* machine numbers that can be typed
    People,         \* operators that can be typed
    Days,           \* days that can be made a holiday
    Orders,         \* (SO number, item code) pairs
    ItemOf,         \* the item of an order
    Menu,           \* steps that can be typed: [name, on, out]
    MaxSteps,       \* MAX_STEPS
    Workbooks,      \* workbooks that may be on file at the first start
    Clients,        \* browsers with the pages open
    Serial,         \* is at most one request under way at a time
    StalePages,     \* may a punch name a step its routing does not have
    MaxEdits        \* bound: documents written in a behaviour

Names  == {s.name : s \in Menu}
Tables == {"items", "machines", "operators"}
Lists  == {"absences", "breaks", "holidays"}
Item   == [steps : Seq(Menu), ver : Nat, born : 0..MaxEdits]

ASSUME MastersAssumption ==
    /\ ItemOf \in [Orders -> Items] /\ MaxSteps \in Nat /\ MaxEdits \in Nat
    /\ Serial \in BOOLEAN /\ StalePages \in BOOLEAN
    /\ \A s \in Menu : s.on \subseteq Machines
    /\ \A b \in Workbooks : /\ b.items \in [Items -> Item] /\ b.machines \subseteq Machines
                            /\ b.operators \in [People -> SUBSET Machines]

VARIABLES
    book,           \* the workbook on file ({} if there is none)
    made,           \* tables that exist in the store
    items,          \* anvitech:item_master: steps, version and birth of each item
    machines,       \* anvitech:machines: version of each machine, 0 if it is not there
    operators,      \* anvitech:operators: the machines each runs ({} if not there)
    lists,          \* the three lists, as sets of what they name
    drafts,         \* lines typed in Add New Orders
    open, archived, \* the order book
    punched,        \* steps with pieces recorded, per order
    running,        \* machines of the frozen (in-progress) rows
    loose,          \* orders whose item was written while they were archived
    page,           \* what each client last loaded of the items
    req,            \* the request under way of each client
    edits           \* documents written so far

tables == <<items, machines, operators, made>>
orders == <<drafts, open, archived, punched, running>>
vars == <<book, made, items, machines, operators, lists, drafts, open, archived,
          punched, running, loose, page, req, edits>>

NoItem == [steps |-> <<>>, ver |-> 0, born |-> 0]
Idle   == [op |-> "none"]

-----------------------------------------------------------------------------
(* Routings                                                                 *)

NamesOf(steps)     == {steps[i].name : i \in DOMAIN steps}
MachinesOf(steps)  == UNION {steps[i].on : i \in DOMAIN steps}
Ahead(steps, n, p) ==
    \E i, j \in DOMAIN steps : i < j /\ steps[i].name = n /\ steps[j].name = p
Exists(c)  == items[c].ver > 0
Tabled     == {m \in Machines : machines[m] > 0}
Named      == UNION {MachinesOf(items[c].steps) : c \in Items}
Unknown    == UNION {MachinesOf(b.items[c].steps) \ b.machines : c \in Items, b \in book}

(* validate_item: real machines, or those the item already named *)
ValidItem(steps, old) ==
    /\ Len(steps) \in 1..MaxSteps
    /\ \A i, j \in DOMAIN steps : steps[i].name = steps[j].name => i = j
    /\ \A i \in DOMAIN steps : steps[i].out \/ steps[i].on # {}
    /\ MachinesOf(steps) \subseteq Tabled \cup MachinesOf(old)

(* mutant: a step may be put in front of a punched one *)
PunchSafeKeepsOrder(c, new) ==
    \A o \in open : ItemOf[o] = c =>
       LET old == items[c].steps
           P   == punched[o] \cap NamesOf(old)
       IN  /\ P \subseteq NamesOf(new)
           /\ \A p, q \in P : Ahead(old, p, q) => Ahead(new, p, q)

(* punch_safety_errors: only the OPEN orders of the item are looked at *)
PunchSafe(c, new) ==
    \A o \in open : ItemOf[o] = c =>
       LET old == items[c].steps
           P   == punched[o] \cap NamesOf(old)
       IN  /\ P \subseteq NamesOf(new)
           /\ \A p, q \in P : Ahead(old, p, q) => Ahead(new, p, q)
           /\ \A p \in P, n \in NamesOf(new) \ P : Ahead(new, n, p) => Ahead(old, n, p)

(* usage *)
ItemUsed(c) == \E o \in open \cup drafts : ItemOf[o] = c

(* mutant: a maintenance break does not count *)
MachineUsedNoBreaks(m) ==
    \/ m \in Named \cup running
    \/ \E p \in People : m \in operators[p]

(* machine_usage *)
MachineUsed(m) ==
    \/ m \in Named \cup lists["breaks"] \cup running
    \/ \E p \in People : m \in operators[p]

-----------------------------------------------------------------------------
Typed == SeqOf(Menu, MaxSteps + 1)
Quiet == \A r \in Clients : req[r] = Idle
Free(r) == req[r] = Idle /\ (Serial => Quiet)

(* mutant: a request does not make sure the tables were seeded *)
ReadyUnseeded(r) == Free(r)

(* Every handler calls _current_masters first, which seeds what is missing   *)
(* from the workbook on file.                                               *)
Ready(r) == Free(r) /\ (book # {} => made = Tables)
MayEdit(r) == Ready(r) /\ edits < MaxEdits

Begin(r, q) ==
    /\ req' = [req EXCEPT ![r] = q]
    /\ UNCHANGED <<book, tables, lists, orders, loose, page, edits>>

Init ==
    /\ book \in {{}} \cup {{b} : b \in Workbooks}
    /\ made = {} /\ items = [c \in Items |-> NoItem] /\ machines = [m \in Machines |-> 0]
    /\ operators = [p \in People |-> {}] /\ lists = [l \in Lists |-> {}]
    /\ drafts = {} /\ open = {} /\ archived = {} /\ punched = [o \in Orders |-> {}]
    /\ running = {} /\ loose = {} /\ edits = 0
    /\ page = [r \in Clients |-> items] /\ req = [r \in Clients |-> Idle]

(* _seed_once: a table that was missing when it was read will be written as  *)
(* the workbook has it.                                                     *)
SeedDoc(t, b) ==
    CASE t = "items"     -> b.items
      [] t = "machines"  -> [m \in Machines |-> IF m \in b.machines THEN 1 ELSE 0]
      [] t = "operators" -> b.operators

SeedBegins(r) ==
    /\ Free(r)
    /\ \E t \in Tables \ made, b \in book :
         Begin(r, [op |-> "seed", key |-> t, doc |-> SeedDoc(t, b)])

(* GET /item-master *)
Opens(r) ==
    /\ Ready(r)
    /\ page' = [page EXCEPT ![r] = items]
    /\ UNCHANGED <<book, tables, lists, orders, loose, req, edits>>

(* POST and PUT /item-master: create, or save over the version the client    *)
(* loaded.                                                                  *)
CreateItemBegins(r) ==
    /\ MayEdit(r)
    /\ \E c \in Items, steps \in Typed :
         /\ ~Exists(c) /\ ValidItem(steps, <<>>)
         /\ Begin(r, [op |-> "create", key |-> "items", item |-> c,
                      doc |-> [items EXCEPT ![c] = [steps |-> steps, ver |-> 1,
                                                    born |-> edits + 1]]])

SaveItemBegins(r) ==
    /\ MayEdit(r)
    /\ \E c \in Items, steps \in Typed :
         /\ Exists(c) /\ ValidItem(steps, items[c].steps) /\ PunchSafe(c, steps)
         /\ page[r][c].ver = items[c].ver
         /\ Begin(r, [op |-> "save", key |-> "items", item |-> c,
                      doc |-> [items EXCEPT ![c].steps = steps, ![c].ver = @ + 1]])

(* POST /item-master/delete *)
DeleteItemBegins(r) ==
    /\ MayEdit(r)
    /\ \E c \in Items : /\ Exists(c) /\ ~ItemUsed(c)
                        /\ Begin(r, [op |-> "delete", key |-> "items", item |-> c,
                                     doc |-> [items EXCEPT ![c] = NoItem]])

(* POST, PUT /machines and POST /machines/delete.  A save carries the version*)
(* the page shows; one that is not the version on file is refused.          *)
SaveMachineBegins(r) ==
    /\ MayEdit(r)
    /\ \E m \in Machines :
         Begin(r, [op |-> IF machines[m] = 0 THEN "create" ELSE "save", key |-> "machines",
                   doc |-> [machines EXCEPT ![m] = @ + 1]])

DeleteMachineBegins(r) ==
    /\ MayEdit(r)
    /\ \E m \in Machines : /\ m \in Tabled /\ ~MachineUsed(m)
                           /\ Begin(r, [op |-> "delete", key |-> "machines",
                                        doc |-> [machines EXCEPT ![m] = 0]])

(* POST, PATCH and DELETE /operators: the machines are free text *)
SaveOperatorBegins(r) ==
    /\ MayEdit(r)
    /\ \E p \in People, ms \in SUBSET Machines :
         /\ operators[p] # ms
         /\ Begin(r, [op |-> IF ms = {} THEN "delete" ELSE "save", key |-> "operators",
                      doc |-> [operators EXCEPT ![p] = ms]])

(* Who and what a new entry of a list may name.  A machine of a routing is   *)
(* known even if it is not in the table (a provisional machine).            *)
CanList(l) == CASE l = "absences" -> {p \in People : operators[p] # {}}
                [] l = "breaks"   -> Tabled \cup Named
                [] l = "holidays" -> Days

(* POST and DELETE of an absence or a break, POST /holidays and its delete *)
ListBegins(r) ==
    /\ MayEdit(r)
    /\ \E l \in Lists : \E x \in CanList(l) \cup lists[l] :
         Begin(r, [op |-> IF x \in lists[l] THEN "unlist" ELSE "list", key |-> l,
                   doc |-> IF x \in lists[l] THEN lists[l] \ {x} ELSE lists[l] \cup {x}])

(* PUT /new-orders/drafts: every line is validated *)
Draftable(o) == Exists(ItemOf[o]) /\ o \notin open \cup archived

DraftsBegins(r) ==
    /\ MayEdit(r)
    /\ \E ds \in SUBSET {o \in Orders : Draftable(o)} :
         ds # drafts /\ Begin(r, [op |-> "draft", key |-> "drafts", doc |-> ds])

(* POST /new-orders/add: a line whose item has no routing gets no date *)
AddBegins(r) ==
    /\ Free(r) /\ drafts # {} /\ \A o \in drafts : Exists(ItemOf[o])
    /\ Begin(r, [op |-> "add", key |-> "book", doc |-> drafts])

(* POST /actuals: the first step, or one the step before has been punched    *)
(* for.  A step that is not in the routing is never refused.                *)
CanPunch(o, n) ==
    LET steps == items[ItemOf[o]].steps
    IN  \A i \in DOMAIN steps :
           steps[i].name = n /\ i > 1 => steps[i - 1].name \in punched[o]

PunchBegins(r) ==
    /\ Free(r)
    /\ \E o \in open \cup archived, n \in Names :
         /\ n \notin punched[o] /\ CanPunch(o, n)
         /\ StalePages \/ n \in NamesOf(items[ItemOf[o]].steps)
         /\ Begin(r, [op |-> "punch", key |-> "punches", order |-> o, doc |-> n])

(* POST /actuals/rollback of the last entry of a step *)
CanUndo(o, n) ==
    LET steps == items[ItemOf[o]].steps
    IN  \A i \in 1..Len(steps) - 1 : steps[i].name = n => steps[i + 1].name \notin punched[o]

UndoBegins(r) ==
    /\ Free(r)
    /\ \E o \in open \cup archived : \E n \in punched[o] :
         CanUndo(o, n) /\ Begin(r, [op |-> "undo", key |-> "punches", order |-> o, doc |-> n])

-----------------------------------------------------------------------------
Its(r, key) == req[r] # Idle /\ req[r].key = key
Ends(r)     == req' = [req EXCEPT ![r] = Idle]
Counts      == edits < MaxEdits /\ edits' = edits + 1

(* Each write puts the whole document the request computed.                  *)
WriteTable(r) ==
    /\ req[r] # Idle /\ req[r].key \in Tables /\ Ends(r)
    /\ IF req[r].op = "seed" THEN UNCHANGED edits ELSE Counts
    /\ made' = made \cup {req[r].key}
    /\ items'     = IF Its(r, "items")     THEN req[r].doc ELSE items
    /\ machines'  = IF Its(r, "machines")  THEN req[r].doc ELSE machines
    /\ operators' = IF Its(r, "operators") THEN req[r].doc ELSE operators
    /\ loose' = loose \cup {o \in archived : items'[ItemOf[o]] # items[ItemOf[o]]}
    /\ UNCHANGED <<book, lists, orders, page>>

WriteList(r) ==
    /\ req[r] # Idle /\ req[r].key \in Lists /\ Ends(r) /\ Counts
    /\ lists' = [lists EXCEPT ![req[r].key] = req[r].doc]
    /\ UNCHANGED <<book, tables, orders, loose, page>>

WriteDrafts(r) ==
    /\ Its(r, "drafts") /\ Ends(r) /\ Counts /\ drafts' = req[r].doc
    /\ UNCHANGED <<book, tables, lists, open, archived, punched, running, loose, page>>

AddOrders(r) ==
    /\ Its(r, "book") /\ Ends(r)
    /\ open' = open \cup req[r].doc /\ drafts' = {}
    /\ UNCHANGED <<book, tables, lists, archived, punched, running, loose, page, edits>>

WritePunch(r) ==
    /\ Its(r, "punches") /\ Ends(r)
    /\ punched' = [punched EXCEPT ![req[r].order] =
                     IF req[r].op = "punch" THEN @ \cup {req[r].doc} ELSE @ \ {req[r].doc}]
    /\ UNCHANGED <<book, tables, lists, drafts, open, archived, running, loose, page, edits>>

(* An order is completed, and comes back when that entry is rolled back.     *)
Complete(r) ==
    /\ Free(r)
    /\ \E o \in open : open' = open \ {o} /\ archived' = archived \cup {o}
    /\ UNCHANGED <<book, tables, lists, drafts, punched, running, loose, page, req, edits>>

Reopen(r) ==
    /\ Free(r)
    /\ \E o \in archived : archived' = archived \ {o} /\ open' = open \cup {o}
    /\ UNCHANGED <<book, tables, lists, drafts, punched, running, loose, page, req, edits>>

(* The frozen rows are rewritten from the published plan, which took the     *)
(* machines of its steps from the routings.                                 *)
Freeze ==
    /\ Serial => Quiet
    /\ \E ms \in SUBSET Named :
         /\ ms # running /\ running' = ms
         /\ \E o \in open : punched[o] # {}
    /\ UNCHANGED <<book, tables, lists, drafts, open, archived, punched, loose, page, req, edits>>

Next ==
    \/ \E r \in Clients :
         \/ SeedBegins(r) \/ Opens(r)
         \/ CreateItemBegins(r) \/ SaveItemBegins(r) \/ DeleteItemBegins(r)
         \/ SaveMachineBegins(r) \/ DeleteMachineBegins(r)
         \/ SaveOperatorBegins(r) \/ ListBegins(r)
         \/ DraftsBegins(r) \/ AddBegins(r) \/ PunchBegins(r) \/ UndoBegins(r)
         \/ WriteTable(r) \/ WriteList(r) \/ WriteDrafts(r) \/ AddOrders(r) \/ WritePunch(r)
         \/ Complete(r) \/ Reopen(r)
    \/ Freeze

Spec == Init /\ [][Next]_vars

-----------------------------------------------------------------------------
TypeOK ==
    /\ made \subseteq Tables /\ edits \in 0..MaxEdits
    /\ \A c \in Items : items[c] \in Item
    /\ machines \in [Machines -> Nat] /\ operators \in [People -> SUBSET Machines]
    /\ lists["absences"] \subseteq People /\ lists["breaks"] \subseteq Machines
    /\ lists["holidays"] \subseteq Days
    /\ drafts \subseteq Orders /\ open \subseteq Orders /\ archived \subseteq Orders
    /\ open \cap archived = {} /\ drafts \cap (open \cup archived) = {}
    /\ punched \in [Orders -> SUBSET Names]
    /\ running \subseteq Machines /\ loose \subseteq Orders
    /\ \A r \in Clients, c \in Items : page[r][c] \in Item

(* "Refuse an edit that would orphan recorded production": on an open order  *)
(* the punched steps of its routing stay the first ones of the routing,      *)
(* whatever is edited, punched and undone, so no piece is past a step it     *)
(* never went through.                                                      *)
PunchedIsPrefix ==
    \A o \in open \ loose, n, p \in Names :
       p \in punched[o] /\ Ahead(items[ItemOf[o]].steps, n, p) => n \in punched[o]

(* "Refused while an open order or an Add New Orders draft line uses it":    *)
(* every open order and every draft line has a routing to be planned by.     *)
OrdersRouted == \A o \in (open \ loose) \cup drafts : Exists(ItemOf[o])

(* "Refused while a routing step, an operator, a maintenance break or work in*)
(* progress still names it": the machines that routings and breaks name are  *)
(* in the table, except those the workbook itself did not list.              *)
MachinesKnown ==
    (book = {} \/ made = Tables) => Named \cup lists["breaks"] \subseteq Tabled \cup Unknown

(* "a bare table here would permanently skip migrating the workbook's": with *)
(* a workbook on file a table comes into being with what the workbook has.   *)
SeededFirst ==
    [][\A t \in made' \ made, b \in book :
          (CASE t = "items" -> items' [] t = "machines" -> machines'
             [] t = "operators" -> operators') = SeedDoc(t, b)]_vars

(* "409 when someone saved it since the caller loaded it": a save replaces   *)
(* the very routing its page shows.                                         *)
SavesWhatWasSeen ==
    [][\A r \in Clients : req[r] # Idle /\ req[r].op = "save" /\ Its(r, "items")
          /\ items' # items => items[req[r].item] = page[r][req[r].item]]_vars

(* No save takes back another one: an item's version only grows until the    *)
(* item is deleted.                                                         *)
EditsStay ==
    [][\A c \in Items : items'[c].ver > 0 /\ items'[c].born = items[c].born
                           => items'[c].ver >= items[c].ver]_vars

(* The tables fit together after every edit: whatever is ordered or drafted  *)
(* has a routing, whatever names a machine names one on file.                *)
TablesSound == TypeOK /\ OrdersRouted /\ MachinesKnown
============================================================================
