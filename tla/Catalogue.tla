------------------------------ MODULE Catalogue ------------------------------
(***************************************************************************)
(* The menu of one linked branch: its product documents, the catalogue     *)
(* syncs that ingest the POS's feed (syncPetpoojaMenu, menuSyncWebhook.ts; *)
(* hourly, pushed by the POS or asked for by staff, and not under one      *)
(* lock), and the stock toggles that travel both ways (item86ingSync.ts).  *)
(*                                                                         *)
(* A sync writes what its feed said, whatever happened since; a toggle     *)
(* commits only over the document it has read.  A document that belongs to *)
(* another branch or item is refused like one that is missing, and prices, *)
(* names and malformed entries of a feed are left out.                     *)
(***************************************************************************)
EXTENDS Naturals, FiniteSets, FiniteSetsExt

CONSTANTS Item,         \* what the POS may list
          NewItem,      \* listed, but no sync has stored them yet
          Hourly,       \* the scheduled execution of syncPetpoojaMenu: one at a time
          Asked,        \* executions the POS or staff ask for, under no lock
          Toggle,       \* executions of the stock callback and of pushStock
          BatchLimit,   \* MENU_SYNC_BATCH_LIMIT (500 in the code)
          NoItem,
          MaxActs,      \* bound on what people do: edits, toggles, syncs
          MaxTroubles   \* bound on bad feeds, deaths and failed writes

ASSUME CatalogueAssumption ==
    /\ IsFiniteSet(Item) /\ NewItem \subseteq Item
    /\ BatchLimit \in Nat \ {0}
    /\ NoItem \notin Item /\ Hourly \notin Asked
    /\ MaxActs \in Nat /\ MaxTroubles \in Nat

VARIABLES
    listed, on,     \* the POS: items on its menu, items in stock
    product,        \* products/prod_{branch}_{item}
    known,          \* branches/{id}.petpoojaItemCount
    sync,           \* what each sync is doing
    toggle,         \* what each toggle is doing
    callbacks,      \* stock callbacks the POS has not been answered 2XX
    parked,         \* unmatched_petpooja_stock
    halved,         \* history: the menu changed, or a short feed had half of it
    acts, troubles

Sync == Asked \cup {Hourly}

pos == <<listed, on>>
bounds == <<acts, troubles>>
catalogueVars == <<pos, product, known, sync, toggle, callbacks, parked, halved, bounds>>

Product == [there : BOOLEAN, inStock : BOOLEAN, ghostRetired : BOOLEAN]
Count == 0..Cardinality(Item)
SyncStep == {"idle", "fetching", "writing", "scanning", "marking"}
ToggleStep == {"idle", "calling", "pushed", "received"}

CatalogueTypeOK ==
    /\ listed \subseteq Item /\ on \subseteq Item
    /\ product \in [Item -> Product]
    /\ known \in Count
    /\ sync \in [Sync -> [step : SyncStep, previous : Count, observed : Count,
                          feed : SUBSET Item, inStock : SUBSET Item,
                          todo : SUBSET Item, restore : SUBSET Item,
                          retire : SUBSET Item, refused : BOOLEAN]]
    /\ toggle \in [Toggle -> [step : ToggleStep, item : Item \cup {NoItem},
                              to : BOOLEAN, current : BOOLEAN]]
    /\ callbacks \subseteq [item : Item, to : BOOLEAN]
    /\ parked \subseteq [item : Item, to : BOOLEAN]
    /\ halved \in BOOLEAN

NoSync == [step |-> "idle", previous |-> 0, observed |-> 0, feed |-> {},
           inStock |-> {}, todo |-> {}, restore |-> {}, retire |-> {},
           refused |-> FALSE]
NoToggle == [step |-> "idle", item |-> NoItem, to |-> FALSE, current |-> FALSE]

(* A branch whose first sync is behind it.                                 *)
CatalogueInit ==
    /\ listed = Item /\ on = Item
    /\ product = [i \in Item |->
                    IF i \in NewItem
                    THEN [there |-> FALSE, inStock |-> FALSE, ghostRetired |-> FALSE]
                    ELSE [there |-> TRUE, inStock |-> TRUE, ghostRetired |-> FALSE]]
    /\ known = Cardinality(Item \ NewItem)
    /\ sync = [r \in Sync |-> NoSync]
    /\ toggle = [t \in Toggle |-> NoToggle]
    /\ callbacks = {} /\ parked = {} /\ halved = FALSE
    /\ acts = 0 /\ troubles = 0

Stored == {i \in Item : product[i].there}

MaxOf(S) == CHOOSE n \in S : \A m \in S : m <= n

(* A write of a product moves its updateTime: a toggle that has read it no *)
(* longer holds the current version.                                       *)
Overtake(items) ==
    toggle' = [t \in Toggle |->
                 IF toggle[t].item \in items
                 THEN [toggle[t] EXCEPT !.current = FALSE] ELSE toggle[t]]

Act == acts < MaxActs /\ acts' = acts + 1
Trouble == troubles < MaxTroubles /\ troubles' = troubles + 1

-----------------------------------------------------------------------------
(* The POS and its staff.                                                  *)

EditMenu(i) ==
    /\ Act
    /\ listed' = IF i \in listed THEN listed \ {i} ELSE listed \cup {i}
    /\ listed' # {}
    /\ halved' = TRUE
    /\ UNCHANGED <<on, product, known, sync, toggle, callbacks, parked, troubles>>

(* An 86 on the POS, and the callback that tells of it.                    *)
TogglePos(i) ==
    /\ Act
    /\ on' = IF i \in on THEN on \ {i} ELSE on \cup {i}
    /\ callbacks' = callbacks \cup {[item |-> i, to |-> i \notin on]}
    /\ UNCHANGED <<listed, product, known, sync, toggle, parked, halved, troubles>>

-----------------------------------------------------------------------------
(* syncPetpoojaMenu.                                                       *)

Put(r, s) == sync' = [sync EXCEPT ![r] = s]

(* The scheduler keeps its own runs apart; nothing holds back a menu push  *)
(* or a manager.                                                           *)
Begin(r) == IF r = Hourly THEN UNCHANGED bounds ELSE Act /\ UNCHANGED troubles

(* The link of the branch and the size of its last catalogue.              *)
ReadBranch(r) ==
    /\ sync[r].step = "idle"
    /\ Put(r, [NoSync EXCEPT !.step = "fetching", !.previous = known])
    /\ Begin(r)
    /\ UNCHANGED <<pos, product, known, toggle, callbacks, parked, halved>>

Ingest(r, feed) ==
    Put(r, [sync[r] EXCEPT !.step = IF feed = {} THEN "marking" ELSE "writing",
                           !.feed = feed, !.inStock = on \cap feed, !.todo = feed])

(* The catalogue comes whole.                                              *)
Fetch(r) ==
    /\ sync[r].step = "fetching"
    /\ Ingest(r, listed)
    /\ UNCHANGED <<pos, product, known, toggle, callbacks, parked, halved, bounds>>

(* A truncated page or an empty catalogue, accepted as a menu object.      *)
FetchShort(r) ==
    /\ sync[r].step = "fetching"
    /\ Trouble
    /\ \E feed \in SUBSET listed \ {listed} :
         /\ Ingest(r, feed)
         /\ halved' = (halved \/ (feed # {} /\ 2 * Cardinality(feed) >= Cardinality(Stored)))
    /\ UNCHANGED <<pos, product, known, toggle, callbacks, parked, acts>>

(* classifyMenuBody: the vendor's own refusal, or no menu object at all.   *)
(* Nothing is written but the FAILED row.                                  *)
FetchRefused(r) ==
    /\ sync[r].step = "fetching"
    /\ Trouble
    /\ Put(r, NoSync)
    /\ UNCHANGED <<pos, product, known, toggle, callbacks, parked, halved, acts>>

(* Mutant: one batch, and the tail of the feed is dropped.                 *)
WriteBatch_Tail(r) ==
    /\ sync[r].step = "writing"
    /\ \E batch \in SUBSET sync[r].todo :
         /\ Cardinality(batch) =
                IF Cardinality(sync[r].todo) < BatchLimit
                THEN Cardinality(sync[r].todo) ELSE BatchLimit
         /\ product' = [i \in Item |->
                IF i \in batch
                THEN [product[i] EXCEPT !.there = TRUE,
                                        !.inStock = i \in sync[r].inStock]
                ELSE product[i]]
         /\ Overtake(batch)
         /\ Put(r, [sync[r] EXCEPT !.step = "scanning", !.todo = {}, !.inStock = {}])
    /\ UNCHANGED <<pos, known, callbacks, parked, halved, bounds>>

(* One batch of the feed, merged over whatever the documents say by now.   *)
WriteBatch(r) ==
    /\ sync[r].step = "writing"
    /\ \E batch \in SUBSET sync[r].todo :
         /\ Cardinality(batch) =
                IF Cardinality(sync[r].todo) < BatchLimit
                THEN Cardinality(sync[r].todo) ELSE BatchLimit
         /\ product' = [i \in Item |->
                IF i \in batch
                THEN [product[i] EXCEPT !.there = TRUE,
                                        !.inStock = i \in sync[r].inStock]
                ELSE product[i]]
         /\ Overtake(batch)
         /\ Put(r, IF batch = sync[r].todo
                   THEN [sync[r] EXCEPT !.step = "scanning", !.todo = {}, !.inStock = {}]
                   ELSE [sync[r] EXCEPT !.todo = @ \ batch])
    /\ UNCHANGED <<pos, known, callbacks, parked, halved, bounds>>

(* The known catalogue: what the branch's last sync counted, or what is    *)
(* live by the scan of this one.                                           *)
TooMuch_NotEmpty(feed, candidates, knownItems) == feed = {}
TooMuch(feed, candidates, knownItems) ==
    \/ 2 * Cardinality(feed) < knownItems
    \/ 2 * Cardinality(candidates) > knownItems

(* The tombstone pass collects before it writes.                           *)
ScanCatalogue(r) ==
    /\ sync[r].step = "scanning"
    /\ LET feed == sync[r].feed
           absent == {i \in Stored \ feed : ~product[i].ghostRetired}
           active == Cardinality((Stored \cap feed) \cup absent)
           candidates == {i \in absent : product[i].inStock}
           refuse == TooMuch(feed, candidates, MaxOf({sync[r].previous, active}))
       IN Put(r, [sync[r] EXCEPT
                    !.step = "marking", !.refused = refuse,
                    !.observed = IF refuse THEN active ELSE 0,
                    !.previous = IF refuse THEN @ ELSE 0,
                    !.restore = {i \in Stored \cap feed : product[i].ghostRetired},
                    !.retire = IF refuse THEN {} ELSE candidates])
    /\ UNCHANGED <<pos, product, known, toggle, callbacks, parked, halved, bounds>>

(* A SKU that came back stops being a tombstone, refused pass or not.      *)
Restore(r) ==
    /\ sync[r].step = "marking"
    /\ \E i \in sync[r].restore :
         /\ product' = [product EXCEPT ![i].ghostRetired = FALSE]
         /\ Overtake({i})
         /\ Put(r, [sync[r] EXCEPT !.restore = @ \ {i}])
    /\ UNCHANGED <<pos, known, callbacks, parked, halved, bounds>>

Retire(r) ==
    /\ sync[r].step = "marking" /\ sync[r].restore = {}
    /\ \E i \in sync[r].retire :
         /\ product' = [product EXCEPT ![i].inStock = FALSE, ![i].ghostRetired = TRUE]
         /\ Overtake({i})
         /\ Put(r, [sync[r] EXCEPT !.retire = @ \ {i}])
    /\ UNCHANGED <<pos, known, callbacks, parked, halved, bounds>>

(* A read or a write of the pass throws: it is skipped, and was not        *)
(* refused unless that had been decided.                                   *)
PassFails(r) ==
    /\ \/ sync[r].step = "scanning"
       \/ sync[r].step = "marking" /\ sync[r].restore \cup sync[r].retire # {}
    /\ Trouble
    /\ Put(r, [sync[r] EXCEPT !.step = "marking", !.restore = {}, !.retire = {},
                              !.refused = @ /\ sync[r].restore = {}])
    /\ UNCHANGED <<pos, product, known, toggle, callbacks, parked, halved, acts>>

(* A refused pass does not lower the guard's memory.                       *)
Stamp(r) ==
    /\ sync[r].step = "marking" /\ sync[r].restore \cup sync[r].retire = {}
    /\ known' = IF sync[r].refused
                THEN MaxOf({sync[r].previous, sync[r].observed,
                            Cardinality(sync[r].feed)})
                ELSE Cardinality(sync[r].feed)
    /\ Put(r, NoSync)
    /\ UNCHANGED <<pos, product, toggle, callbacks, parked, halved, bounds>>

KillSync(r) ==
    /\ sync[r].step # "idle"
    /\ Trouble
    /\ Put(r, NoSync)
    /\ UNCHANGED <<pos, product, known, toggle, callbacks, parked, halved, acts>>

-----------------------------------------------------------------------------
(* handlePetpoojaStockWebhook.                                             *)

(* A 2XX: the POS does not deliver this again.                             *)
AnswerPos(m) == callbacks' = callbacks \ {m}

Become(t, s) == toggle' = [toggle EXCEPT ![t] = s]

(* The read before the transaction.                                        *)
ReceiveStock(t) ==
    /\ toggle[t].step = "idle"
    /\ \E m \in callbacks :
         /\ product[m.item].there
         /\ Become(t, [step |-> "received", item |-> m.item, to |-> m.to,
                       current |-> TRUE])
    /\ UNCHANGED <<pos, product, known, sync, callbacks, parked, halved, bounds>>

(* No product: nothing to redeliver for, an operator looks at it.          *)
ReceiveUnknown(t) ==
    /\ toggle[t].step = "idle"
    /\ \E m \in callbacks :
         /\ ~product[m.item].there
         /\ parked' = parked \cup {m}
         /\ AnswerPos(m)
    /\ UNCHANGED <<pos, product, known, sync, toggle, halved, bounds>>

Message(t) == [item |-> toggle[t].item, to |-> toggle[t].to]

(* The document, and what every other toggle of it makes of that.          *)
SetStock(t) ==
    /\ product' = [product EXCEPT ![toggle[t].item].inStock = toggle[t].to]
    /\ toggle' = [u \in Toggle |->
                    IF u = t THEN NoToggle
                    ELSE IF toggle[u].item = toggle[t].item
                         THEN [toggle[u] EXCEPT !.current = FALSE] ELSE toggle[u]]

(* Applied and answered 200; the POS may not hear it and deliver again.    *)
ApplyStock(t) ==
    /\ toggle[t].step = "received" /\ toggle[t].current
    /\ SetStock(t)
    /\ \/ AnswerPos(Message(t)) /\ UNCHANGED troubles
       \/ Trouble /\ UNCHANGED callbacks
    /\ UNCHANGED <<pos, known, sync, parked, halved, acts>>

(* Mutant: the park document is taken for an answer.                       *)
AnswerOvertaken_200(t) ==
    /\ toggle[t].step = "received" /\ ~toggle[t].current
    /\ parked' = parked \cup {Message(t)}
    /\ AnswerPos(Message(t))
    /\ Become(t, NoToggle)
    /\ UNCHANGED <<pos, product, known, sync, halved, bounds>>

(* Somebody was faster: parked as evidence, and answered 503.              *)
AnswerOvertaken(t) ==
    /\ toggle[t].step = "received" /\ ~toggle[t].current
    /\ parked' = parked \cup {Message(t)}
    /\ Become(t, NoToggle)
    /\ UNCHANGED <<pos, product, known, sync, callbacks, halved, bounds>>

(* The transaction failed, or the instance died: not a 2XX either.         *)
ReceiveFails(t) ==
    /\ toggle[t].step = "received"
    /\ Trouble
    /\ Become(t, NoToggle)
    /\ UNCHANGED <<pos, product, known, sync, callbacks, parked, halved, acts>>

-----------------------------------------------------------------------------
(* pushItemStockToPetpooja: the kitchen display's own toggle.              *)

PushStart(t) ==
    /\ toggle[t].step = "idle"
    /\ Act
    /\ \E i \in Stored, to \in BOOLEAN :
         Become(t, [step |-> "calling", item |-> i, to |-> to, current |-> TRUE])
    /\ UNCHANGED <<pos, product, known, sync, callbacks, parked, halved, troubles>>

(* The POS takes it and says so, takes it unheard, or refuses.             *)
PushCall(t) ==
    /\ toggle[t].step = "calling"
    /\ LET i == toggle[t].item IN
         \/ /\ on' = IF toggle[t].to THEN on \cup {i} ELSE on \ {i}
            /\ \/ Become(t, [toggle[t] EXCEPT !.step = "pushed"])
               \/ Become(t, NoToggle)
         \/ Become(t, NoToggle) /\ UNCHANGED on
    /\ UNCHANGED <<listed, product, known, sync, callbacks, parked, halved, bounds>>

(* Acknowledged and unchanged since it was read: the display shows it as   *)
(* synced.                                                                 *)
PushCommit(t) ==
    /\ toggle[t].step = "pushed" /\ toggle[t].current
    /\ SetStock(t)
    /\ UNCHANGED <<pos, known, sync, callbacks, parked, halved, bounds>>

(* Overtaken, failed or dead: the display shows it as not synced.          *)
PushFails(t) ==
    /\ toggle[t].step = "pushed"
    /\ \/ ~toggle[t].current /\ UNCHANGED troubles
       \/ Trouble
    /\ Become(t, NoToggle)
    /\ UNCHANGED <<pos, product, known, sync, callbacks, parked, halved, acts>>

-----------------------------------------------------------------------------
SyncSteps(r) ==
    \/ Fetch(r) \/ WriteBatch(r) \/ ScanCatalogue(r) \/ Restore(r) \/ Retire(r) \/ Stamp(r)

ToggleSteps(t) ==
    \/ ReceiveStock(t) \/ ReceiveUnknown(t) \/ ApplyStock(t) \/ AnswerOvertaken(t)
    \/ PushCall(t) \/ PushCommit(t) \/ PushFails(t)

CatalogueNext ==
    \/ \E i \in Item : EditMenu(i) \/ TogglePos(i)
    \/ \E r \in Sync : \/ ReadBranch(r) \/ SyncSteps(r) \/ PassFails(r) \/ KillSync(r)
                       \/ FetchShort(r) \/ FetchRefused(r)
    \/ \E t \in Toggle : ToggleSteps(t) \/ PushStart(t) \/ ReceiveFails(t)

CatalogueSpec == CatalogueInit /\ [][CatalogueNext]_catalogueVars

(* The hourly job comes again and again, the POS redelivers until it is    *)
(* answered, and what was begun goes on until it ends or dies.             *)
EveryHour == WF_catalogueVars(ReadBranch(Hourly))

FairCatalogueSpec ==
    /\ CatalogueSpec
    /\ EveryHour
    /\ \A r \in Sync : WF_catalogueVars(SyncSteps(r))
    /\ \A t \in Toggle : WF_catalogueVars(ToggleSteps(t))

-----------------------------------------------------------------------------
(* Properties.                                                             *)

(* As long as the POS keeps its menu and every short feed carries less     *)
(* than half of what the branch has stored, no run, overlap, crash or      *)
(* repetition retires anything: a truncated feed must not take the         *)
(* catalogue dark.                                                         *)
ShortFeedRetiresNothing ==
    ~halved => \A i \in Item : ~product[i].ghostRetired

(* A stock callback that was answered 200 is on the product as it is       *)
(* answered, or, without a product, in front of an operator.               *)
AnsweredIsKept ==
    [][\A m \in callbacks \ callbacks' :
          \/ product'[m.item].inStock = m.to
          \/ ~product[m.item].there /\ m \in parked']_catalogueVars

(* Whatever raced, was lost, truncated or died: once people leave the menu *)
(* alone, everything the POS lists is on sale as the POS has it.           *)
Follows(i) == /\ product[i].there /\ ~product[i].ghostRetired
              /\ product[i].inStock <=> i \in on
StoreFollowsPos == <>[](\A i \in listed : Follows(i))
=============================================================================
