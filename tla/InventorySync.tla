--------------------------- MODULE InventorySync ---------------------------
(***************************************************************************)
(* adapters/ebay_rest.py: one read of the seller's inventory, with         *)
(* ApiCallBudget and _TTLCache (adapters/ebay_readonly_http.py), and the   *)
(* state file and history it reports to (services/sync_state.py,           *)
(* services/sync_history.py).                                              *)
(*                                                                         *)
(* A read fetches the pages of inventory items one by one, and the offers  *)
(* of every item of a page, while the seller goes on editing.  Sessions    *)
(* read independently and share the two files.  What one GET does inside,  *)
(* its retries and the renewal of the token, is in EbayWrite; here a GET   *)
(* is answered, or fails with a RuntimeError, or breaks in another way.    *)
(* The lines of the audit log may fail to be written; the state file and   *)
(* the history are taken to be written whenever they are.  eBay gives      *)
(* every item a SKU.                                                       *)
(***************************************************************************)
EXTENDS Naturals, Sequences, SequencesExt

CONSTANTS
  Session,
  Sku,
  Offers,        \* the kinds of the offers of each SKU
  PageSize,      \* ebay_inventory_page_size
  Budgets,       \* what api_budget_max_calls_per_run may be
  Unknown,       \* total_pages before an answer has given it
  NoRead,        \* a session that is not reading
  MaxEdits,      \* bound: edits of the inventory
  MaxReads       \* bound: reads that are modelled

Kind == {"fixed", "auction", "draft"}   \* draft: not both PUBLISHED and ACTIVE

ASSUME SyncConstantsOK ==
  /\ IsFiniteSet(Sku)
  /\ Offers \in [Sku -> SUBSET Kind]
  /\ PageSize \in Nat \ {0} /\ Budgets \subseteq Nat \ {0} /\ Budgets # {}
  /\ MaxEdits \in Nat /\ MaxReads \in Nat
  /\ Unknown \notin Nat /\ NoRead \notin Session

VARIABLES
  inventory,   \* the inventory items at eBay, in eBay's order
  pc,          \* where each session is in its read
  read,        \* the local variables of its read
  status,      \* the status in the state file
  entries,     \* the statuses in the history file
  author,      \* history: whose read wrote the state file last, unless it broke off
  edits, reads, crashes   \* counts for the bounds

vars == <<inventory, pc, read, status, entries, author, edits, reads, crashes>>

Listing == Sku \X Kind
Done == {"ok", "partial", "error"}

Read == [
  page: Nat,                      \* page_index
  total: Nat \cup {Unknown},      \* total_pages
  items: Seq(Sku),                \* items of the page whose offers are to fetch
  full: BOOLEAN,                  \* len(items) = limit
  got: Seq(Listing),              \* results
  budget: Budgets,                \* ApiCallBudget.max_calls
  spent: Nat,                     \* ApiCallBudget.used
  cached: SUBSET Sku,             \* SKUs whose offers the response cache holds
  verdict: Done,                  \* the status about to be reported
  guarded: BOOLEAN,               \* it is reported inside the try
  flawed: BOOLEAN,                \* history: an offer was passed over
  first: Nat,                     \* history: length of the inventory at the start
  shifted: BOOLEAN]               \* history: an item changed its place meanwhile

ASSUME NoReadOK == NoRead \notin Read

\* Types, and the cap of the budget: only a call past it is counted and not
\* made, and it ends the read.
TypeOK ==
  /\ inventory \in Seq(Sku)
  /\ pc \in [Session -> {"idle", "started", "page", "offers", "mark", "append", "audit"}]
  /\ read \in [Session -> Read \cup {NoRead}]
  /\ \A s \in Session : (read[s] = NoRead) = (pc[s] = "idle")
  /\ \A s \in Session : read[s] # NoRead => read[s].spent <= read[s].budget
  /\ status \in Done \cup {"idle", "running"}
  /\ entries \subseteq Done /\ author \in Session \cup {NoRead}
  /\ edits \in 0..MaxEdits /\ reads \in 0..MaxReads /\ crashes \in {0, 1}

Init ==
  /\ inventory \in UNION {SetToSeqs(S) : S \in SUBSET Sku}
  /\ pc = [s \in Session |-> "idle"]
  /\ read = [s \in Session |-> NoRead]
  /\ status = "idle" /\ entries = {} /\ author = NoRead
  /\ edits = 0 /\ reads = 0 /\ crashes = 0

-----------------------------------------------------------------------------
Goto(s, point) == pc' = [pc EXCEPT ![s] = point]
World == UNCHANGED <<inventory, edits>>
Bounds == UNCHANGED <<reads, crashes>>
Files == UNCHANGED <<status, entries, author>>
Elsewhere == World /\ Bounds /\ Files

\* The read of s goes on with r, at a point or with its verdict.
Continue(s, point, r) == Goto(s, point) /\ read' = [read EXCEPT ![s] = r]

\* A read that ends: the listings are looked at only if it reports ok.
Fresh == [page |-> 0, total |-> Unknown, items |-> <<>>, full |-> FALSE, got |-> <<>>,
          budget |-> CHOOSE b \in Budgets : TRUE, spent |-> 0, cached |-> {},
          verdict |-> "ok", guarded |-> TRUE, flawed |-> FALSE, first |-> 0, shifted |-> FALSE]
Ended(v, inside) == [Fresh EXCEPT !.verdict = v, !.guarded = inside]
Report(s, v, inside, r) == Continue(s, "mark", IF v = "ok" THEN r ELSE Ended(v, inside))

\* A read that ends without a report.
BreakOff(s) ==
  /\ Continue(s, "idle", NoRead)
  /\ author' = IF author = s THEN NoRead ELSE author

\* consume(): every call counts, the one that finds the budget used up too.
Spend(r) == [r EXCEPT !.spent = @ + 1]
OutOfBudget(s) == read[s].spent >= read[s].budget

\* _select_offers_for_listing.
Selected(kinds) == IF "fixed" \in kinds THEN {"fixed"} ELSE kinds \ {"draft"}
ListingsOf(sku) == {sku} \X Selected(Offers[sku])

Pages == (Len(inventory) + PageSize - 1) \div PageSize
PageItems(p) ==
  LET end == p * PageSize + PageSize
  IN  SubSeq(inventory, p * PageSize + 1, IF end < Len(inventory) THEN end ELSE Len(inventory))

-----------------------------------------------------------------------------
\* mark_running, and an adapter with an unused budget and an empty cache.
Start(s) ==
  /\ pc[s] = "idle" /\ reads < MaxReads
  /\ reads' = reads + 1
  /\ status' = "running" /\ author' = s
  /\ \E b \in Budgets :
       Continue(s, "started", [Fresh EXCEPT !.budget = b])
  /\ World /\ UNCHANGED <<entries, crashes>>

\* The audit line "sync_started" is written outside the try: if it fails, the
\* state file goes on saying "running".
AuditStarted(s) ==
  /\ pc[s] = "started"
  /\ \/ /\ Continue(s, "page", [Fresh EXCEPT !.budget = read[s].budget, !.first = Len(inventory)])
        /\ UNCHANGED author
     \/ BreakOff(s)
  /\ World /\ Bounds /\ UNCHANGED <<status, entries>>

\* A page has come; the first one may tell how many there are.
Answered(s, r) ==
  \E size \in {Pages, Unknown} :
    LET next == [r EXCEPT !.items = PageItems(r.page),
                          !.full = Len(PageItems(r.page)) = PageSize,
                          !.total = IF @ = Unknown THEN size ELSE @]
    IN  IF next.items = <<>> THEN Report(s, "ok", TRUE, next) ELSE Continue(s, "offers", next)

\* GET inventory_item.  Any failure ends the read, in a handler of the try; no
\* items end it well.
GetPage(s) ==
  /\ pc[s] = "page"
  /\ IF OutOfBudget(s)
     THEN Report(s, "partial", FALSE, Spend(read[s]))
     ELSE Report(s, "error", FALSE, Spend(read[s])) \/ Answered(s, Spend(read[s]))
  /\ Elsewhere

\* The listings of the next item, some of which may not normalize.
Take(s, r) ==
  LET sku == Head(r.items) IN
  \E good \in SUBSET ListingsOf(sku) :
    Continue(s, "offers",
      [r EXCEPT !.items = Tail(@), !.got = @ \o SetToSeq(good), !.cached = @ \cup {sku},
                !.flawed = @ \/ good # ListingsOf(sku)])

\* Variant for mutation: only the pages are held to the budget.
GetOffersUnbudgeted(s) ==
  /\ pc[s] = "offers" /\ read[s].items # <<>>
  /\ Take(s, Spend(read[s]))
  /\ Elsewhere

\* GET offer for the next item of the page.  A RuntimeError passes the item
\* over, whatever it was about, unless the budget has run out: then the read
\* ends inside the try.
GetOffers(s) ==
  /\ pc[s] = "offers" /\ read[s].items # <<>>
  /\ LET r == Spend(read[s]) IN
     \/ Head(r.items) \in r.cached /\ Take(s, read[s])
     \/ OutOfBudget(s) /\ Report(s, "partial", TRUE, r)
     \/ ~OutOfBudget(s) /\ Take(s, r)
     \/ /\ ~OutOfBudget(s)
        /\ Continue(s, "offers", [r EXCEPT !.items = Tail(@), !.flawed = TRUE])
     \/ ~OutOfBudget(s) /\ Report(s, "error", FALSE, r)
  /\ Elsewhere

\* Variant for mutation: the index of the last page is taken for the number of
\* pages.
EndPageEarly(s) ==
  /\ pc[s] = "offers" /\ read[s].items = <<>>
  /\ LET r == [read[s] EXCEPT !.page = @ + 1] IN
     IF r.total # Unknown /\ r.page + 1 >= r.total
     THEN Report(s, "ok", TRUE, r) ELSE Continue(s, "page", r)
  /\ Elsewhere

\* The page is done: is there another?
EndPage(s) ==
  /\ pc[s] = "offers" /\ read[s].items = <<>>
  /\ LET r == [read[s] EXCEPT !.page = @ + 1] IN
     IF (r.total # Unknown /\ r.page >= r.total) \/ ~r.full
     THEN Report(s, "ok", TRUE, r) ELSE Continue(s, "page", r)
  /\ Elsewhere

\* Variant for mutation: a read that ran out of budget is not marked.
MarkUnlessPartial(s) ==
  /\ pc[s] = "mark"
  /\ Continue(s, "append", Ended(read[s].verdict, read[s].guarded))
  /\ status' = IF read[s].verdict = "partial" THEN status ELSE read[s].verdict
  /\ author' = s
  /\ World /\ Bounds /\ UNCHANGED entries

\* mark_ok or mark_error: the state file first, then the line of the history.
Mark(s) ==
  /\ pc[s] = "mark"
  /\ Continue(s, "append", Ended(read[s].verdict, read[s].guarded))
  /\ status' = read[s].verdict /\ author' = s
  /\ World /\ Bounds /\ UNCHANGED entries

AppendHistory(s) ==
  /\ pc[s] = "append"
  /\ Continue(s, "audit", read[s])
  /\ entries' = entries \cup {read[s].verdict}
  /\ World /\ Bounds /\ UNCHANGED <<status, author>>

\* The audit line "sync_completed" or "sync_failed" is written, or not; inside
\* the try a failure to write it makes the read one that has failed.
AuditEnded(s) ==
  /\ pc[s] = "audit"
  /\ \/ Continue(s, "idle", NoRead)
     \/ read[s].guarded /\ Report(s, "error", FALSE, read[s])
  /\ Elsewhere

\* The process of a session ends inside a read.
Crash(s) ==
  /\ pc[s] # "idle" /\ crashes = 0
  /\ crashes' = 1
  /\ BreakOff(s)
  /\ World /\ UNCHANGED <<status, entries, reads>>

\* The seller puts an item in at the end, or takes one out or puts one in
\* before others, which shifts them over the pages.
SellerAppend ==
  /\ edits < MaxEdits
  /\ edits' = edits + 1
  /\ \E k \in Sku \ ToSet(inventory) : inventory' = Append(inventory, k)
  /\ Bounds /\ Files /\ UNCHANGED <<pc, read>>

SellerShift ==
  /\ edits < MaxEdits
  /\ edits' = edits + 1
  /\ \/ \E i \in DOMAIN inventory : inventory' = RemoveAt(inventory, i)
     \/ \E k \in Sku \ ToSet(inventory) : inventory' = <<k>> \o inventory
  /\ read' = [s \in Session |->
       IF pc[s] \in {"page", "offers", "mark"} THEN [read[s] EXCEPT !.shifted = TRUE]
       ELSE read[s]]
  /\ Bounds /\ Files /\ UNCHANGED pc

ReadStep(s) ==
  \/ AuditStarted(s) \/ GetPage(s) \/ GetOffers(s) \/ EndPage(s)
  \/ Mark(s) \/ AppendHistory(s) \/ AuditEnded(s)

Next == (\E s \in Session : Start(s) \/ ReadStep(s) \/ Crash(s)) \/ SellerAppend \/ SellerShift

Spec == Init /\ [][Next]_vars

-----------------------------------------------------------------------------
\* A read that reports ok has returned every active listing of the inventory
\* it started from, once, whatever was added behind them meanwhile, if no offer
\* was passed over and no item changed its place: no page is missed or read
\* twice, with or without a count of pages, and a read that the budget cut off
\* does not report ok.
NothingMissed ==
  \A s \in Session :
    LET r == read[s]
        Listings(n) == UNION {ListingsOf(inventory[i]) : i \in 1..n}
    IN  pc[s] = "mark" /\ r.verdict = "ok" /\ ~r.flawed /\ ~r.shifted =>
          /\ IsInjective(r.got)
          /\ Listings(r.first) \subseteq ToSet(r.got)
          /\ ToSet(r.got) \subseteq Listings(Len(inventory))

\* When no read is under way, the state file shows the outcome of a read that
\* ended and is in the history: it does not go on saying "running", however
\* the reads of several sessions overlapped.  Only a read that wrote the file
\* last and broke off, with its process or because the audit log could not be
\* written at its start, can leave it so, and only until the next.
RestIsRecorded ==
  (\A s \in Session : pc[s] = "idle") /\ author # NoRead => status \in entries

=============================================================================
