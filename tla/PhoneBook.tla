------------------------------ MODULE PhoneBook ------------------------------
(***************************************************************************)
(* The lists around the SIM cards: PhoneNumbersService keeps the numbers,  *)
(* the places of the cards on the physical board and the bindings of       *)
(* numbers to services; PhoneServicesService keeps the services.  Every    *)
(* operation reads first and writes later; only the unique and the foreign *)
(* keys of the tables stand between two that overlap.                      *)
(***************************************************************************)
EXTENDS Integers, FiniteSets, SequencesExt

CONSTANTS Requests,
          MaxRequests,   \* bound of the requests that begin
          Cards,         \* ids, from 1
          Slots,         \* places on the board
          Raws,          \* spellings of numbers, as typed
          Slugs,
          Limit          \* rows of a page

VARIABLES area,      \* which of the three lists the requests of a behaviour work on
          number,    \* number of each card, <<>> for no such card
          slot,      \* boardSlot of each card
          slugs,     \* slug of each service, "" for no such service
          bound,     \* the bindings: card and service, 0 for no such binding
          req,       \* the requests at work
          begun,     \* requests so far
          failed,    \* history: the kinds of requests that a key of a table refused
          placed,    \* history: the cards that the moves so far mean to be on the board
          raced      \* history: a card was moved from where it no longer was

vars == <<area, number, slot, slugs, bound, req, begun, failed, placed, raced>>

\* A typed character: a digit, the sign + or a separator.
Digit == 0..9
Plus == 10
Separator == 11

Off == -1                   \* boardSlot = null
Services == 1..2
Ids == 1..MaxRequests       \* of bindings
Gone == [card |-> 0, service |-> 0]
Idle == [pc |-> "idle"]

\* normalizePhone: the sign and the digits stay; a local number gets its country.
Normal(raw) ==
    LET kept == SelectSeq(raw, LAMBDA x : x # Separator) IN
    CASE Head(kept) = Plus -> kept
      [] Head(kept) = 0    -> <<Plus, 3, 8>> \o kept
      [] OTHER             -> <<Plus>> \o kept
HasDigits(raw) == \E i \in DOMAIN raw : raw[i] \in Digit

\* Mutant: what is typed is stored.
StoredAsTyped(raw) == SelectSeq(raw, LAMBDA x : x # Separator)
Stored(raw) == Normal(raw)

\* Two cards are on the board and have their numbers; the other has no row yet
\* when numbers are at work.
Init ==
    /\ area \in {"numbers", "board", "bindings"}
    /\ number = [c \in Cards |-> IF c <= 2 \/ area # "numbers" THEN <<Plus, 3, 8, 0, c>> ELSE <<>>]
    /\ slot = [c \in Cards |-> IF c <= 2 THEN c ELSE Off]
    /\ slugs = [s \in Services |-> IF s = 1 THEN "whatsapp" ELSE ""]
    /\ bound = [b \in Ids |-> Gone]
    /\ req = [r \in Requests |-> Idle] /\ begun = 0
    /\ failed = {} /\ placed = {c \in Cards : slot[c] # Off} /\ raced = FALSE

Begins(r, list) == area = list /\ req[r].pc = "idle" /\ begun < MaxRequests /\ begun' = begun + 1
Goto(r, rec) == req' = [req EXCEPT ![r] = rec]
\* A write; the requests that have read before it are behind it.
Written(r) ==
    req' = [q \in Requests |-> IF q = r \/ req[q].pc = "idle" THEN Idle
                               ELSE [req[q] EXCEPT !.behind = TRUE]]
\* A write that a key of the table refuses: the request ends in an error.
Refused(r) == failed' = failed \union {[kind |-> req[r].pc, behind |-> req[r].behind]} /\ Goto(r, Idle)

-----------------------------------------------------------------------------
(* Numbers.                                                                *)

Taken(n, c) == \E d \in Cards \ {c} : number[d] = n

\* create and update up to their write: a number of another card is refused.
NumberBegins(r, c, raw) ==
    /\ Begins(r, "numbers")
    /\ Goto(r, IF ~HasDigits(raw) \/ Taken(Normal(raw), c) THEN Idle
               ELSE [pc |-> "number", card |-> c, new |-> Stored(raw), behind |-> FALSE])
    /\ UNCHANGED <<area, number, slot, slugs, bound, failed, placed, raced>>

SaveNumber(r) ==
    /\ req[r].pc = "number"
    /\ IF Taken(req[r].new, req[r].card) THEN Refused(r) /\ UNCHANGED number
       ELSE /\ number' = [number EXCEPT ![req[r].card] = req[r].new]
            /\ Written(r) /\ UNCHANGED failed
    /\ UNCHANGED <<area, slot, slugs, bound, begun, placed, raced>>

\* The order of a list, in which rows of one key come as the database likes, and the
\* rows of one page of it.
Listed == {c \in Cards : number[c] # <<>>}
Value(n) == FoldLeft(LAMBDA v, x : 12 * v + x, 0, n)
Orders == {o \in [1..Cardinality(Listed) -> Listed] :
              \A i, j \in DOMAIN o : i < j => o[i] # o[j] /\ Value(number[o[i]]) <= Value(number[o[j]])}
Page(o, page) == {o[i] : i \in {j \in DOMAIN o : (page - 1) * Limit < j /\ j <= page * Limit}}

-----------------------------------------------------------------------------
(* moveBoardSlot.                                                          *)

MoveBegins(r, c, to) ==
    /\ Begins(r, "board")
    /\ Goto(r, IF to = slot[c] THEN Idle
               ELSE [pc |-> "look", card |-> c, to |-> to, before |-> slot[c], occupant |-> 0, behind |-> FALSE])
    /\ UNCHANGED <<area, number, slot, slugs, bound, failed, placed, raced>>

\* The transaction looks for the card in the way, 0 for none.
Occupant(c, to) ==
    IF \E d \in Cards \ {c} : to # Off /\ slot[d] = to
    THEN CHOOSE d \in Cards \ {c} : slot[d] = to ELSE 0
Look(r) ==
    /\ req[r].pc = "look"
    /\ Goto(r, [req[r] EXCEPT !.pc = "move", !.occupant = Occupant(req[r].card, req[r].to)])
    /\ UNCHANGED <<area, number, slot, slugs, bound, begun, failed, placed, raced>>

\* Its updates, in order.  Mutants: the place is not cleared first; the other card
\* does not get the place that is left.
WritesBare(q) ==
    IF q.occupant = 0 THEN <<<<q.card, q.to>>>>
    ELSE <<<<q.card, q.to>>, <<q.occupant, q.before>>>>
WritesKick(q) ==
    IF q.occupant = 0 THEN <<<<q.card, q.to>>>>
    ELSE <<<<q.occupant, Off>>, <<q.card, q.to>>>>
Writes(q) ==
    IF q.occupant = 0 THEN <<<<q.card, q.to>>>>
    ELSE <<<<q.occupant, Off>>, <<q.card, q.to>>, <<q.occupant, q.before>>>>

\* The unique key is checked after each; one that it refuses undoes them all.
Undone == [c \in Cards |-> Off - 1]
Update(s, w) ==
    IF s = Undone \/ (w[2] # Off /\ \E d \in Cards \ {w[1]} : s[d] = w[2]) THEN Undone
    ELSE [s EXCEPT ![w[1]] = w[2]]
Moved(q) == FoldLeft(Update, slot, Writes(q))

\* The rows and the keys that the updates touch are locked until the commit.
Move(r) ==
    LET q == req[r] IN
    /\ q.pc = "move"
    /\ IF Moved(q) = Undone THEN Refused(r) /\ UNCHANGED <<slot, placed, raced>>
       ELSE /\ slot' = Moved(q)
            /\ raced' = (raced \/ slot[q.card] # q.before \/ (q.occupant # 0 /\ slot[q.occupant] # q.to))
            /\ placed' = CASE q.to = Off     -> placed \ {q.card}
                           [] q.before = Off -> (placed \ {q.occupant}) \union {q.card}
                           [] OTHER          -> placed
            /\ Written(r) /\ UNCHANGED failed
    /\ UNCHANGED <<area, number, slugs, bound, begun>>

-----------------------------------------------------------------------------
(* Services and bindings.                                                  *)

Exists(s) == slugs[s] # ""
Bindings(s) == {b \in Ids : bound[b].service = s}
SlugTaken(x, s) == \E t \in Services \ {s} : slugs[t] = x

\* create and update of a service up to their write; an update wants it to exist.
ServiceBegins(r, s, x) ==
    /\ Begins(r, "bindings")
    /\ Goto(r, IF SlugTaken(x, s) THEN Idle
               ELSE [pc |-> "service", service |-> s, slug |-> x, had |-> Exists(s), behind |-> FALSE])
    /\ UNCHANGED <<area, number, slot, slugs, bound, failed, placed, raced>>
SaveService(r) ==
    LET q == req[r] IN
    /\ q.pc = "service" /\ (q.had \/ ~Exists(q.service))
    /\ IF SlugTaken(q.slug, q.service) \/ (q.had /\ ~Exists(q.service))
       THEN Refused(r) /\ UNCHANGED slugs
       ELSE slugs' = [slugs EXCEPT ![q.service] = q.slug] /\ Written(r) /\ UNCHANGED failed
    /\ UNCHANGED <<area, number, slot, bound, begun, placed, raced>>

\* Mutant: the bindings are not counted, and the database refuses instead.
RemovableAny(s) == Exists(s)
Removable(s) == Exists(s) /\ Bindings(s) = {}
RemoveServiceBegins(r, s) ==
    /\ Begins(r, "bindings")
    /\ Goto(r, IF Removable(s) THEN [pc |-> "drop", service |-> s, behind |-> FALSE] ELSE Idle)
    /\ UNCHANGED <<area, number, slot, slugs, bound, failed, placed, raced>>
RemoveService(r) ==
    LET s == req[r].service IN
    /\ req[r].pc = "drop"
    /\ IF Removable(s) THEN slugs' = [slugs EXCEPT ![s] = ""] /\ Written(r) /\ UNCHANGED failed
       ELSE Refused(r) /\ UNCHANGED slugs
    /\ UNCHANGED <<area, number, slot, bound, begun, placed, raced>>

\* createBinding and updateBinding: the card or the binding is read, then the service.
BindBegins(r, c, s) ==
    /\ Begins(r, "bindings")
    /\ Goto(r, IF Exists(s) THEN [pc |-> "bind", id |-> begun + 1, card |-> c, service |-> s, behind |-> FALSE]
               ELSE Idle)
    /\ UNCHANGED <<area, number, slot, slugs, bound, failed, placed, raced>>
RebindBegins(r, b, s) ==
    /\ Begins(r, "bindings") /\ bound[b] # Gone
    /\ Goto(r, IF Exists(s) THEN [pc |-> "rebind", id |-> b, service |-> s, behind |-> FALSE]
               ELSE Idle)
    /\ UNCHANGED <<area, number, slot, slugs, bound, failed, placed, raced>>
Bind(r) ==
    LET q == req[r] IN
    /\ q.pc = "bind"
    /\ IF Exists(q.service)
       THEN /\ bound' = [bound EXCEPT ![q.id] = [card |-> q.card, service |-> q.service]]
            /\ Written(r) /\ UNCHANGED failed
       ELSE Refused(r) /\ UNCHANGED bound
    /\ UNCHANGED <<area, number, slot, slugs, begun, placed, raced>>
Rebind(r) ==
    LET q == req[r] IN
    /\ q.pc = "rebind"
    /\ IF Exists(q.service) /\ bound[q.id] # Gone
       THEN bound' = [bound EXCEPT ![q.id].service = q.service] /\ Written(r) /\ UNCHANGED failed
       ELSE Refused(r) /\ UNCHANGED bound
    /\ UNCHANGED <<area, number, slot, slugs, begun, placed, raced>>

RemoveBindingBegins(r, b) ==
    /\ Begins(r, "bindings") /\ bound[b] # Gone
    /\ Goto(r, [pc |-> "unbind", id |-> b, behind |-> FALSE])
    /\ UNCHANGED <<area, number, slot, slugs, bound, failed, placed, raced>>
RemoveBinding(r) ==
    /\ req[r].pc = "unbind"
    /\ IF bound[req[r].id] = Gone THEN Refused(r) /\ UNCHANGED bound
       ELSE bound' = [bound EXCEPT ![req[r].id] = Gone] /\ Written(r) /\ UNCHANGED failed
    /\ UNCHANGED <<area, number, slot, slugs, begun, placed, raced>>

-----------------------------------------------------------------------------
Next ==
    \E r \in Requests :
        \/ \E c \in Cards, raw \in Raws : NumberBegins(r, c, raw)
        \/ SaveNumber(r)
        \/ \E c \in Cards, to \in Slots \union {Off} : MoveBegins(r, c, to)
        \/ Look(r) \/ Move(r)
        \/ \E s \in Services, x \in Slugs : ServiceBegins(r, s, x)
        \/ SaveService(r)
        \/ \E s \in Services : RemoveServiceBegins(r, s) \/ \E c \in Cards : BindBegins(r, c, s)
        \/ \E s \in Services, b \in Ids : RebindBegins(r, b, s)
        \/ \E b \in Ids : RemoveBindingBegins(r, b)
        \/ RemoveService(r) \/ Bind(r) \/ Rebind(r) \/ RemoveBinding(r)

Spec == Init /\ [][Next]_vars

-----------------------------------------------------------------------------
(* Properties.                                                             *)

\* Every variable keeps its type.
TypeOK ==
    /\ slot \in [Cards -> Slots \union {Off}]
    /\ slugs \in [Services -> Slugs \union {""}]
    /\ bound \in [Ids -> [card : Cards \union {0}, service : Services \union {0}]]
    /\ begun \in 0..MaxRequests /\ raced \in BOOLEAN

\* However they are typed, no two cards hold one number, and what is stored is what a
\* new spelling of it is compared with.
NumbersOnce ==
    \A c, d \in Listed :
        /\ Normal(number[c]) = number[c]
        /\ number[c] = number[d] => c = d

\* Pages of the list in its default order, each dealt by a query of its own, show
\* every number exactly once.
PagesShowAll ==
    area = "numbers" => \A o, p \in Orders :
        Page(o, 1) \union Page(p, 2) = Listed /\ Page(o, 1) \intersect Page(p, 2) = {}

\* Which cards are on the board is what the moves asked for, unless a card was moved under
\* a request that had read its place: a move from one place to another exchanges two cards
\* and takes none off; a move to no place takes off the card it names; and a card without a
\* place takes the place of the one it finds there, which has nothing to get in exchange.
BoardKeepsCards == ~raced => {c \in Cards : slot[c] # Off} = placed

\* A place holds one card, a service has its slug to itself, and a binding has its
\* service.
KeysHold ==
    /\ \A c, d \in Cards : slot[c] # Off /\ slot[c] = slot[d] => c = d
    /\ \A s, t \in Services : Exists(s) /\ slugs[s] = slugs[t] => s = t
    /\ \A b \in Ids : bound[b] # Gone => Exists(bound[b].service)

\* What a key refuses is a race: a request that nobody overtakes is answered by its
\* own checks, a swap on the board included.
FailuresAreRaces == \A f \in failed : f.behind

PhoneBookSound ==
    /\ NumbersOnce
    /\ PagesShowAll
    /\ BoardKeepsCards
    /\ KeysHold
    /\ FailuresAreRaces
=============================================================================
