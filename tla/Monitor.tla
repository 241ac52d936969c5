------------------------------ MODULE Monitor ------------------------------
(***************************************************************************)
(* The monitoring protocol: a client program (ospfd_mon, ospfd_browser)    *)
(* lists a table of the daemon by asking for the entry after the one it    *)
(* got last.  The daemon keeps no cursor, and its tables change between    *)
(* two requests.                                                           *)
(*                                                                         *)
(* A key is a tuple of numbers: <<area>>, <<phyint, addr>>, <<net, mask>>, *)
(* or <<area, LS type, rest>> of an LSA.  Virtual links are left out: no   *)
(* code creates one.                                                       *)
(***************************************************************************)
EXTENDS Integers, FiniteSets, SequencesExt

CONSTANTS
  AreaKeys, IfcKeys, NbrKeys, RteKeys, LsaKeys,   \* what the tables may hold
  Clients,     \* the programs: "mon", "browser"
  MaxChanges,  \* bound: changes of a table during one listing
  NULL

LST_RTR == 1
LST_ASL == 5

(* Keys are of one length; no interface, or neighbor, has the number and   *)
(* the address 0.                                                          *)
ASSUME MonitorAssumption ==
  /\ MaxChanges \in Nat
  /\ \A k \in AreaKeys : k \in Seq(Nat) /\ Len(k) = 1
  /\ \A k \in IfcKeys \cup NbrKeys : k \in Seq(Nat) /\ Len(k) = 2 /\ k # <<0, 0>>
  /\ \A k \in RteKeys : k \in Seq(Nat) /\ Len(k) = 2
  /\ \A k \in LsaKeys : k \in Seq(Nat) /\ Len(k) = 3 /\ k[2] \in 1..3
  /\ \A S \in {AreaKeys, IfcKeys, NbrKeys, RteKeys, LsaKeys} : IsFiniteSet(S) /\ NULL \notin S

VARIABLES
  table,     \* the table that is listed, and how
  db,        \* its entries now
  walk       \* the client

monVars == <<table, db, walk>>

KeysOf(t) ==
  CASE t.of = "area" -> AreaKeys
    [] t.of = "ifc" -> IfcKeys
    [] t.of = "nbr" -> NbrKeys
    [] t.of = "rte" -> RteKeys
    [] t.of = "lsa" -> LsaKeys

Less(a, b) ==
  \E i \in DOMAIN a : a[i] < b[i] /\ \A j \in 1..(i - 1) : a[j] = b[j]

Least(S) == IF S = {} THEN NULL ELSE CHOOSE k \in S : \A o \in S \ {k} : Less(k, o)

-----------------------------------------------------------------------------
(* The daemon: the entry with a key, or the next one.                      *)
NextArea_Same(a) == Least({k \in db : k[1] >= a[1]})
NextArea(a) == Least({k \in db : k[1] > a[1]})

Exactly(key) == IF key \in db THEN key ELSE NULL

area_stats(req) == IF req.exact THEN Exactly(req.key) ELSE NextArea(req.key)

next_ifc(k) == Least({i \in db : k[1] < i[1] \/ (k[1] = i[1] /\ k[2] < i[2])})
interface_stats(req) == IF req.exact THEN Exactly(req.key) ELSE next_ifc(req.key)

next_nbr(k) == Least({n \in db : k[1] <= n[1] /\ ~(k[1] = n[1] /\ k[2] >= n[2])})
neighbor_stats(req) == IF req.exact THEN Exactly(req.key) ELSE next_nbr(req.key)

(* Entries that are no valid routes are passed over. *)
rte_stats(req) == IF req.exact THEN Exactly(req.key) ELSE Least({r \in db : Less(req.key, r)})

(* Area by area, LS type by LS type; only the first tree that is searched  *)
(* is searched from the key on.                                            *)
NextLSA(k) ==
  LET a    == k[1]
      here == {l \in db : l[1] = a /\ ((l[2] = k[2] /\ l[3] > k[3]) \/ l[2] > k[2])}
  IN  IF here # {} THEN Least(here) ELSE Least({l \in db : l[1] > a})
lsa_stats(req) == IF req.exact THEN Exactly(req.key) ELSE NextLSA(req.key)

(* What is sent back. *)
monitor(t, req) ==
  CASE t.of = "area" -> area_stats(req)
    [] t.of = "ifc" -> interface_stats(req)
    [] t.of = "nbr" -> neighbor_stats(req)
    [] t.of = "rte" -> rte_stats(req)
    [] t.of = "lsa" -> lsa_stats(req)

-----------------------------------------------------------------------------
(* The clients.  A listing that starts with an exact request looks for the *)
(* entry 0 first; the others cannot have one.                              *)
Listing(of, exactFirst, start) == [of |-> of, exact |-> exactFirst, start |-> start, type |-> 0]

get_areas      == Listing("area", TRUE, <<0>>)
get_interfaces == Listing("ifc", FALSE, <<0, 0>>)
get_neighbors  == Listing("nbr", FALSE, <<0, 0>>)
get_rttbl      == Listing("rte", TRUE, <<0, 0>>)
get_database(a, type) == [Listing("lsa", FALSE, <<a, type, 0>>) EXCEPT !.type = type]

browser_get_areas      == Listing("area", TRUE, <<0>>)
browser_get_interfaces == Listing("ifc", FALSE, <<0, 0>>)
browser_get_neighbors  == Listing("nbr", FALSE, <<0, 0>>)
browser_get_rttbl      == Listing("rte", TRUE, <<0, 0>>)
browser_get_database(a, type) == [Listing("lsa", FALSE, <<a, 0, 0>>) EXCEPT !.type = type]

Areas == {k[1] : k \in LsaKeys}

Listings(client) ==
  IF client = "mon"
  THEN {get_areas, get_interfaces, get_neighbors, get_rttbl, get_database(0, LST_ASL)}
       \cup {get_database(a, 0) : a \in Areas}
  ELSE {browser_get_areas, browser_get_interfaces, browser_get_neighbors, browser_get_rttbl,
        browser_get_database(0, LST_ASL)}
       \cup {browser_get_database(a, LST_RTR) : a \in Areas}

flooding_scope(type) == IF type \in 1..3 THEN "area" ELSE "none"

(* What the client does with an LSA: list it, pass over its type, or end. *)
mon_Verdict(t, k) ==
  IF k[1] # t.start[1] THEN "end"
  ELSE IF k[2] # t.type /\ (t.type = LST_ASL \/ k[2] = LST_ASL) THEN "end"
  ELSE "list"

browser_Verdict(t, k) ==
  IF k[1] # t.start[1] THEN "end"
  ELSE IF k[2] # t.type /\ flooding_scope(k[2]) # flooding_scope(t.type) THEN "pass"
  ELSE "list"

Verdict(k) ==
  IF k = NULL THEN "end"
  ELSE IF table.of # "lsa" THEN "list"
  ELSE IF table.client = "mon" THEN mon_Verdict(table, k) ELSE browser_Verdict(table, k)

(* One request and its response. *)
Ask ==
  LET k == monitor(table, [exact |-> walk.exact, key |-> walk.key])
      v == Verdict(k)
  IN  /\ ~walk.done
      /\ walk' = IF walk.exact /\ k = NULL THEN [walk EXCEPT !.exact = FALSE]
                 ELSE IF v = "list"
                 THEN [walk EXCEPT !.exact = FALSE, !.key = k, !.seen = Append(@, k)]
                 ELSE IF v = "pass" THEN [walk EXCEPT !.key = <<k[1], k[2] + 1, 0>>]
                 ELSE [walk EXCEPT !.done = TRUE]
      /\ UNCHANGED <<table, db>>

(* The daemon's table changes.  Areas are never removed. *)
Change(k) ==
  /\ walk.changes < MaxChanges
  /\ ~walk.done
  /\ db' = IF k \in db THEN db \ {k} ELSE db \cup {k}
  /\ k \in db => table.of # "area"
  /\ walk' = [walk EXCEPT !.changes = @ + 1, !.stay = @ \ {k}]
  /\ UNCHANGED table

MonInit ==
  /\ \E c \in Clients : \E l \in Listings(c) :
       table = [client |-> c, of |-> l.of, exact |-> l.exact, start |-> l.start, type |-> l.type]
  /\ db \in SUBSET KeysOf(table)
  /\ walk = [exact |-> table.exact, key |-> table.start, seen |-> <<>>, stay |-> db,
             changes |-> 0, done |-> FALSE]

MonNext == Ask \/ \E k \in KeysOf(table) : Change(k)

MonSpec == MonInit /\ [][MonNext]_monVars

-----------------------------------------------------------------------------
(* What the listing is about. *)
Asked(k) ==
  table.of = "lsa" => k[1] = table.start[1] /\ table.type # LST_ASL

(* A listing has every entry that was there all the time, in order and     *)
(* once, whatever came and went between the requests, and no entry of      *)
(* another area: the client relies on the last key alone, which may have   *)
(* been removed since, and the daemon searches several trees for it.       *)
ListingComplete ==
  /\ \A i \in 1..(Len(walk.seen) - 1) : Less(walk.seen[i], walk.seen[i + 1])
  /\ \A k \in ToSet(walk.seen) : Asked(k)
  /\ walk.done => {k \in walk.stay : Asked(k)} \subseteq ToSet(walk.seen)
=============================================================================
