----------------------------- MODULE SimConfig -----------------------------
(***************************************************************************)
(* The configuration of the simulation, sim.C: main() reads a file line by *)
(* line into tables, starts the routers, and stores which router owns      *)
(* which address.  Meanwhile SIGALRM runs tick(), and a router that calls  *)
(* in is sent its part of the tables.  main() and the handler pass their   *)
(* arguments through the same global array args.                           *)
(*                                                                         *)
(* A line is a record.  The files are those that declare routers and       *)
(* networks before they use them, as ospf.conf does.  Costs, drawing       *)
(* coordinates and demand flags are left out.                              *)
(***************************************************************************)
EXTENDS Integers, FiniteSets, SequencesExt, Selection, Simulated

CONSTANTS
  Prefix,      \* broadcast networks
  Area,
  Preempt,     \* whether the signal may come between args and their use
  MaxLines     \* bound: lines of the file

ASSUME SimConfigAssumption ==
  IsFiniteSet(Area) /\ NULL \notin Area /\ Preempt \in BOOLEAN /\ MaxLines \in Nat

VARIABLES
  file,        \* the lines read so far
  tables,      \* routers, area_attrs, interface_attrs, network_attrs, ...
  main,        \* where main() is
  args,        \* args[0] and args[1]
  started,     \* the processes that were started, in order
  simnodes,    \* those that have called in
  mapped,      \* the owners of addresses and ports
  conf         \* what each router was configured with

configVars == <<file, tables, main, args, started, simnodes, mapped, conf>>

Unnumbered == <<"addr", "0.0.0.0">>      \* address of an unnumbered link
NoArgs == <<NULL, NULL>>

Lines ==
  [kind : {"router"}, rtr : Router]
  \cup [kind : {"broadcast"}, prefix : Prefix, area : Area]
  \cup {l \in [kind : {"pplink"}, rtr : Router, rtr2 : Router, area : Area] : l.rtr # l.rtr2}
  \cup [kind : {"interface"}, rtr : Router, prefix : Prefix, on : BOOLEAN]
  \cup [kind : {"loopback"}, rtr : Router, area : Area]

IfcAddr(r, p) == <<"addr", p, r>>
HostAddr(r)   == <<"addr", "host", r>>

MaxAreas == Cardinality(Area) + 1

EmptyTables ==
  [routers |-> <<>>, networks |-> <<>>, interfaces |-> <<>>, hosts |-> <<>>,
   areas |-> [r \in Router |-> [i \in 1..MaxAreas |-> NULL]],
   addr_mappings |-> <<>>, addr_net_memships |-> <<>>, phy_portno |-> 0]

-----------------------------------------------------------------------------
(* One procedure for each kind of line.                                    *)
proc_router(t, l) ==
  IF l.rtr \in ToSet(t.routers) THEN t ELSE [t EXCEPT !.routers = Append(@, l.rtr)]

proc_broadcast(t, l) ==
  [t EXCEPT !.phy_portno = @ + 1,
            !.networks = Append(@, [prefix |-> l.prefix, area |-> l.area, port |-> t.phy_portno + 1])]

(* The area is put in the first free place of the router's table, unless   *)
(* it is found before; the search begins at the given place.               *)
AreaPlace(row, a, from) ==
  CHOOSE i \in from..MaxAreas : /\ row[i] \in {a, NULL}
                                /\ \A j \in from..(i - 1) : row[j] \notin {a, NULL}

AddArea(t, r, a, from) == [t EXCEPT !.areas[r][AreaPlace(t.areas[r], a, from)] = a]

AddMaps(t, r, addr, port) ==
  [t EXCEPT !.addr_mappings = Append(@, <<addr, <<"rtr", r>>>>),
            !.addr_net_memships = Append(@, <<<<"port", port>>, <<"rtr", r>>>>)]

AddIfc(t, r, type, area, addr, port, on) ==
  AddMaps([t EXCEPT !.interfaces = Append(@, [rtr |-> r, type |-> type, area |-> area, addr |-> addr,
                                              port |-> port, on |-> on])],
          r, addr, port)

(* The network that an interface belongs to is the first that matches.     *)
proc_interface(t, l) ==
  LET n   == CHOOSE i \in DOMAIN t.networks :
               /\ t.networks[i].prefix = l.prefix
               /\ \A j \in 1..(i - 1) : t.networks[j].prefix # l.prefix
      net == t.networks[n]
  IN  AddIfc(AddArea(t, l.rtr, net.area, 1), l.rtr, "broadcast", net.area,
             IfcAddr(l.rtr, l.prefix), net.port, l.on)

SecondPlace_GoesOn(t, l) == AreaPlace(t.areas[l.rtr], l.area, 1)
SecondPlace(t, l) == 1

proc_pplink(t, l) ==
  LET t1 == AddArea(t, l.rtr, l.area, 1)
      t2 == AddArea(t1, l.rtr2, l.area, SecondPlace(t, l))
      p  == t.phy_portno + 1
      t3 == AddIfc([t2 EXCEPT !.phy_portno = p], l.rtr, "pp", l.area, Unnumbered, p, TRUE)
  IN  AddIfc(t3, l.rtr2, "pp", l.area, Unnumbered, p, TRUE)

proc_loopback(t, l) ==
  [t EXCEPT !.hosts = Append(@, [rtr |-> l.rtr, area |-> l.area, addr |-> HostAddr(l.rtr)]),
            !.addr_mappings = Append(@, <<HostAddr(l.rtr), <<"rtr", l.rtr>>>>)]

Proc(t, l) ==
  CASE l.kind = "router" -> proc_router(t, l)
    [] l.kind = "broadcast" -> proc_broadcast(t, l)
    [] l.kind = "interface" -> proc_interface(t, l)
    [] l.kind = "pplink" -> proc_pplink(t, l)
    [] l.kind = "loopback" -> proc_loopback(t, l)

Routers == {l \in ToSet(file) : l.kind = "router"}
Declared(r) == \E l \in Routers : l.rtr = r
Networks == {l \in ToSet(file) : l.kind = "broadcast"}
NetDeclared(p) == \E n \in Networks : n.prefix = p

(* The lines a file may go on with. *)
Legal(l) ==
  CASE l.kind = "router" -> TRUE
    [] l.kind = "broadcast" -> Cardinality(Routers) = Cardinality(Router) /\ ~NetDeclared(l.prefix)
    [] l.kind = "interface" -> Declared(l.rtr) /\ NetDeclared(l.prefix)
    [] l.kind = "pplink" -> Declared(l.rtr) /\ Declared(l.rtr2)
    [] l.kind = "loopback" -> Declared(l.rtr)

read_config_file(l) ==
  /\ main.at = "read" /\ Len(file) < MaxLines
  /\ Legal(l)
  /\ file' = Append(file, l)
  /\ tables' = Proc(tables, l)
  /\ UNCHANGED <<main, args, started, simnodes, mapped, conf>>

-----------------------------------------------------------------------------
(* The loops of main().  Each turn loads a row into args and uses it.      *)
Loop ==
  CASE main.at = "start"  -> [rows |-> [i \in DOMAIN tables.routers |-> <<<<"rtr", tables.routers[i]>>>>],
                              next |-> "map"]
    [] main.at = "map"    -> [rows |-> tables.addr_mappings, next |-> "member"]
    [] main.at = "member" -> [rows |-> tables.addr_net_memships, next |-> "loop"]
    [] OTHER              -> [rows |-> <<>>, next |-> "start"]

NextLoop ==
  /\ main.at # "loop"
  /\ main.row > Len(Loop.rows)
  /\ main' = [at |-> Loop.next, row |-> 1, loaded |-> 0]
  /\ UNCHANGED <<file, tables, args, started, simnodes, mapped, conf>>

Load ==
  /\ main.row <= Len(Loop.rows)
  /\ main.loaded < Len(Loop.rows[main.row])
  /\ args' = [args EXCEPT ![main.loaded + 1] = Loop.rows[main.row][main.loaded + 1]]
  /\ main' = [main EXCEPT !.loaded = @ + 1]
  /\ UNCHANGED <<file, tables, started, simnodes, mapped, conf>>

Loaded ==
  /\ main.row <= Len(Loop.rows)
  /\ main.loaded = Len(Loop.rows[main.row])
  /\ main' = [main EXCEPT !.row = @ + 1, !.loaded = 0]

StartRouterCopy ==
  /\ main.at = "start" /\ Loaded
  /\ started' = Append(started, args[1])
  /\ UNCHANGED <<file, tables, args, simnodes, mapped, conf>>

\* An address of 0 is not stored.
AddMappingCopy ==
  /\ main.at \in {"map", "member"} /\ Loaded
  /\ mapped' = IF args[1] = Unnumbered THEN mapped ELSE mapped \cup {args}
  /\ UNCHANGED <<file, tables, args, started, simnodes, conf>>

-----------------------------------------------------------------------------
(* The messages with which a router is configured, and its side of them.   *)
Mine(tab, r) == Keep(tab, {e \in ToSet(tab) : e.rtr = r})

sendCfgToRouterId(r) ==
  LET row  == tables.areas[r]
      full == CHOOSE n \in 0..(MaxAreas - 1) : row[n + 1] = NULL /\ \A i \in 1..n : row[i] # NULL
      ifcs == Mine(tables.interfaces, r)
      hosts == Mine(tables.hosts, r)
  IN  <<[type |-> "gen"]>>
      \o [i \in 1..full |-> [type |-> "area", area |-> row[i]]]
      \o [i \in DOMAIN ifcs |-> [type |-> "ifc", add |-> ifcs[i].on, ifc |-> ifcs[i]]]
      \o [i \in DOMAIN hosts |-> [type |-> "host", host |-> hosts[i]]]

NotConfigured == [areas |-> <<>>, ifcs |-> {}, hosts |-> {}]

(* An interface is known by its address and port.                          *)
Same(i, j) == i.addr = j.addr /\ i.port = j.port

config(c, m) ==
  CASE m.type = "gen" -> c
    [] m.type = "area" -> [c EXCEPT !.areas = Append(@, m.area)]
    [] m.type = "ifc" -> [c EXCEPT !.ifcs = {i \in @ : ~Same(i, m.ifc)}
                                             \cup (IF m.add THEN {m.ifc} ELSE {})]
    [] m.type = "host" -> [c EXCEPT !.hosts = @ \cup {m.host}]

Configured(ms) ==
  LET c[n \in 0..Len(ms)] == IF n = 0 THEN NotConfigured ELSE config(c[n - 1], ms[n])
  IN  c[Len(ms)]

(* What the handler leaves in args: the beginning of the last row sent.    *)
LastArgs(r) ==
  LET ms == sendCfgToRouterId(r)
      m  == Last(ms)
  IN  CASE m.type = "gen" -> <<<<"rtr", r>>, args[2]>>
        [] m.type = "area" -> <<<<"area", m.area>>, <<"rtr", r>>>>
        [] m.type = "ifc" -> <<<<"rtr", r>>, <<"port", m.ifc.port>>>>
        [] m.type = "host" -> <<<<"rtr", r>>, m.host.addr>>

(* SIGALRM: a router's first message is read.                              *)
call_in(k) ==
  /\ k \in DOMAIN started \ simnodes
  /\ main.loaded > 0 => Preempt
  /\ simnodes' = simnodes \cup {k}
  /\ LET r == started[k][2]
     IN  IF started[k][1] # "rtr" \/ r \notin ToSet(tables.routers) THEN UNCHANGED <<args, conf>>
         ELSE /\ conf' = [conf EXCEPT ![r] = Configured(sendCfgToRouterId(r))]
              /\ args' = LastArgs(r)
  /\ UNCHANGED <<file, tables, main, started, mapped>>

-----------------------------------------------------------------------------
ConfigInit ==
  /\ file = <<>>
  /\ tables = EmptyTables
  /\ main = [at |-> "read", row |-> 1, loaded |-> 0]
  /\ args = NoArgs
  /\ started = <<>> /\ simnodes = {} /\ mapped = {}
  /\ conf = [r \in Router |-> NotConfigured]

ConfigNext ==
  \/ \E l \in Lines : read_config_file(l)
  \/ NextLoop \/ Load \/ StartRouterCopy \/ AddMappingCopy
  \/ \E k \in DOMAIN started : call_in(k)

ConfigSpec == ConfigInit /\ [][ConfigNext]_configVars

-----------------------------------------------------------------------------
(* What the file says of a router.  The last line about an interface       *)
(* decides whether it runs OSPF.                                           *)
IsIfc(l, r, p) == l.kind = "interface" /\ l.rtr = r /\ l.prefix = p

TurnedOn(r, p) ==
  \E i \in DOMAIN file : /\ IsIfc(file[i], r, p) /\ file[i].on
                         /\ \A j \in DOMAIN file : IsIfc(file[j], r, p) => j <= i

LinksOf(r) == {l \in ToSet(file) : l.kind = "pplink" /\ r \in {l.rtr, l.rtr2}}

IfcsOf(r) ==
  {<<"pp", l.area, Unnumbered>> : l \in LinksOf(r)}
  \cup {<<"broadcast", n.area, IfcAddr(r, n.prefix)>> : n \in {m \in Networks : TurnedOn(r, m.prefix)}}

AreasOf(r) ==
  {l.area : l \in LinksOf(r)}
  \cup {n.area : n \in {m \in Networks : \E l \in ToSet(file) : IsIfc(l, r, m.prefix)}}

(* The routers on each link. *)
On(p) == {r \in Router : \E l \in ToSet(file) : IsIfc(l, r, p)}

Links ==
  {{l.rtr, l.rtr2} : l \in {m \in ToSet(file) : m.kind = "pplink"}} \cup {On(p) : p \in Prefix}

Ports == {m[1] : m \in {n \in mapped : n[1][1] = "port"}}
OnPort(p) == {m[2][2] : m \in {n \in mapped : n[1] = p}}

\* What is stored of addresses.
Addresses ==
  {<<IfcAddr(l.rtr, l.prefix), <<"rtr", l.rtr>>>> : l \in {m \in ToSet(file) : m.kind = "interface"}}
  \cup {<<HostAddr(l.rtr), <<"rtr", l.rtr>>>> : l \in {m \in ToSet(file) : m.kind = "loopback"}}

HostAreas(r) == {l.area : l \in {m \in ToSet(file) : m.kind = "loopback" /\ m.rtr = r}}

(* What a router that has called in was sent. *)
Served(r, c) ==
  /\ ToSet(c.areas) = AreasOf(r) /\ Len(c.areas) = Cardinality(AreasOf(r))
  /\ {<<i.type, i.area, i.addr>> : i \in c.ifcs} = IfcsOf(r)
  /\ \A i \in c.ifcs : r \in OnPort(<<"port", i.port>>)
  /\ {h.area : h \in c.hosts} = HostAreas(r)

(* "SendAddrMap msg for the all the interfaces" (sim.C:2266): when main()  *)
(* is through its loops, every router of the file was started once, every  *)
(* link has a port that leads to the routers on it and to no other, every  *)
(* address its owner; and a router that has called in was sent each of its *)
(* areas once and its interfaces and hosts, in their areas and on ports    *)
(* that lead to it.                                                        *)
ConfigDelivered ==
  main.at = "loop" =>
    /\ started = [i \in DOMAIN tables.routers |-> <<"rtr", tables.routers[i]>>]
    /\ ToSet(tables.routers) = {l.rtr : l \in Routers} /\ IsInjective(tables.routers)
    /\ {OnPort(p) : p \in Ports} = Links \ {{}}
    /\ {m \in mapped : m[1][1] # "port"} = Addresses
    /\ \A k \in simnodes : Served(started[k][2], conf[started[k][2]])
=============================================================================
