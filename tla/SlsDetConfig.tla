------------------------------ MODULE SlsDetConfig ------------------------------
(***************************************************************************)
(* The configuration of an IOC: SlsDetConfigure makes a port for a line of *)
(* hostnames joined with '+', and the driver of each address names its     *)
(* shared memory after the port's id and the address                       *)
(* (drvAsynSlsDetPort.cpp, slsDetDriver.cpp).                              *)
(*                                                                         *)
(* A line is a sequence of characters; only whether one is a '+' matters.  *)
(* The library is external: making a multiSlsDetector and giving it its    *)
(* hostname leaves that hostname in the shared memory, and every later     *)
(* call is made to the hostname found there.                               *)
(***************************************************************************)
EXTENDS Integers, Sequences, FiniteSets

CONSTANTS
  Lines,     \* the second argument of SlsDetConfigure
  Ids,       \* the third one
  MaxPorts   \* bound: the ports of an IOC

ASSUME ConfigLines == \A line \in Lines : line \in Seq(STRING)
ASSUME ConfigIds == Ids \subseteq Int

VARIABLES
  ports,    \* the ports, in the order of the commands
  det,      \* _det of the driver of each port and address
  memory    \* the hostname in each shared memory, or Freed

vars == <<ports, det, memory>>

Plus == "+"
Freed == <<>>

NotEmpty(token) == token # <<>>

\* Positions of '+' from last on: find returns the first of them or npos.
Found(line, last) == {i \in last..Len(line) : line[i] = Plus}

First(S) == CHOOSE i \in S : \A j \in S : i <= j

Pushed(token) == IF NotEmpty(token) THEN <<token>> ELSE <<>>

\* Fault: what follows the last '+' is forgotten.
HostnamesUnfinished(line) ==
  LET split[last \in 1..(Len(line) + 1)] ==
        IF Found(line, last) = {} THEN <<>>
        ELSE LET next == First(Found(line, last))
             IN  Pushed(SubSeq(line, last, next - 1)) \o split[next + 1]
  IN  split[1]

\* The loop of SlsDetConfigure: tokens between '+', empty ones left out.
Hostnames(line) ==
  LET split[last \in 1..(Len(line) + 1)] ==
        IF Found(line, last) = {} THEN Pushed(SubSeq(line, last, Len(line)))
        ELSE LET next == First(Found(line, last))
             IN  Pushed(SubSeq(line, last, next - 1)) \o split[next + 1]
  IN  split[1]

PortAddrs(p) == 1..Len(ports[p].hosts)

\* Fault: every module of a port gets the same shared memory.
MemoryIdUnshifted(port, a) == port.id

\* The driver of the first address, number 1 here and 0 in the code, gets _id.
MemoryId(port, a) == port.id + a - 1

Init ==
  /\ ports = <<>>
  /\ det = <<>>
  /\ memory = [i \in {} |-> Freed]

Configure(line, id) ==
  /\ Len(ports) < MaxPorts
  /\ ports' = Append(ports, [line |-> line, id |-> id, hosts |-> Hostnames(line)])
  /\ det' = Append(det, [a \in 1..Len(Hostnames(line)) |-> FALSE])
  /\ UNCHANGED memory

Content(id) == IF id \in DOMAIN memory THEN memory[id] ELSE Freed

Store(id, host) ==
  memory' = [i \in DOMAIN memory \cup {id} |-> IF i = id THEN host ELSE memory[i]]

\* The worker's initialize() found the one module of its hostname.
Initialize(p, a) ==
  /\ ~det[p][a]
  /\ det' = [det EXCEPT ![p][a] = TRUE]
  /\ Store(MemoryId(ports[p], a), ports[p].hosts[a])
  /\ UNCHANGED ports

\* shutdown() deletes the object and frees the shared memory of its id.
Shutdown(p, a) ==
  /\ det[p][a]
  /\ det' = [det EXCEPT ![p][a] = FALSE]
  /\ Store(MemoryId(ports[p], a), Freed)
  /\ UNCHANGED ports

Next ==
  \/ \E line \in Lines, id \in Ids : Configure(line, id)
  \/ \E p \in DOMAIN ports : \E a \in PortAddrs(p) : Initialize(p, a) \/ Shutdown(p, a)

Spec == Init /\ [][Next]_vars

-----------------------------------------------------------------------------
(* Properties *)

\* A name in a line: a stretch without '+' that no longer one contains.
Names(line) ==
  {r \in (1..Len(line)) \X (1..Len(line)) :
     /\ r[1] <= r[2]
     /\ \A i \in r[1]..r[2] : line[i] # Plus
     /\ r[1] = 1 \/ line[r[1] - 1] = Plus
     /\ r[2] = Len(line) \/ line[r[2] + 1] = Plus}

\* Every name of the line is the module of one address, in the order of the
\* line, and no address is without a name, whatever '+' the line starts or ends
\* with or repeats (SlsDetConfigure, drvAsynSlsDetPort.cpp:790-808).
ModulesAsListed ==
  \A p \in DOMAIN ports :
    LET line == ports[p].line
        names == Names(line)
    IN  /\ Len(ports[p].hosts) = Cardinality(names)
        /\ \A r \in names :
             ports[p].hosts[Cardinality({s \in names : s[1] <= r[1]})]
               = SubSeq(line, r[1], r[2])

\* A driver that has its detector object finds its own hostname in the shared
\* memory it uses, not that of a module another driver configured, and nobody
\* has freed it (initialize and shutdown, slsDetDriver.cpp:602-632, 828-836).
MemoryIsOwn ==
  \A p \in DOMAIN ports : \A a \in PortAddrs(p) :
    det[p][a] => Content(MemoryId(ports[p], a)) = ports[p].hosts[a]

\* No two ports have an id in common: README:71-73 asks for no more.
IdsAreUnique ==
  \A p, q \in DOMAIN ports : p # q => ports[p].id # ports[q].id

\* The ids of two ports are at least as far apart as the first of them has
\* modules.
IdsAreSpaced ==
  \A p, q \in DOMAIN ports :
    p # q => \/ ports[p].id + Len(ports[p].hosts) <= ports[q].id
             \/ ports[q].id + Len(ports[q].hosts) <= ports[p].id

\* Ids that leave room for every module of a port keep the modules apart.
SpacedMemoryIsOwn == IdsAreSpaced => MemoryIsOwn

\* "it needs to be unique (at least on the machine the IOC is running on) since
\* the slsDetectorPackage is using shared memory that it names based on that id"
\* (README:72-73): unique ids keep the modules apart.
UniqueMemoryIsOwn == IdsAreUnique => MemoryIsOwn
=============================================================================
