---------------------------- MODULE Capabilities ----------------------------
(***************************************************************************)
(* Capabilities, their sets and the contexts that hold them                *)
(* (capabilities/guard.ts, context.ts).  A capability has a kind, items    *)
(* (patterns, binaries, domains, keys, images, a name or a port) and,      *)
(* where its kind knows them, ports.  What a glob matches and where paths  *)
(* lead is given by constants; the file system does not change.            *)
(***************************************************************************)
EXTENDS Naturals, Sequences

CONSTANTS
  Star,         \* "*"; as a port, 0
  Item, Port,
  Matches,      \* the pairs <<item, pattern>> that a glob, or an image's name, matches
  RealPath,     \* where a path leads, links followed
  RealPattern,  \* a pattern with the links of its directory followed
  Offered,      \* capabilities that roots are made of and that derive() is asked for
  MaxContexts   \* bound

PathKinds == {"fs:read", "fs:write", "fs:delete", "db:query"}
ListKinds == {"process:spawn", "env:read", "env:write"}
HostKinds == {"net:fetch", "net:connect"}
GlobKinds == {"secret:read", "secret:write", "docker:run", "plugin"}
Kind == PathKinds \cup ListKinds \cup HostKinds \cup GlobKinds \cup {"net:listen", "os:interact", "unknown"}

\* ports is the empty sequence where allowedPorts is left out.
Capability == [kind : Kind, items : Seq(Item), ports : Seq(Port)]

ASSUME CapabilityAssumption ==
  /\ Star \in Item /\ Matches \subseteq Item \X Item
  /\ \A i \in Item : <<i, Star>> \in Matches
  /\ RealPath \in [Item -> Item] /\ RealPattern \in [Item -> Item]
  /\ \A i \in Item : RealPath[RealPath[i]] = RealPath[i] /\ RealPath[RealPattern[i]] = RealPath[i]
  /\ Offered \subseteq Capability /\ MaxContexts \in Nat

VARIABLE contexts  \* a sequence: what each holds, which one it was derived from (0: none)

-----------------------------------------------------------------------------
(* The checkers.                                                           *)

Has(held, item) == \E n \in 1 .. Len(held.items) : held.items[n] = item

\* Only the first item and the first port that are asked for are looked at.
CheckPathCapability(held, required) ==
  \E path \in {required.items[1], RealPath[required.items[1]]},
     pattern \in {held.items[1], RealPattern[held.items[1]]} : <<path, pattern>> \in Matches

CheckList(held, required) ==
  Has(held, Star) \/ (required.items # <<>> /\ Has(held, required.items[1]))

CheckPorts(held, required) ==
  \/ held.ports = <<>> \/ required.ports = <<>>
  \/ \E n \in 1 .. Len(held.ports) : held.ports[n] = required.ports[1]

CheckHost(held, required) ==
  \/ Has(held, Star)
  \/ required.items # <<>> /\ Has(held, required.items[1]) /\ CheckPorts(held, required)

CheckGlobs(held, required) ==
  \/ Has(held, Star)
  \/ /\ required.items # <<>>
     /\ \E n \in 1 .. Len(held.items) :
          held.items[n] = required.items[1] \/ <<required.items[1], held.items[n]>> \in Matches

CheckNetListen(held, required) == held.items[1] \in {Star, required.items[1]}

\* An unknown kind is denied.
CheckCapability(held, required) ==
  /\ held.kind = required.kind
  /\ \/ held.kind \in PathKinds /\ CheckPathCapability(held, required)
     \/ held.kind \in ListKinds /\ CheckList(held, required)
     \/ held.kind \in HostKinds /\ CheckHost(held, required)
     \/ held.kind \in GlobKinds /\ CheckGlobs(held, required)
     \/ held.kind = "net:listen" /\ CheckNetListen(held, required)
     \/ held.kind = "os:interact"

\* check() of a set: any capability of it is enough.
Check(caps, required) == \E held \in caps : CheckCapability(held, required)

-----------------------------------------------------------------------------
(* Contexts.                                                               *)

ContextsInit == contexts = <<>>

CreateContext(caps) ==
  /\ Len(contexts) < MaxContexts
  /\ contexts' = Append(contexts, [caps |-> caps, parent |-> 0])

BugDerive(parent, subset) ==
  /\ Len(contexts) < MaxContexts
  /\ LET held == contexts[parent].caps
         allowed == {requested \in subset : \E h \in held : h.kind = requested.kind}
     IN  contexts' = Append(contexts, [caps |-> allowed, parent |-> parent])

\* derive() keeps what one of the parent's capabilities allows, as it was asked for.
Derive(parent, subset) ==
  /\ Len(contexts) < MaxContexts
  /\ LET allowed == {requested \in subset : Check(contexts[parent].caps, requested)}
     IN  contexts' = Append(contexts, [caps |-> allowed, parent |-> parent])

ContextsNext ==
  \E caps \in SUBSET Offered :
    CreateContext(caps) \/ \E parent \in 1 .. Len(contexts) : Derive(parent, caps)

ContextsSpec == ContextsInit /\ [][ContextsNext]_contexts
-----------------------------------------------------------------------------
\* Every context holds capabilities, and was derived from an earlier one or none.
ContextsTypeOK ==
  /\ contexts \in Seq([caps : SUBSET Offered, parent : Nat]) /\ Len(contexts) <= MaxContexts
  /\ \A c \in 1 .. Len(contexts) :
       contexts[c].caps \subseteq Offered /\ contexts[c].parent \in 0 .. c - 1

\* What a wrapper demands: one item, and for a host its port.
DemandSet ==
  {d \in [kind : Kind, items : {<<i>> : i \in Item}, ports : {<<p>> : p \in Port} \cup {<<>>}] :
     (d.ports = <<>>) <=> d.kind \notin HostKinds}

\* What a demand is about: for a path, where it leads.
About(d) ==
  [kind |-> d.kind, ports |-> d.ports,
   item |-> IF d.kind \in PathKinds THEN RealPath[d.items[1]] ELSE d.items[1]]

Authority(caps) == {About(d) : d \in {e \in DemandSet : Check(caps, e)}}

\* An item that as a pattern matches nothing but itself.
Plain(i) == i # Star /\ \A j \in Item : <<j, i>> \in Matches => j = i

\* A capability that names one thing: no list, no pattern, no open port.
Single(c) ==
  /\ c \in DemandSet
  /\ c.kind # "os:interact" => Plain(c.items[1])
  /\ c.kind \in PathKinds => Plain(RealPattern[c.items[1]])

\* A context may do nothing that the context it was derived from may not, if it
\* asked for single things: the checkers look at the first item and the first
\* port of a request, and match a pattern that is asked for as if it were a path.
DerivedWithin ==
  \A c \in 1 .. Len(contexts) :
    LET parent == contexts[c].parent
    IN  parent # 0 /\ (\A cap \in contexts[c].caps : Single(cap)) =>
          Authority(contexts[c].caps) \subseteq Authority(contexts[parent].caps)
=============================================================================
