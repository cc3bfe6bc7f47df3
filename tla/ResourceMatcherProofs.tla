------------------------ MODULE ResourceMatcherProofs ------------------------
(***************************************************************************)
(* What is proved of ResourceMatcher, for any components, templates, paths *)
(* and number of resources: RegisteredOnce; MatchedFits and BestIsReturned *)
(* while resources are added during a match; and ClearedChildrenFirst, for *)
(* any trie that the resources added before can make.                      *)
(*                                                                         *)
(* The trie only grows: a node stays, and so does the resource at it. What *)
(* a search state says of the part of the path that was read therefore     *)
(* stays true whatever is added, and what was known when the match was     *)
(* called is where it was.                                                 *)
(***************************************************************************)
EXTENDS ResourceMatcher, Induction, SequenceTheorems

-----------------------------------------------------------------------------
(***************************************************************************)
(* The inductive invariants.                                               *)
(***************************************************************************)

\* The trie: with a node there are those above it, and the only resource at a
\* node is the one whose template leads to it.
TrieInv ==
  /\ Head_ \in DOMAIN trie
  /\ \A node \in DOMAIN trie :
       /\ node \in Node
       /\ \A k \in 0..Len(node) : SubSeq(node, 1, k) \in DOMAIN trie
       /\ trie[node] # NoResource => trie[node] = node /\ node \in Templates

\* addResource: it has come to a node, and when it has entered the resource there
\* is nothing left but to list it.
RegistrarInv ==
  /\ registrar \in [phase : {"idle", "walking", "binding"}, template : Node, depth : Nat]
  /\ registrar.phase = "idle" => registrar = Idle
  /\ registrar.phase # "idle" =>
       /\ registrar.template \in Templates
       /\ registrar.depth <= Len(registrar.template)
       /\ Parent \in DOMAIN trie
  /\ Binding => registrar.depth = Len(registrar.template)

\* The resources entered are those listed, once each, and the one being added.
ListedInv ==
  /\ resources \in Seq(Templates)
  /\ RegisteredOnce

RegistryInv == TrieInv /\ RegistrarInv /\ ListedInv

\* A template fits the first n components of a path.
FitsTo(template, path, n) ==
  Len(template) = n /\ \A i \in 1..n : template[i] \in {path[i], Variable}

StandForTo(parameters, template, path, n) ==
  \E place \in [DOMAIN parameters -> 1..n] :
    /\ {place[k] : k \in DOMAIN parameters} = {i \in 1..n : template[i] = Variable}
    /\ \A j, k \in DOMAIN parameters : j < k => place[j] < place[k]
    /\ \A k \in DOMAIN parameters : parameters[k] = path[place[k]]

State == [cur : Node, variables : Seq(Component), matched : Resource, terminated : BOOLEAN,
          literals : Seq(Nat)]

\* A search state that has met the first n components of a path: it has ended,
\* without a match, or has come to a node that fits them, with what its variables
\* stand for; and its possible match is the resource there.
Sound(state, path, n) ==
  /\ state \in State
  /\ state.terminated => state.matched = NoResource
  /\ ~state.terminated =>
       /\ state.cur \in DOMAIN trie
       /\ FitsTo(state.cur, path, n)
       /\ StandForTo(state.variables, state.cur, path, n)
       /\ state.matched # NoResource => state.matched = state.cur /\ trie[state.cur] = state.cur

\* A search state on the way to t, or there.
Follows(state, t, n) ==
  /\ ~state.terminated
  /\ state.cur = SubSeq(t, 1, n)
  /\ n = Len(t) /\ n # 0 => state.matched = t

\* In the middle of a round some states have met one component more than others.
Met(call, i) == IF i < call.next THEN call.depth + 1 ELSE call.depth

Call == [phase : {"idle", "exploring", "matched", "unmatched", "undefined"},
         path : Seq(Component), known : SUBSET Templates, depth : Nat,
         states : Seq(State), next : Nat, add : Seq(State),
         resource : Resource, invocable : BOOLEAN, parameters : Seq(Component)]

\* Every state is sound, and a resource that was known when match was called, and
\* fits the path, has a state on the way to it.
ExploringInv(call) ==
  /\ call.next \in 1..Len(call.states)
  /\ call.depth = Len(call.path) => call.next = 1 /\ call.add = <<>>
  /\ \A i \in DOMAIN call.states : Sound(call.states[i], call.path, Met(call, i))
  /\ \A i \in DOMAIN call.add : Sound(call.add[i], call.path, call.depth + 1)
  /\ \A t \in call.known :
       Fits(t, call.path) =>
         \/ \E i \in DOMAIN call.states : Follows(call.states[i], t, Met(call, i))
         \/ \E i \in DOMAIN call.add : Follows(call.add[i], t, call.depth + 1)

SearchInv ==
  /\ search \in Call
  /\ search.known \subseteq bound
  /\ search.depth <= Len(search.path)
  /\ search.phase = "exploring" => ExploringInv(search)
  /\ search.phase = "matched" => search.resource \in Entered
  /\ MatchedFits

-----------------------------------------------------------------------------
(***************************************************************************)
(* Nodes.                                                                  *)
(***************************************************************************)

LEMMA Nodes ==
  /\ Head_ \in Node /\ Templates \subseteq Node /\ Paths \subseteq Seq(Component)
  /\ NoResource \notin Templates
BY MatcherAssumption DEF Head_, Node

\* The nodes above a node are its beginnings.
LEMMA NodesAbove ==
  ASSUME NEW template \in Node, NEW n \in 0..Len(template)
  PROVE  LET node == SubSeq(template, 1, n)
         IN  /\ node \in Node /\ Len(node) = n
             /\ \A i \in 1..n : node[i] = template[i]
             /\ \A k \in 0..n : SubSeq(node, 1, k) = SubSeq(template, 1, k)
<1> DEFINE node == SubSeq(template, 1, n)
<1>1. template \in Seq(Component \cup {Variable}) /\ Len(template) \in Nat
  BY DEF Node
<1>2. node \in Seq(Component \cup {Variable}) /\ Len(node) = n
      /\ \A i \in 1..n : node[i] = template[i]
  BY <1>1
<1>3. ASSUME NEW k \in 0..n
      PROVE  SubSeq(node, 1, k) = SubSeq(template, 1, k)
  <2> HIDE DEF node
  <2>1. /\ SubSeq(node, 1, k) \in Seq(Component \cup {Variable}) /\ Len(SubSeq(node, 1, k)) = k
        /\ \A i \in 1..k : SubSeq(node, 1, k)[i] = node[i]
    BY <1>2
  <2>2. /\ SubSeq(template, 1, k) \in Seq(Component \cup {Variable})
        /\ Len(SubSeq(template, 1, k)) = k
        /\ \A i \in 1..k : SubSeq(template, 1, k)[i] = template[i]
    BY <1>1
  <2>3. \A i \in 1..k : SubSeq(node, 1, k)[i] = SubSeq(template, 1, k)[i]
    BY <1>2, <2>1, <2>2
  <2> QED
    BY <2>1, <2>2, <2>3, SeqEqual
<1> QED
  BY <1>2, <1>3 DEF Node

-----------------------------------------------------------------------------
(***************************************************************************)
(* addResource.                                                            *)
(***************************************************************************)

\* A node is found or made.
LEMMA WalkRegistry ==
  ASSUME RegistryInv, Walk
  PROVE  RegistryInv'
<1> DEFINE r == registrar
           t == registrar.template
<1>1. /\ r.phase = "walking" /\ r.depth \in Nat /\ r.depth < Len(t) /\ Len(t) \in Nat
      /\ t \in Node /\ t \in Templates /\ Parent \in DOMAIN trie
  BY DEF RegistryInv, RegistrarInv, Walk, Walking, Node
<1>2. PICK node : node = NextNode
  OBVIOUS
<1>3. /\ node \in Node /\ Len(node) = r.depth + 1
      /\ \A k \in 0..(r.depth + 1) : SubSeq(node, 1, k) = SubSeq(t, 1, k)
  <2>1. r.depth + 1 \in 0..Len(t)
    BY <1>1
  <2> QED
    BY <1>1, <1>2, <2>1, NodesAbove DEF NextNode
<1>4. /\ DOMAIN trie' = DOMAIN trie \cup {node}
      /\ \A n \in DOMAIN trie : trie'[n] = trie[n]
      /\ node \notin DOMAIN trie => trie'[node] = NoResource
  BY <1>2 DEF Walk, Has
<1>5. \A k \in 0..(r.depth + 1) : SubSeq(node, 1, k) \in DOMAIN trie'
  <2> SUFFICES ASSUME NEW k \in 0..(r.depth + 1) PROVE SubSeq(node, 1, k) \in DOMAIN trie'
    OBVIOUS
  <2>1. CASE k = r.depth + 1
    <3>1. SubSeq(node, 1, k) = node
      BY <1>2, <1>3, <2>1 DEF NextNode
    <3> QED
      BY <1>4, <3>1
  <2>2. CASE k # r.depth + 1
    <3>1. r.depth \in 0..Len(t) /\ k \in 0..r.depth
      BY <1>1, <2>2
    <3>2. Len(Parent) = r.depth /\ SubSeq(Parent, 1, k) = SubSeq(t, 1, k)
      BY <1>1, <3>1, NodesAbove DEF Parent
    <3>3. SubSeq(Parent, 1, k) \in DOMAIN trie
      BY <1>1, <3>1, <3>2 DEF RegistryInv, TrieInv
    <3> QED
      BY <1>3, <1>4, <3>2, <3>3
  <2> QED
    BY <2>1, <2>2
<1>6. TrieInv'
  <2>1. Head_ \in DOMAIN trie'
    BY <1>4 DEF RegistryInv, TrieInv
  <2> SUFFICES ASSUME NEW n \in DOMAIN trie'
               PROVE  /\ n \in Node
                      /\ \A k \in 0..Len(n) : SubSeq(n, 1, k) \in DOMAIN trie'
                      /\ trie'[n] # NoResource => trie'[n] = n /\ n \in Templates
    BY <2>1 DEF TrieInv
  <2>2. CASE n \in DOMAIN trie
    BY <1>4, <2>2 DEF RegistryInv, TrieInv
  <2>3. CASE n \notin DOMAIN trie
    <3>1. n = node
      BY <1>4, <2>3
    <3> QED
      BY <1>3, <1>4, <1>5, <2>3, <3>1
  <2> QED
    BY <2>2, <2>3
<1>7. registrar' = [r EXCEPT !.depth = @ + 1] /\ UNCHANGED <<bound, resources>>
  BY DEF Walk
<1>8. r'.phase = "walking" /\ r'.template = t /\ r'.depth = r.depth + 1
  BY <1>1, <1>7 DEF RegistryInv, RegistrarInv
<1>9. RegistrarInv'
  <2>1. registrar' \in [phase : {"idle", "walking", "binding"}, template : Node, depth : Nat]
    BY <1>1, <1>7 DEF RegistryInv, RegistrarInv
  <2>2. Parent' \in DOMAIN trie'
    BY <1>2, <1>4, <1>8 DEF Parent, NextNode
  <2>3. r'.depth <= Len(r'.template)
    BY <1>1, <1>8
  <2> QED
    BY <1>1, <1>8, <2>1, <2>2, <2>3 DEF RegistrarInv, Binding
<1>10. ListedInv'
  <2>1. Entered' = Entered
    BY <1>4 DEF Entered
  <2>2. ~Binding /\ ~Binding'
    BY <1>1, <1>8 DEF Binding
  <2> QED
    BY <1>7, <2>1, <2>2 DEF RegistryInv, ListedInv, RegisteredOnce
<1> QED
  BY <1>6, <1>9, <1>10 DEF RegistryInv

\* The resource is entered at its node.
LEMMA SetResourceRegistry ==
  ASSUME RegistryInv, SetResource
  PROVE  RegistryInv'
<1> DEFINE r == registrar
           t == registrar.template
<1>1. /\ r.phase = "walking" /\ r.depth = Len(t) /\ t \in Node /\ t \in Templates
      /\ Parent \in DOMAIN trie
  BY DEF RegistryInv, RegistrarInv, SetResource, AtTerminal
<1>2. t = Parent
  BY <1>1, SubSeqFull DEF Parent, Node
<1>3. t \in DOMAIN trie /\ trie[t] = NoResource
  BY <1>1, <1>2 DEF SetResource, Collides
<1>4. /\ DOMAIN trie' = DOMAIN trie /\ trie'[t] = t
      /\ \A n \in DOMAIN trie : n # t => trie'[n] = trie[n]
  BY <1>3 DEF SetResource
<1>5. t # NoResource
  BY <1>1, Nodes
<1>6. TrieInv'
  BY <1>1, <1>4 DEF RegistryInv, TrieInv
<1>7. registrar' = [r EXCEPT !.phase = "binding"] /\ UNCHANGED <<bound, resources>>
  BY DEF SetResource
<1>8. r'.phase = "binding" /\ r'.template = t /\ r'.depth = r.depth
  BY <1>1, <1>7 DEF RegistryInv, RegistrarInv
<1>9. RegistrarInv'
  <2>1. registrar' \in [phase : {"idle", "walking", "binding"}, template : Node, depth : Nat]
    BY <1>7 DEF RegistryInv, RegistrarInv
  <2>2. Parent' \in DOMAIN trie'
    BY <1>1, <1>4, <1>8 DEF Parent
  <2>3. r'.depth <= Len(r'.template) /\ r'.depth = Len(r'.template)
    BY <1>1, <1>8 DEF Node
  <2> QED
    BY <1>1, <1>8, <2>1, <2>2, <2>3 DEF RegistrarInv, Binding
<1>10. ListedInv'
  <2>1. Entered' = Entered \cup {t} /\ t \notin Entered
    BY <1>3, <1>4, <1>5 DEF Entered
  <2>2. ~Binding /\ Binding'
    BY <1>1, <1>8 DEF Binding
  <2>3. Entered = bound /\ bound = ToSet(resources) /\ IsInjective(resources)
        /\ resources \in Seq(Templates)
    BY <2>2 DEF RegistryInv, ListedInv, RegisteredOnce
  <2>4. /\ Entered' = bound' \cup {node \in {registrar'.template} : Binding'}
        /\ registrar'.template \notin bound'
    BY <1>7, <1>8, <2>1, <2>2, <2>3
  <2> QED
    BY <1>7, <2>3, <2>4 DEF ListedInv, RegisteredOnce
<1> QED
  BY <1>6, <1>9, <1>10 DEF RegistryInv

\* The methods are bound, and the resource is listed.
LEMMA SetMethodsRegistry ==
  ASSUME RegistryInv, SetMethods
  PROVE  RegistryInv'
<1> DEFINE t == registrar.template
<1>1. Binding /\ t \in Templates /\ resources \in Seq(Templates)
  BY DEF SetMethods, Binding, RegistryInv, RegistrarInv, ListedInv
<1>2. /\ bound' = bound \cup {t} /\ resources' = Append(resources, t) /\ registrar' = Idle
      /\ UNCHANGED trie
  BY DEF SetMethods
<1>3. TrieInv'
  BY <1>2 DEF RegistryInv, TrieInv
<1>4. RegistrarInv'
  BY <1>2, Nodes DEF RegistrarInv, Idle, Binding, Head_
<1>5. ListedInv'
  <2>1. /\ IsInjective(resources) /\ bound = ToSet(resources) /\ t \notin bound
        /\ Entered = bound \cup {t}
    BY <1>1 DEF RegistryInv, ListedInv, RegisteredOnce
  <2>2. PICK s : s = Append(resources, t)
    OBVIOUS
  <2>3. /\ s \in Seq(Templates) /\ Len(resources) \in Nat /\ DOMAIN resources = 1..Len(resources)
        /\ DOMAIN s = 1..(Len(resources) + 1)
        /\ s[Len(resources) + 1] = t /\ \A i \in 1..Len(resources) : s[i] = resources[i]
    BY <1>1, <2>2
  <2>4. \A i \in 1..Len(resources) : resources[i] # t
    BY <2>1, <2>3 DEF ToSet
  <2>5. IsInjective(s)
    BY <2>1, <2>3, <2>4 DEF IsInjective
  <2>6. ToSet(s) = bound \cup {t}
    BY <2>1, <2>3 DEF ToSet
  <2>7. Entered' = Entered /\ ~Binding'
    BY <1>2 DEF Entered, Binding, Idle
  <2> QED
    BY <1>2, <2>1, <2>2, <2>3, <2>5, <2>6, <2>7 DEF ListedInv, RegisteredOnce
<1> QED
  BY <1>3, <1>4, <1>5 DEF RegistryInv

\* One step per action; match and clear change nothing of this.
LEMMA StepRegistry == RegistryInv /\ [Next]_vars => RegistryInv'
<1> SUFFICES ASSUME RegistryInv, [Next]_vars PROVE RegistryInv'
  OBVIOUS
<1>1. ASSUME UNCHANGED <<nodes, registrar>>
      PROVE  RegistryInv'
  <2>1. TrieInv'
    BY <1>1 DEF nodes, RegistryInv, TrieInv
  <2>2. RegistrarInv'
    BY <1>1 DEF nodes, RegistryInv, RegistrarInv, Parent, Binding
  <2>3. ListedInv'
    BY <1>1 DEF nodes, RegistryInv, ListedInv, RegisteredOnce, Entered, Binding
  <2> QED
    BY <2>1, <2>2, <2>3 DEF RegistryInv
<1>2. ASSUME NEW template \in Templates, AddResource(template)
      PROVE  RegistryInv'
  <2>1. /\ registrar' = [phase |-> "walking", template |-> template, depth |-> 0]
        /\ UNCHANGED nodes /\ registrar = Idle
    BY <1>2 DEF AddResource
  <2>2. template \in Node /\ Len(template) \in Nat
    BY Nodes DEF Node
  <2>3. Parent' = Head_
    BY <2>1, <2>2, SubSeqEmpty DEF Parent, Head_
  <2>4. TrieInv'
    BY <2>1 DEF nodes, RegistryInv, TrieInv
  <2>5. RegistrarInv'
    BY <2>1, <2>2, <2>3, <2>4 DEF RegistrarInv, TrieInv, Binding
  <2>6. ~Binding /\ ~Binding' /\ Entered' = Entered
    BY <2>1 DEF Binding, Idle, nodes, Entered
  <2>7. ListedInv'
    BY <2>1, <2>6 DEF nodes, RegistryInv, ListedInv, RegisteredOnce
  <2> QED
    BY <2>4, <2>5, <2>7 DEF RegistryInv
<1>3. ASSUME Collision
      PROVE  RegistryInv'
  <2>1. registrar' = Idle /\ UNCHANGED nodes /\ ~Binding
    BY <1>3 DEF Collision, AtTerminal, Binding
  <2>2. TrieInv'
    BY <2>1 DEF nodes, RegistryInv, TrieInv
  <2>3. RegistrarInv'
    BY <2>1, Nodes DEF RegistrarInv, Idle, Binding, Head_
  <2>4. ~Binding' /\ Entered' = Entered
    BY <2>1 DEF Binding, Idle, nodes, Entered
  <2>5. ListedInv'
    BY <2>1, <2>4 DEF nodes, RegistryInv, ListedInv, RegisteredOnce
  <2> QED
    BY <2>2, <2>3, <2>5 DEF RegistryInv
<1>4. ASSUME NEW path \in Paths, Match(path)
      PROVE  RegistryInv'
  BY <1>1, <1>4 DEF Match
<1>5. ASSUME MatchComponent \/ Matches \/ NoMatch \/ MatchRaces \/ Return
      PROVE  RegistryInv'
  BY <1>1, <1>5 DEF MatchComponent, Matches, NoMatch, MatchRaces, Return
<1>6. ASSUME Clear \/ ClearVisit \/ ClearDelete
      PROVE  RegistryInv'
  BY <1>1, <1>6 DEF Clear, ClearVisit, ClearDelete
<1>7. CASE UNCHANGED vars
  BY <1>1, <1>7 DEF vars
<1> QED
  BY <1>2, <1>3, <1>4, <1>5, <1>6, <1>7, WalkRegistry, SetResourceRegistry, SetMethodsRegistry
     DEF Next, Adding, Looking

\* What addResource leaves, and what it is about, in the trie and the list.
THEOREM RegistryInvariant == Spec => []RegistryInv
<1>1. Init => RegistryInv
  <2> SUFFICES ASSUME Init PROVE RegistryInv
    OBVIOUS
  <2>1. DOMAIN trie = {Head_} /\ trie[Head_] = NoResource
    BY DEF Init
  <2>2. Len(Head_) = 0 /\ \A k \in 0..0 : SubSeq(Head_, 1, k) = Head_
    BY DEF Head_
  <2>3. TrieInv
    BY <2>1, <2>2, Nodes DEF TrieInv
  <2>4. RegistrarInv
    BY Nodes DEF Init, RegistrarInv, Idle, Binding, Head_
  <2>5. resources = <<>> /\ bound = {} /\ ~Binding
    BY DEF Init, Binding, Idle
  <2>6. Entered = {}
    BY <2>1 DEF Entered
  <2>7. ListedInv
    BY <2>5, <2>6 DEF ListedInv, RegisteredOnce, IsInjective, ToSet
  <2> QED
    BY <2>3, <2>4, <2>7 DEF RegistryInv
<1>2. RegistryInv /\ [Next]_vars => RegistryInv'
  BY StepRegistry
<1> QED
  BY <1>1, <1>2, PTL DEF Spec

\* No two resources share a terminal node, and what resources_ lists is what the
\* trie holds, each once, but for the resource that is being added.
THEOREM EnteredOnce == Spec => []RegisteredOnce
<1>1. RegistryInv => RegisteredOnce
  BY DEF RegistryInv, ListedInv
<1> QED
  BY <1>1, RegistryInvariant, PTL

-----------------------------------------------------------------------------
(***************************************************************************)
(* What stays true of a search while resources are added.                  *)
(***************************************************************************)
Grown ==
  /\ bound \subseteq bound'
  /\ \A node \in DOMAIN trie : /\ node \in DOMAIN trie'
                               /\ trie[node] # NoResource => trie'[node] = trie[node]

LEMMA OnlyGrows == RegistryInv /\ [Next]_vars => Grown
<1> SUFFICES ASSUME RegistryInv, [Next]_vars PROVE Grown
  OBVIOUS
<1>1. ASSUME UNCHANGED <<trie, bound>>
      PROVE  Grown
  BY <1>1 DEF Grown
<1>2. CASE Walk
  BY <1>2 DEF Walk, Has, Grown
<1>3. CASE SetResource
  <2>1. trie' = [trie EXCEPT ![registrar.template] = registrar.template] /\ UNCHANGED bound
        /\ trie[registrar.template] = NoResource
    BY <1>3 DEF SetResource, Collides
  <2> QED
    BY <2>1 DEF Grown
<1>4. CASE SetMethods
  BY <1>4 DEF SetMethods, Grown
<1>5. CASE Collision \/ \E template \in Templates : AddResource(template)
  BY <1>1, <1>5 DEF Collision, AddResource, nodes
<1>6. CASE Return \/ Looking \/ \E path \in Paths : Match(path)
  BY <1>1, <1>6 DEF Return, Looking, MatchComponent, Matches, NoMatch, MatchRaces, Match, nodes
<1>7. CASE Clear \/ ClearVisit \/ ClearDelete
  BY <1>1, <1>7 DEF Clear, ClearVisit, ClearDelete, nodes
<1>8. CASE UNCHANGED vars
  BY <1>1, <1>8 DEF vars, nodes
<1> QED
  BY <1>2, <1>3, <1>4, <1>5, <1>6, <1>7, <1>8 DEF Next, Adding

\* A sound state stays one.
LEMMA StaysSound ==
  ASSUME Grown, NoResource \notin Templates, NEW state, NEW path, NEW n, Sound(state, path, n),
         TrieInv
  PROVE  Sound(state, path, n)'
<1>1. ~state.terminated => state.cur \in DOMAIN trie'
  BY DEF Grown, Sound
<1>2. ~state.terminated /\ state.matched # NoResource => trie'[state.cur] = state.cur
  <2> SUFFICES ASSUME ~state.terminated, state.matched # NoResource
               PROVE  trie'[state.cur] = state.cur
    OBVIOUS
  <2>1. state.cur \in DOMAIN trie /\ trie[state.cur] = state.cur /\ state.matched = state.cur
    BY DEF Sound
  <2> QED
    BY <2>1 DEF Grown
<1> QED
  BY <1>1, <1>2 DEF Sound

LEMMA StaysExploring ==
  ASSUME Grown, TrieInv, NEW call, ExploringInv(call)
  PROVE  ExploringInv(call)'
<1>1. ASSUME NEW state, NEW n, Sound(state, call.path, n)
      PROVE  Sound(state, call.path, n)'
  BY <1>1, Nodes, StaysSound
<1>2. ASSUME NEW i \in DOMAIN call.states
      PROVE  Sound(call.states[i], call.path, Met(call, i))'
  <2>1. Sound(call.states[i], call.path, Met(call, i))
    BY DEF ExploringInv
  <2> QED
    BY <1>1, <2>1 DEF Met
<1>3. ASSUME NEW i \in DOMAIN call.add
      PROVE  Sound(call.add[i], call.path, call.depth + 1)'
  <2>1. Sound(call.add[i], call.path, call.depth + 1)
    BY DEF ExploringInv
  <2> QED
    BY <1>1, <2>1
<1> QED
  BY <1>2, <1>3 DEF ExploringInv, Met, Follows

-----------------------------------------------------------------------------
(***************************************************************************)
(* A search state meets a component.                                       *)
(***************************************************************************)

\* A variable stands for the component it meets, and a literal for none.
LEMMA VariableStands ==
  ASSUME NEW path \in Seq(Component), NEW n \in 0..(Len(path) - 1),
         NEW node \in Node, Len(node) = n, NEW parameters \in Seq(Component),
         StandForTo(parameters, node, path, n)
  PROVE  StandForTo(Append(parameters, path[n + 1]), Append(node, Variable), path, n + 1)
<1>1. PICK place \in [DOMAIN parameters -> 1..n] :
        /\ {place[k] : k \in DOMAIN parameters} = {i \in 1..n : node[i] = Variable}
        /\ \A j, k \in DOMAIN parameters : j < k => place[j] < place[k]
        /\ \A k \in DOMAIN parameters : parameters[k] = path[place[k]]
  BY DEF StandForTo
<1>2. PICK m : m = Len(parameters)
  OBVIOUS
<1>3. m \in Nat /\ n \in Nat /\ DOMAIN parameters = 1..m
  BY <1>2
<1>4. PICK more : more = Append(parameters, path[n + 1])
  OBVIOUS
<1>5. path[n + 1] \in Component
  OBVIOUS
<1>6. /\ DOMAIN more = 1..(m + 1) /\ more[m + 1] = path[n + 1]
      /\ \A k \in 1..m : more[k] = parameters[k]
  BY <1>2, <1>3, <1>4, <1>5
<1>7. PICK child : child = Append(node, Variable)
  OBVIOUS
<1>8. child[n + 1] = Variable /\ \A i \in 1..n : child[i] = node[i]
  BY <1>7 DEF Node
<1>9. PICK at : at = [k \in 1..(m + 1) |-> IF k <= m THEN place[k] ELSE n + 1]
  OBVIOUS
<1>10. at[m + 1] = n + 1 /\ \A k \in 1..m : at[k] = place[k] /\ place[k] \in 1..n
  <2>1. \A k \in 1..m : place[k] \in 1..n
    BY <1>1, <1>3
  <2>2. m + 1 \in 1..(m + 1) /\ ~(m + 1 <= m)
    BY <1>3
  <2>3. \A k \in 1..m : k \in 1..(m + 1) /\ k <= m
    BY <1>3
  <2> QED
    BY <1>9, <2>1, <2>2, <2>3
<1>11. at \in [DOMAIN more -> 1..(n + 1)]
  BY <1>1, <1>3, <1>6, <1>9
<1>12. {at[k] : k \in DOMAIN more} = {i \in 1..(n + 1) : child[i] = Variable}
  <2>1. ASSUME NEW k \in 1..(m + 1)
        PROVE  at[k] \in 1..(n + 1) /\ child[at[k]] = Variable
    <3>1. CASE k = m + 1
      BY <1>3, <1>8, <1>10, <3>1
    <3>2. CASE k # m + 1
      <4>1. k \in 1..m
        BY <1>3, <3>2
      <4>2. place[k] \in {i \in 1..n : node[i] = Variable}
        BY <1>1, <1>3, <4>1
      <4> QED
        BY <1>3, <1>8, <1>10, <4>1, <4>2
    <3> QED
      BY <3>1, <3>2
  <2>2. ASSUME NEW i \in 1..(n + 1), child[i] = Variable
        PROVE  \E k \in 1..(m + 1) : at[k] = i
    <3>1. CASE i = n + 1
      BY <1>3, <1>10, <3>1
    <3>2. CASE i # n + 1
      <4>1. i \in 1..n /\ node[i] = Variable
        BY <1>3, <1>8, <2>2, <3>2
      <4>2. PICK k \in 1..m : place[k] = i
        BY <1>1, <1>3, <4>1
      <4> QED
        BY <1>3, <1>10, <4>2
    <3> QED
      BY <3>1, <3>2
  <2>3. {at[k] : k \in 1..(m + 1)} = {i \in 1..(n + 1) : child[i] = Variable}
    <3>1. ASSUME NEW i \in {at[k] : k \in 1..(m + 1)}
          PROVE  i \in {j \in 1..(n + 1) : child[j] = Variable}
      <4>1. PICK k \in 1..(m + 1) : at[k] = i
        OBVIOUS
      <4> QED
        BY <2>1, <4>1
    <3>2. ASSUME NEW i \in 1..(n + 1), child[i] = Variable
          PROVE  i \in {at[k] : k \in 1..(m + 1)}
      BY <2>2, <3>2
    <3> QED
      BY ONLY <3>1, <3>2
  <2> QED
    BY <1>6, <2>3
<1>13. \A j, k \in DOMAIN more : j < k => at[j] < at[k]
  <2> SUFFICES ASSUME NEW j \in 1..(m + 1), NEW k \in 1..(m + 1), j < k
               PROVE  at[j] < at[k]
    BY <1>6
  <2>1. j \in 1..m
    BY <1>3
  <2>2. CASE k = m + 1
    BY <1>3, <1>10, <2>1, <2>2
  <2>3. CASE k # m + 1
    <3>1. k \in 1..m
      BY <1>3, <2>3
    <3> QED
      BY <1>1, <1>3, <1>10, <2>1, <3>1
  <2> QED
    BY <2>2, <2>3
<1>14. \A k \in DOMAIN more : more[k] = path[at[k]]
  <2> SUFFICES ASSUME NEW k \in 1..(m + 1)
               PROVE  more[k] = path[at[k]]
    BY <1>6
  <2>1. CASE k = m + 1
    BY <1>6, <1>10, <2>1
  <2>2. CASE k # m + 1
    <3>1. k \in 1..m
      BY <1>3, <2>2
    <3> QED
      BY <1>1, <1>3, <1>6, <1>10, <3>1
  <2> QED
    BY <2>1, <2>2
<1>15. StandForTo(more, child, path, n + 1)
  BY <1>11, <1>12, <1>13, <1>14 DEF StandForTo
<1> QED
  BY <1>4, <1>7, <1>15

LEMMA LiteralStands ==
  ASSUME NEW path \in Seq(Component), NEW n \in 0..(Len(path) - 1),
         NEW node \in Node, Len(node) = n, NEW parameters,
         StandForTo(parameters, node, path, n), NEW literal \in Component
  PROVE  StandForTo(parameters, Append(node, literal), path, n + 1)
<1>1. PICK place \in [DOMAIN parameters -> 1..n] :
        /\ {place[k] : k \in DOMAIN parameters} = {i \in 1..n : node[i] = Variable}
        /\ \A j, k \in DOMAIN parameters : j < k => place[j] < place[k]
        /\ \A k \in DOMAIN parameters : parameters[k] = path[place[k]]
  BY DEF StandForTo
<1>2. PICK child : child = Append(node, literal)
  OBVIOUS
<1>3. child[n + 1] # Variable /\ \A i \in 1..n : child[i] = node[i]
  BY <1>2, MatcherAssumption DEF Node
<1>4. n \in Nat /\ place \in [DOMAIN parameters -> 1..(n + 1)]
  BY <1>1
<1>5. {i \in 1..(n + 1) : child[i] = Variable} = {i \in 1..n : node[i] = Variable}
  BY <1>3, <1>4
<1>6. StandForTo(parameters, child, path, n + 1)
  BY <1>1, <1>4, <1>5 DEF StandForTo
<1> QED
  BY <1>2, <1>6

LEMMA ChildNode ==
  ASSUME NEW node \in Node, NEW component \in Component \cup {Variable}
  PROVE  LET child == Append(node, component)
         IN  /\ child \in Node /\ Len(child) = Len(node) + 1 /\ Len(node) \in Nat
             /\ child[Len(node) + 1] = component /\ \A i \in 1..Len(node) : child[i] = node[i]
BY DEF Node

\* A state that follows its literal child, or ends, has met one component more.
LEMMA LiteralSound ==
  ASSUME TrieInv, NEW path \in Seq(Component), NEW n \in 0..(Len(path) - 1),
         NEW state, Sound(state, path, n), ~state.terminated
  PROVE  Sound(ThroughLiteral(state, path[n + 1]), path, n + 1)
<1> DEFINE c == path[n + 1]
           child == Append(state.cur, c)
           new == ThroughLiteral(state, c)
<1>1. c \in Component /\ c \in Seq(Nat) /\ n \in Nat
  BY MatcherAssumption
<1>2. /\ state \in State /\ state.cur \in DOMAIN trie /\ FitsTo(state.cur, path, n)
      /\ StandForTo(state.variables, state.cur, path, n)
  BY DEF Sound
<1>3. /\ state.cur \in Node /\ Len(state.cur) = n /\ state.variables \in Seq(Component)
      /\ state.literals \in Seq(Nat)
  BY <1>2 DEF State, FitsTo
<1>4. /\ child \in Node /\ Len(child) = n + 1 /\ child[n + 1] = c
      /\ \A i \in 1..n : child[i] = state.cur[i]
  <2>1. c \in Component \cup {Variable}
    BY <1>1
  <2> HIDE DEF c
  <2> QED
    BY <1>3, <2>1, ChildNode
<1>5. CASE ~Has(child)
  <2>1. new = [state EXCEPT !.matched = NoResource, !.terminated = TRUE]
    BY <1>5 DEF ThroughLiteral
  <2>2. new \in State /\ new.terminated /\ new.matched = NoResource
    BY <1>2, <2>1 DEF State, Resource
  <2> QED
    BY <2>2 DEF Sound
<1>6. CASE Has(child)
  <2>1. child \in DOMAIN trie
    BY <1>6 DEF Has
  <2>2. PICK m : m = trie[child]
    OBVIOUS
  <2>3. m \in Resource /\ (m # NoResource => m = child)
    BY <2>1, <2>2 DEF TrieInv, Resource
  <2>4. state.literals \o c \in Seq(Nat)
    BY <1>1, <1>3
  <2>5. new = [state EXCEPT !.cur = child, !.matched = m, !.literals = state.literals \o c]
    BY <1>6, <2>2 DEF ThroughLiteral
  <2>6. new \in State
    BY <1>2, <1>4, <2>3, <2>4, <2>5 DEF State
  <2>7. /\ new.cur = child /\ new.matched = m /\ ~new.terminated
        /\ new.variables = state.variables
    BY <1>2, <2>5 DEF State
  <2>8. FitsTo(child, path, n + 1)
    BY <1>1, <1>2, <1>4 DEF FitsTo
  <2>9. StandForTo(state.variables, child, path, n + 1)
    BY <1>1, <1>2, <1>3, LiteralStands
  <2>10. Sound(new, path, n + 1)
    <3> HIDE DEF new, child
    <3> QED
      BY <2>1, <2>2, <2>3, <2>6, <2>7, <2>8, <2>9 DEF Sound
  <2> QED
    BY <2>10
<1> QED
  BY <1>5, <1>6

\* The state that a variable child adds has met as much.
LEMMA VariableSound ==
  ASSUME TrieInv, NEW path \in Seq(Component), NEW n \in 0..(Len(path) - 1),
         NEW state, Sound(state, path, n), ~state.terminated, Has(Append(state.cur, Variable))
  PROVE  Sound(ThroughVariable(state, path[n + 1]), path, n + 1)
<1> DEFINE c == path[n + 1]
           child == Append(state.cur, Variable)
           new == ThroughVariable(state, c)
<1>1. c \in Component /\ n \in Nat /\ Dot \in Nat
  BY DEF Dot
<1>2. /\ state \in State /\ state.cur \in DOMAIN trie /\ FitsTo(state.cur, path, n)
      /\ StandForTo(state.variables, state.cur, path, n)
  BY DEF Sound
<1>3. /\ state.cur \in Node /\ Len(state.cur) = n /\ state.variables \in Seq(Component)
      /\ state.literals \in Seq(Nat)
  BY <1>2 DEF State, FitsTo
<1>4. /\ child \in Node /\ Len(child) = n + 1 /\ child[n + 1] = Variable
      /\ \A i \in 1..n : child[i] = state.cur[i]
  <2>1. Variable \in Component \cup {Variable}
    OBVIOUS
  <2> QED
    BY <1>3, <2>1, ChildNode
<1>5. child \in DOMAIN trie
  BY DEF Has
<1>6. PICK m : m = trie[child]
  OBVIOUS
<1>7. m \in Resource /\ (m # NoResource => m = child)
  BY <1>5, <1>6 DEF TrieInv, Resource
<1>8. Append(state.variables, c) \in Seq(Component) /\ Append(state.literals, Dot) \in Seq(Nat)
  BY <1>1, <1>3
<1>9. new = [cur |-> child, variables |-> Append(state.variables, c), matched |-> m,
             terminated |-> FALSE, literals |-> Append(state.literals, Dot)]
  BY <1>6 DEF ThroughVariable
<1>10. new \in State
  BY <1>4, <1>7, <1>8, <1>9 DEF State
<1>11. /\ new.cur = child /\ new.matched = m /\ ~new.terminated
       /\ new.variables = Append(state.variables, c)
  BY <1>9
<1>12. FitsTo(child, path, n + 1)
  BY <1>1, <1>2, <1>4 DEF FitsTo
<1>13. StandForTo(Append(state.variables, c), child, path, n + 1)
  BY <1>1, <1>2, <1>3, VariableStands
<1>14. Sound(new, path, n + 1)
  <2> HIDE DEF new, child
  <2> QED
    BY <1>5, <1>6, <1>7, <1>10, <1>11, <1>12, <1>13 DEF Sound
<1> QED
  BY <1>14

\* A state on the way to a resource that is entered stays on it, or the state that
\* a variable child adds goes on.
LEMMA FollowsOn ==
  ASSUME TrieInv, NEW path \in Seq(Component), NEW n \in 0..(Len(path) - 1),
         NEW t \in DOMAIN trie, trie[t] = t, Fits(t, path),
         NEW state \in State, Follows(state, t, n)
  PROVE  /\ t[n + 1] = Variable => /\ Has(Append(state.cur, Variable))
                                   /\ Follows(ThroughVariable(state, path[n + 1]), t, n + 1)
         /\ t[n + 1] # Variable => Follows(ThroughLiteral(state, path[n + 1]), t, n + 1)
<1>1. /\ t \in Node /\ Len(t) = Len(path) /\ Len(t) \in Nat /\ n \in Nat /\ n + 1 \in 1..Len(t)
      /\ t \in Seq(Component \cup {Variable})
  BY DEF TrieInv, Fits, Node
<1>2. ~state.terminated /\ state.cur = SubSeq(t, 1, n)
  BY DEF Follows
<1>3. PICK child : child = SubSeq(t, 1, n + 1)
  OBVIOUS
<1>4. child = Append(state.cur, t[n + 1])
  BY <1>1, <1>2, <1>3
<1>5. child \in DOMAIN trie
  BY <1>1, <1>3 DEF TrieInv
<1>6. n + 1 = Len(t) => child = t /\ trie[child] = t
  BY <1>1, <1>3, SubSeqFull
<1>7. CASE t[n + 1] = Variable
  <2>1. child = Append(state.cur, Variable)
    BY <1>4, <1>7
  <2>2. PICK new : new = ThroughVariable(state, path[n + 1])
    OBVIOUS
  <2>3. ~new.terminated /\ new.cur = child /\ new.matched = trie[child]
    BY <2>1, <2>2 DEF ThroughVariable
  <2>4. Follows(new, t, n + 1)
    BY <1>3, <1>6, <2>3 DEF Follows
  <2> QED
    BY <1>5, <1>7, <2>1, <2>2, <2>4 DEF Has
<1>8. CASE t[n + 1] # Variable
  <2>1. t[n + 1] = path[n + 1]
    BY <1>1, <1>8 DEF Fits
  <2>2. PICK new : new = ThroughLiteral(state, path[n + 1])
    OBVIOUS
  <2>3. PICK literals : literals = state.literals \o path[n + 1]
    OBVIOUS
  <2>4. new = [state EXCEPT !.cur = child, !.matched = trie[child], !.literals = literals]
    BY <1>4, <1>5, <2>1, <2>2, <2>3 DEF ThroughLiteral, Has
  <2>5. ~new.terminated /\ new.cur = child /\ new.matched = trie[child]
    BY <1>2, <2>4 DEF State
  <2>6. Follows(new, t, n + 1)
    BY <1>3, <1>6, <2>5 DEF Follows
  <2> QED
    BY <1>8, <2>2, <2>6
<1> QED
  BY <1>7, <1>8

-----------------------------------------------------------------------------
(***************************************************************************)
(* A round of match.                                                       *)
(***************************************************************************)

\* The resources that were known when match was called are where they were.
AreEntered(known) == \A t \in known : t \in DOMAIN trie /\ trie[t] = t

\* What becomes of the state whose turn it is, in its place and at the end.
LEMMA TurnTaken ==
  ASSUME TrieInv, NEW path \in Seq(Component), NEW n \in 0..(Len(path) - 1),
         NEW state \in State, Sound(state, path, n), NEW v, NEW x,
         v = IF state.terminated THEN state ELSE ThroughLiteral(state, path[n + 1]),
         x = IF ~state.terminated /\ Has(Append(state.cur, Variable))
             THEN <<ThroughVariable(state, path[n + 1])>> ELSE <<>>
  PROVE  /\ v \in State /\ Sound(v, path, n + 1)
         /\ x \in Seq(State)
         /\ \A i \in DOMAIN x : Sound(x[i], path, n + 1)
         /\ \A t \in DOMAIN trie :
              trie[t] = t /\ Fits(t, path) /\ Follows(state, t, n) =>
                \/ Follows(v, t, n + 1)
                \/ \E i \in DOMAIN x : Follows(x[i], t, n + 1)
<1>1. Sound(v, path, n + 1)
  <2>1. CASE state.terminated
    BY <2>1 DEF Sound
  <2>2. CASE ~state.terminated
    BY <2>2, LiteralSound
  <2> QED
    BY <2>1, <2>2
<1>2. /\ x \in Seq(State)
      /\ \A i \in DOMAIN x : Sound(x[i], path, n + 1)
  <2>1. CASE ~state.terminated /\ Has(Append(state.cur, Variable))
    <3>1. PICK new : new = ThroughVariable(state, path[n + 1])
      OBVIOUS
    <3>2. x = <<new>> /\ Sound(new, path, n + 1)
      <4>1. Sound(ThroughVariable(state, path[n + 1]), path, n + 1)
        BY <2>1, VariableSound
      <4> QED
        BY <2>1, <3>1, <4>1
    <3>3. new \in State
      BY <3>2 DEF Sound
    <3>4. <<new>> \in Seq(State) /\ DOMAIN <<new>> = {1} /\ <<new>>[1] = new
      BY ONLY <3>3
    <3> QED
      BY <3>2, <3>4
  <2>2. CASE ~(~state.terminated /\ Has(Append(state.cur, Variable)))
    <3>1. x = <<>>
      BY <2>2
    <3> QED
      BY <3>1
  <2> QED
    BY <2>1, <2>2
<1>3. ASSUME NEW t \in DOMAIN trie, trie[t] = t, Fits(t, path), Follows(state, t, n)
      PROVE  \/ Follows(v, t, n + 1)
             \/ \E i \in DOMAIN x : Follows(x[i], t, n + 1)
  <2>1. ~state.terminated
    BY <1>3 DEF Follows
  <2>2. CASE t[n + 1] = Variable
    <3>1. Has(Append(state.cur, Variable)) /\ Follows(ThroughVariable(state, path[n + 1]), t, n + 1)
      BY <1>3, <2>2, FollowsOn
    <3>2. x = <<ThroughVariable(state, path[n + 1])>>
      BY <2>1, <3>1
    <3>3. 1 \in DOMAIN x /\ x[1] = ThroughVariable(state, path[n + 1])
      BY <3>2
    <3> QED
      BY <3>1, <3>3
  <2>3. CASE t[n + 1] # Variable
    BY <1>3, <2>1, <2>3, FollowsOn
  <2> QED
    BY <2>2, <2>3
<1> QED
  BY <1>1, <1>2, <1>3 DEF Sound

\* A turn is taken; the last one of a round ends it.
LEMMA AdvanceExploring ==
  ASSUME TrieInv, NEW call \in Call, call.depth < Len(call.path),
         ExploringInv(call), AreEntered(call.known)
  PROVE  Advance(call) \in Call /\ ExploringInv(Advance(call)) /\
         Advance(call).depth <= Len(call.path) /\ Advance(call).phase = call.phase /\
         Advance(call).known = call.known /\ Advance(call).path = call.path
<1>1. PICK path, n, i0, states, add :
        /\ path = call.path /\ n = call.depth /\ i0 = call.next
        /\ states = call.states /\ add = call.add
  OBVIOUS
<1>2. /\ path \in Seq(Component) /\ n \in Nat /\ i0 \in Nat
      /\ states \in Seq(State) /\ add \in Seq(State)
  BY <1>1 DEF Call
<1>3. PICK size : size = Len(states)
  OBVIOUS
<1>4. size \in Nat /\ DOMAIN states = 1..size /\ i0 \in 1..size /\ Len(path) \in Nat
  BY <1>1, <1>2, <1>3 DEF ExploringInv
<1>5. n \in 0..(Len(path) - 1) /\ n + 1 \in Nat
  BY <1>1, <1>2, <1>4
<1>6. PICK state : state = states[i0]
  OBVIOUS
<1>7. \A i \in 1..size : Sound(states[i], path, IF i < i0 THEN n + 1 ELSE n)
  BY <1>1, <1>4 DEF ExploringInv, Met
<1>8. state \in State /\ Sound(state, path, n)
  BY <1>2, <1>4, <1>6, <1>7
<1>9. PICK v, x :
        /\ v = IF state.terminated THEN state ELSE ThroughLiteral(state, path[n + 1])
        /\ x = IF ~state.terminated /\ Has(Append(state.cur, Variable))
               THEN <<ThroughVariable(state, path[n + 1])>> ELSE <<>>
  OBVIOUS
<1>10. /\ v \in State /\ Sound(v, path, n + 1)
       /\ x \in Seq(State)
       /\ \A i \in DOMAIN x : Sound(x[i], path, n + 1)
       /\ \A t \in DOMAIN trie :
            trie[t] = t /\ Fits(t, path) /\ Follows(state, t, n) =>
              \/ Follows(v, t, n + 1)
              \/ \E i \in DOMAIN x : Follows(x[i], t, n + 1)
  BY <1>2, <1>5, <1>8, <1>9, TurnTaken
<1>11. PICK moved, added : moved = [states EXCEPT ![i0] = v] /\ added = add \o x
  OBVIOUS
<1>12. /\ moved \in Seq(State) /\ Len(moved) = size /\ moved[i0] = v
       /\ \A i \in 1..size : i # i0 => moved[i] = states[i]
  BY <1>2, <1>3, <1>4, <1>10, <1>11
<1>13. /\ Len(add) \in Nat /\ DOMAIN add = 1..Len(add)
       /\ Len(x) \in Nat /\ DOMAIN x = 1..Len(x)
       /\ added \in Seq(State) /\ Len(added) = Len(add) + Len(x)
       /\ \A i \in 1..Len(add) : added[i] = add[i]
       /\ \A i \in 1..Len(x) : added[Len(add) + i] = x[i]
       /\ \A i \in 1..Len(added) : i \in 1..Len(add) \/ i - Len(add) \in 1..Len(x)
  BY <1>2, <1>10, <1>11
\* Everything is sound,
<1>14. \A i \in 1..size : Sound(moved[i], path, IF i <= i0 THEN n + 1 ELSE n)
  <2> SUFFICES ASSUME NEW i \in 1..size
               PROVE  Sound(moved[i], path, IF i <= i0 THEN n + 1 ELSE n)
    OBVIOUS
  <2>1. CASE i = i0
    BY <1>4, <1>10, <1>12, <2>1
  <2>2. CASE i # i0
    BY <1>2, <1>4, <1>7, <1>12, <2>2
  <2> QED
    BY <2>1, <2>2
<1>15. \A i \in 1..Len(added) : Sound(added[i], path, n + 1)
  <2> SUFFICES ASSUME NEW i \in 1..Len(added) PROVE Sound(added[i], path, n + 1)
    OBVIOUS
  <2>1. CASE i \in 1..Len(add)
    <3>1. Sound(add[i], path, n + 1)
      BY <1>1, <1>13, <2>1 DEF ExploringInv
    <3> QED
      BY <1>13, <2>1, <3>1
  <2>2. CASE i - Len(add) \in 1..Len(x)
    <3>1. added[i] = x[i - Len(add)]
      BY <1>13, <2>2
    <3> QED
      BY <1>10, <1>13, <2>2, <3>1
  <2> QED
    BY <1>13, <2>1, <2>2
\* and there is still a state for each resource that fits.
<1>16. ASSUME NEW t \in call.known, Fits(t, path)
       PROVE  \/ \E i \in 1..size : Follows(moved[i], t, IF i <= i0 THEN n + 1 ELSE n)
              \/ \E i \in 1..Len(added) : Follows(added[i], t, n + 1)
  <2>1. CASE \E i \in DOMAIN add : Follows(add[i], t, n + 1)
    <3>1. PICK i \in 1..Len(add) : Follows(add[i], t, n + 1)
      BY <1>13, <2>1
    <3>2. i \in 1..Len(added) /\ added[i] = add[i]
      BY <1>13
    <3> QED
      BY <3>1, <3>2
  <2>2. CASE \E i \in DOMAIN states : Follows(states[i], t, IF i < i0 THEN n + 1 ELSE n)
    <3>1. PICK i \in 1..size : Follows(states[i], t, IF i < i0 THEN n + 1 ELSE n)
      BY <1>4, <2>2
    <3>2. CASE i # i0
      <4>1. (i <= i0) = (i < i0)
        BY <1>2, <3>2
      <4>2. Follows(moved[i], t, IF i <= i0 THEN n + 1 ELSE n)
        BY <1>12, <3>1, <3>2, <4>1
      <4> QED
        BY <4>2
    <3>3. CASE i = i0
      <4>1. Follows(state, t, n)
        BY <1>2, <1>6, <3>1, <3>3
      <4>2. Follows(v, t, n + 1) \/ \E j \in DOMAIN x : Follows(x[j], t, n + 1)
        BY <1>10, <1>16, <4>1 DEF AreEntered
      <4>3. CASE Follows(v, t, n + 1)
        BY <1>2, <1>4, <1>12, <4>3
      <4>4. CASE \E j \in DOMAIN x : Follows(x[j], t, n + 1)
        <5>1. PICK j \in 1..Len(x) : Follows(x[j], t, n + 1)
          BY <1>13, <4>4
        <5>2. Len(add) + j \in 1..Len(added) /\ added[Len(add) + j] = x[j]
          BY <1>13
        <5> QED
          BY <5>1, <5>2
      <4> QED
        BY <4>2, <4>3, <4>4
    <3> QED
      BY <3>2, <3>3
  <2> QED
    BY <1>1, <1>16, <2>1, <2>2 DEF ExploringInv, Met
<1>17. PICK new : new = Advance(call)
  OBVIOUS
<1>18. CASE i0 < size
  <2>1. new = [call EXCEPT !.states = moved, !.add = added, !.next = i0 + 1]
    BY <1>1, <1>3, <1>6, <1>9, <1>11, <1>17, <1>18 DEF Advance
  <2>2. /\ new.states = moved /\ new.add = added /\ new.next = i0 + 1 /\ new.depth = n
        /\ new.path = path /\ new.known = call.known /\ new.phase = call.phase
    BY <1>1, <2>1 DEF Call
  <2>3. new \in Call
    <3>1. moved \in Seq(State) /\ added \in Seq(State) /\ i0 + 1 \in Nat
      BY <1>2, <1>12, <1>13
    <3> QED
      BY <2>1, <3>1 DEF Call
  <2>4. \A i \in 1..size : Met(new, i) = IF i <= i0 THEN n + 1 ELSE n
    BY <1>2, <2>2 DEF Met
  <2>5. ExploringInv(new)
    <3>1. new.next \in 1..Len(new.states) /\ new.depth # Len(new.path)
      BY <1>2, <1>4, <1>5, <1>12, <1>18, <2>2
    <3>2. DOMAIN new.states = 1..size /\ DOMAIN new.add = 1..Len(added)
      BY <1>12, <1>13, <2>2
    <3>3. \A i \in DOMAIN new.states : Sound(new.states[i], new.path, Met(new, i))
      BY <1>14, <2>2, <2>4, <3>2
    <3>4. \A i \in DOMAIN new.add : Sound(new.add[i], new.path, new.depth + 1)
      BY <1>15, <2>2, <3>2
    <3>5. ASSUME NEW t \in new.known, Fits(t, new.path)
          PROVE  \/ \E i \in DOMAIN new.states : Follows(new.states[i], t, Met(new, i))
                 \/ \E i \in DOMAIN new.add : Follows(new.add[i], t, new.depth + 1)
      BY <1>16, <2>2, <2>4, <3>2, <3>5
    <3> QED
      BY <3>1, <3>3, <3>4, <3>5 DEF ExploringInv
  <2> QED
    BY <1>1, <1>5, <1>17, <2>2, <2>3, <2>5
<1>19. CASE ~(i0 < size)
  <2>1. PICK all : all = moved \o added
    OBVIOUS
  <2>2. new = [call EXCEPT !.states = all, !.add = <<>>, !.next = 1, !.depth = n + 1]
    BY <1>1, <1>3, <1>6, <1>9, <1>11, <1>17, <1>19, <2>1 DEF Advance
  <2>3. /\ new.states = all /\ new.add = <<>> /\ new.next = 1 /\ new.depth = n + 1
        /\ new.path = path /\ new.known = call.known /\ new.phase = call.phase
    BY <1>1, <2>2 DEF Call
  <2>4. /\ all \in Seq(State) /\ Len(all) = size + Len(added) /\ Len(added) \in Nat
        /\ \A i \in 1..size : all[i] = moved[i]
        /\ \A i \in 1..Len(added) : all[size + i] = added[i]
        /\ \A i \in 1..Len(all) : i \in 1..size \/ i - size \in 1..Len(added)
    <3>1. /\ moved \in Seq(State) /\ Len(moved) = size /\ added \in Seq(State)
          /\ size \in Nat
      BY <1>4, <1>12, <1>13
    <3>2. /\ all \in Seq(State) /\ Len(all) = size + Len(added) /\ Len(added) \in Nat
          /\ \A i \in 1..(size + Len(added)) :
               all[i] = IF i <= size THEN moved[i] ELSE added[i - size]
      <4>1. /\ all \in Seq(State) /\ Len(all) = Len(moved) + Len(added)
            /\ \A i \in 1..(Len(moved) + Len(added)) :
                 all[i] = IF i <= Len(moved) THEN moved[i] ELSE added[i - Len(moved)]
        BY <2>1, <3>1, ConcatProperties, Zenon
      <4>2. Len(added) \in Nat
        BY <3>1
      <4> QED
        BY <3>1, <4>1, <4>2
    <3>3. \A i \in 1..size : i \in 1..(size + Len(added)) /\ i <= size
      BY <3>1, <3>2
    <3>4. \A i \in 1..Len(added) : /\ size + i \in 1..(size + Len(added))
                                    /\ ~(size + i <= size) /\ (size + i) - size = i
      BY <3>1, <3>2
    <3>5. \A i \in 1..Len(all) : i \in 1..size \/ i - size \in 1..Len(added)
      BY <3>1, <3>2
    <3> QED
      BY <3>2, <3>3, <3>4, <3>5
  <2>5. new \in Call
    <3>1. all \in Seq(State) /\ <<>> \in Seq(State) /\ n + 1 \in Nat
      BY <1>5, <2>4
    <3> QED
      BY <2>2, <3>1 DEF Call
  <2>6. DOMAIN all = 1..Len(all) /\ \A i \in DOMAIN all : Met(new, i) = n + 1
    BY <2>3, <2>4 DEF Met
  <2>7. \A i \in 1..size : i <= i0
    BY <1>4, <1>19
  <2>8. ExploringInv(new)
    <3>1. 1 \in 1..Len(all)
      BY <1>4, <2>4
    <3>2. \A i \in DOMAIN all : Sound(all[i], path, n + 1)
      <4> SUFFICES ASSUME NEW i \in 1..Len(all) PROVE Sound(all[i], path, n + 1)
        BY <2>6
      <4>1. CASE i \in 1..size
        BY <1>14, <2>4, <2>7, <4>1
      <4>2. CASE i - size \in 1..Len(added)
        <5>1. all[i] = added[i - size]
          BY <1>4, <2>4, <4>2
        <5> QED
          BY <1>15, <4>2, <5>1
      <4> QED
        BY <2>4, <4>1, <4>2
    <3>3. ASSUME NEW t \in call.known, Fits(t, path)
          PROVE  \E i \in DOMAIN all : Follows(all[i], t, n + 1)
      <4>1. CASE \E i \in 1..size : Follows(moved[i], t, IF i <= i0 THEN n + 1 ELSE n)
        <5>1. PICK i \in 1..size : Follows(moved[i], t, n + 1)
          BY <2>7, <4>1
        <5>2. i \in DOMAIN all /\ all[i] = moved[i]
          BY <1>4, <2>4, <2>6
        <5> QED
          BY <5>1, <5>2
      <4>2. CASE \E i \in 1..Len(added) : Follows(added[i], t, n + 1)
        <5>1. PICK i \in 1..Len(added) : Follows(added[i], t, n + 1)
          BY <4>2
        <5>2. size + i \in DOMAIN all /\ all[size + i] = added[i]
          BY <1>4, <2>4, <2>6
        <5> QED
          BY <5>1, <5>2
      <4> QED
        BY <1>16, <3>3, <4>1, <4>2
    <3> QED
      BY <2>3, <2>6, <3>1, <3>2, <3>3 DEF ExploringInv
  <2> QED
    BY <1>1, <1>5, <1>17, <2>3, <2>5, <2>8
<1> QED
  BY <1>18, <1>19

\* What comes first is one of the candidates.
LEMMA FirstIsCandidate ==
  ASSUME NEW states, NEW first \in First(states)
  PROVE  \E k \in DOMAIN states : IsCandidate(states[k]) /\ first = states[k]
BY DEF First

\* A match begins: the head has met nothing, and leads everywhere.
LEMMA MatchSearch ==
  ASSUME RegistryInv, NEW path \in Paths, Match(path)
  PROVE  SearchInv'
<1>1. /\ search' = [NotMatching EXCEPT !.phase = "exploring", !.path = path,
                                       !.known = ToSet(resources), !.states = <<FirstState>>]
      /\ UNCHANGED nodes
  BY DEF Match
<1>2. PICK new : new = search'
  OBVIOUS
<1>3. /\ new.phase = "exploring" /\ new.path = path /\ new.known = ToSet(resources)
      /\ new.depth = 0 /\ new.next = 1 /\ new.add = <<>> /\ new.states = <<FirstState>>
      /\ DOMAIN new.states = {1} /\ new.states[1] = FirstState
  BY <1>1, <1>2 DEF NotMatching
<1>4. bound = ToSet(resources) /\ bound \subseteq Templates
  BY DEF RegistryInv, ListedInv, RegisteredOnce, ToSet
<1>5. path \in Seq(Component) /\ Len(path) \in Nat
  BY Nodes
<1>6. FirstState \in State
  BY Nodes DEF FirstState, State, Resource
<1>7. new \in Call
  <2>1. <<FirstState>> \in Seq(State) /\ ToSet(resources) \in SUBSET Templates
    BY <1>4, <1>6
  <2>2. NotMatching \in Call
    BY DEF NotMatching, Call, Resource
  <2> QED
    BY <1>1, <1>2, <1>5, <2>1, <2>2 DEF Call
<1>8. Sound(FirstState, path, 0)'
  <2>1. /\ FirstState.cur = Head_ /\ FirstState.matched = NoResource
        /\ ~FirstState.terminated /\ FirstState.variables = <<>>
    BY DEF FirstState
  <2>2. Head_ \in DOMAIN trie'
    BY <1>1 DEF nodes, RegistryInv, TrieInv
  <2>3. FitsTo(Head_, path, 0)
    BY DEF FitsTo, Head_
  <2>4. StandForTo(<<>>, Head_, path, 0)
    <3>1. PICK place : place = [k \in DOMAIN <<>> |-> 0]
      OBVIOUS
    <3>2. DOMAIN <<>> = {} /\ 1..0 = {}
      OBVIOUS
    <3>3. place \in [DOMAIN <<>> -> 1..0]
      BY <3>1, <3>2
    <3> QED
      BY <3>2, <3>3 DEF StandForTo
  <2> QED
    BY <1>6, <2>1, <2>2, <2>3, <2>4 DEF Sound
<1>9. ASSUME NEW t \in new.known
      PROVE  Follows(FirstState, t, 0)
  <2>1. t \in Node
    BY <1>3, <1>4, <1>9, Nodes
  <2>2. SubSeq(t, 1, 0) = Head_
    BY <2>1, SubSeqEmpty DEF Head_
  <2> QED
    BY <2>2 DEF Follows, FirstState
<1>10. ExploringInv(new)'
  <2>1. new.next \in 1..Len(new.states) /\ Met(new, 1) = 0 /\ DOMAIN new.add = {}
    BY <1>3 DEF Met
  <2> QED
    BY <1>3, <1>8, <1>9, <2>1 DEF ExploringInv
<1>11. MatchedFits'
  BY <1>2, <1>3 DEF MatchedFits
<1>12. search'.known \subseteq bound'
  BY <1>1, <1>2, <1>3, <1>4 DEF nodes
<1> QED
  BY <1>2, <1>3, <1>5, <1>7, <1>10, <1>11, <1>12 DEF SearchInv

\* At the end of the path a state with a match has come to a resource that fits.
LEMMA MatchesSearch ==
  ASSUME RegistryInv, SearchInv, Matches
  PROVE  SearchInv'
<1>1. PICK first \in First(search.states) :
        search' = [search EXCEPT !.phase = "matched", !.resource = first.matched,
                                 !.invocable = first.cur \in bound,
                                 !.parameters = first.variables]
  BY DEF Matches
<1>2. PICK path : path = search.path
  OBVIOUS
<1>3. /\ search \in Call /\ path \in Seq(Component) /\ Len(path) \in Nat
      /\ search.depth = Len(path) /\ search.phase = "exploring" /\ ExploringInv(search)
      /\ search.known \subseteq bound
  BY <1>2 DEF SearchInv, Matches, Explored, Call
<1>4. PICK k \in DOMAIN search.states :
        IsCandidate(search.states[k]) /\ first = search.states[k]
  BY <1>1, FirstIsCandidate
<1>5. Sound(first, path, Len(path))
  <2>1. search.states \in Seq(State)
    BY <1>3 DEF Call
  <2>2. k \in Nat /\ k >= 1
    BY <2>1
  <2>3. Met(search, k) = Len(path)
    BY <1>3, <1>2, <2>2 DEF Met, ExploringInv
  <2> QED
    BY <1>2, <1>3, <1>4, <2>3 DEF ExploringInv
<1>6. /\ first \in State /\ first.matched # NoResource /\ ~first.terminated
      /\ first.cur \in DOMAIN trie /\ first.matched = first.cur /\ trie[first.cur] = first.cur
      /\ FitsTo(first.cur, path, Len(path))
      /\ StandForTo(first.variables, first.cur, path, Len(path))
  BY <1>4, <1>5 DEF Sound, IsCandidate
<1>7. first.matched \in Resource /\ first.variables \in Seq(Component)
  BY <1>6 DEF State
<1>8. PICK new : new = search'
  OBVIOUS
<1>9. /\ new.phase = "matched" /\ new.resource = first.cur /\ new.invocable = (first.cur \in bound)
      /\ new.parameters = first.variables /\ new.path = path /\ new.known = search.known
      /\ new.depth = search.depth
  BY <1>1, <1>2, <1>3, <1>6, <1>8 DEF Call
<1>10. new \in Call
  <2>1. (first.cur \in bound) \in BOOLEAN
    OBVIOUS
  <2> QED
    BY <1>1, <1>3, <1>7, <1>8, <2>1 DEF Call
<1>11. UNCHANGED <<trie, bound>>
  BY DEF Matches, nodes
<1>12. DOMAIN path = 1..Len(path)
  BY <1>3
<1>13. Fits(first.cur, path) /\ StandFor(first.variables, first.cur, path)
  BY <1>6, <1>12 DEF FitsTo, Fits, StandForTo, StandFor
<1>14. MatchedFits'
  BY <1>3, <1>6, <1>8, <1>9, <1>11, <1>13 DEF MatchedFits
<1>15. new.resource \in Entered'
  BY <1>6, <1>9, <1>11 DEF Entered
<1> QED
  BY <1>3, <1>8, <1>9, <1>10, <1>11, <1>14, <1>15 DEF SearchInv

\* Without a candidate no resource that was known fits: the state on the way to it
\* would have come to it.
LEMMA NoMatchSearch ==
  ASSUME RegistryInv, SearchInv, NoMatch
  PROVE  SearchInv'
<1>1. /\ search' = [search EXCEPT !.phase = "unmatched"] /\ UNCHANGED <<trie, bound>>
      /\ \A i \in DOMAIN search.states : search.states[i].matched = NoResource
  BY DEF NoMatch, IsCandidate, nodes
<1>2. /\ search \in Call /\ search.path \in Seq(Component) /\ Len(search.path) \in Nat
      /\ search.depth = Len(search.path) /\ ExploringInv(search)
      /\ search.known \subseteq bound /\ search.known \subseteq Templates
  BY DEF SearchInv, NoMatch, Explored, Call
<1>3. PICK new : new = search'
  OBVIOUS
<1>4. /\ new.phase = "unmatched" /\ new.path = search.path /\ new.known = search.known
      /\ new.depth = search.depth /\ new \in Call
  BY <1>1, <1>2, <1>3 DEF Call
<1>5. ASSUME NEW t \in search.known, Fits(t, search.path)
      PROVE  t = Head_
  <2>1. DOMAIN search.add = {} /\ search.next = 1
    BY <1>2 DEF ExploringInv
  <2>2. PICK i \in DOMAIN search.states : Follows(search.states[i], t, Met(search, i))
    BY <1>2, <1>5, <2>1 DEF ExploringInv
  <2>3. search.states \in Seq(State)
    BY <1>2 DEF Call
  <2>4. i \in Nat /\ i >= 1
    BY <2>3
  <2>5. Met(search, i) = Len(t) /\ Len(t) \in Nat
    BY <1>2, <1>5, <2>1, <2>4 DEF Met, Fits
  <2>6. t \in Templates /\ t # NoResource /\ t \in Seq(Component \cup {Variable})
    BY <1>2, <1>5, Nodes DEF Node
  <2>7. Len(t) = 0
    BY <1>1, <2>2, <2>5, <2>6 DEF Follows
  <2> QED
    BY <2>6, <2>7 DEF Head_
<1>6. MatchedFits'
  BY <1>3, <1>4, <1>5 DEF MatchedFits
<1> QED
  BY <1>1, <1>2, <1>3, <1>4, <1>6 DEF SearchInv

\* What the registrar does meanwhile takes nothing away.
LEMMA StaysSearch ==
  ASSUME RegistryInv, SearchInv, Grown, UNCHANGED search
  PROVE  SearchInv'
<1>1. search \in Call /\ search.known \subseteq bound' /\ search.depth <= Len(search.path)
  BY DEF SearchInv, Grown
<1>2. PICK call : call = search
  OBVIOUS
<1>3. call.phase = "exploring" => ExploringInv(call)'
  BY <1>2, StaysExploring DEF SearchInv, RegistryInv
<1>4. search.phase = "matched" =>
        /\ search.resource \in Entered' /\ trie'[search.resource] = trie[search.resource]
  BY DEF SearchInv, Entered, Grown
<1>5. MatchedFits'
  BY <1>4 DEF SearchInv, MatchedFits
<1>6. search' = call
  BY <1>2
<1> QED
  BY <1>1, <1>2, <1>3, <1>4, <1>5, <1>6 DEF SearchInv

\* One step per action of match; the others leave the search as it is.
LEMMA StepSearch == RegistryInv /\ SearchInv /\ [Next]_vars => SearchInv'
<1> SUFFICES ASSUME RegistryInv, SearchInv, [Next]_vars PROVE SearchInv'
  OBVIOUS
<1>1. ASSUME UNCHANGED search
      PROVE  SearchInv'
  BY <1>1, OnlyGrows, StaysSearch
<1>2. ASSUME NEW path \in Paths, Match(path)
      PROVE  SearchInv'
  BY <1>2, MatchSearch
<1>3. CASE MatchComponent
  <2>1. /\ search \in Call /\ search.phase = "exploring" /\ search.depth < Len(search.path)
        /\ ExploringInv(search) /\ search.known \subseteq bound
    BY <1>3 DEF MatchComponent, Exploring, SearchInv
  <2>2. AreEntered(search.known)
    BY <2>1 DEF AreEntered, RegistryInv, ListedInv, RegisteredOnce, Entered, TrieInv
  <2>3. PICK call : call = search
    OBVIOUS
  <2>4. PICK new : new = Advance(call)
    OBVIOUS
  <2>5. /\ new \in Call /\ ExploringInv(new) /\ new.depth <= Len(call.path)
        /\ new.phase = call.phase /\ new.known = call.known /\ new.path = call.path
    BY <2>1, <2>2, <2>3, <2>4, AdvanceExploring DEF RegistryInv
  <2>6. search' = new /\ UNCHANGED <<trie, bound>>
    BY <1>3, <2>3, <2>4 DEF MatchComponent, nodes
  <2>7. ExploringInv(new)'
    BY <2>5, <2>6, OnlyGrows, StaysExploring DEF RegistryInv
  <2> QED
    BY <2>1, <2>3, <2>5, <2>6, <2>7 DEF SearchInv, MatchedFits
<1>4. CASE Matches
  BY <1>4, MatchesSearch
<1>5. CASE NoMatch
  BY <1>5, NoMatchSearch
<1>6. CASE MatchRaces \/ Return
  <2>1. /\ search' \in {NotMatching, [NotMatching EXCEPT !.phase = "undefined"]}
        /\ UNCHANGED bound
    BY <1>6 DEF MatchRaces, Return, nodes
  <2>2. PICK new : new = search'
    OBVIOUS
  <2>3. /\ new \in Call /\ new.phase \in {"idle", "undefined"} /\ new.known = {}
        /\ new.depth = 0 /\ new.path = <<>>
    <3>1. NotMatching \in Call
      BY DEF NotMatching, Call, Resource
    <3>2. /\ NotMatching.phase = "idle" /\ NotMatching.known = {}
          /\ NotMatching.depth = 0 /\ NotMatching.path = <<>>
      BY DEF NotMatching
    <3>3. CASE new = NotMatching
      BY <3>1, <3>2, <3>3
    <3>4. CASE new = [NotMatching EXCEPT !.phase = "undefined"]
      BY <3>1, <3>2, <3>4 DEF Call
    <3> QED
      BY <2>1, <2>2, <3>3, <3>4
  <2> QED
    BY <2>2, <2>3 DEF SearchInv, MatchedFits
<1>7. CASE Adding \/ \E template \in Templates : AddResource(template)
  BY <1>1, <1>7 DEF Adding, AddResource, Walk, SetResource, SetMethods, Collision
<1>8. CASE Clear \/ ClearVisit \/ ClearDelete
  BY <1>1, <1>8 DEF Clear, ClearVisit, ClearDelete
<1>9. CASE UNCHANGED vars
  BY <1>1, <1>9 DEF vars
<1> QED
  BY <1>2, <1>3, <1>4, <1>5, <1>6, <1>7, <1>8, <1>9 DEF Next, Looking

-----------------------------------------------------------------------------
(***************************************************************************)
(* The theorems about match.                                               *)
(***************************************************************************)

\* What a match has found so far is right, whatever is added meanwhile.
THEOREM SearchInvariant == Spec => [](RegistryInv /\ SearchInv)
<1>1. Init => SearchInv
  <2> SUFFICES ASSUME Init PROVE SearchInv
    OBVIOUS
  <2>1. search = NotMatching /\ NotMatching \in Call
    BY DEF Init, NotMatching, Call, Resource
  <2>2. /\ search.phase = "idle" /\ search.known = {} /\ search.depth = 0 /\ search.path = <<>>
    BY <2>1 DEF NotMatching
  <2> QED
    BY <2>1, <2>2 DEF SearchInv, MatchedFits
<1>2. RegistryInv /\ SearchInv /\ [Next]_vars => SearchInv'
  BY StepSearch
<1> QED
  BY <1>1, <1>2, RegistryInvariant, PTL DEF Spec

\* A match returns a resource that fits, with the components its variables stand
\* for, and with its methods if it was known; and nothing only when no known
\* resource fits.
THEOREM MatchesFit == Spec => []MatchedFits
<1>1. SearchInv => MatchedFits
  BY DEF SearchInv
<1> QED
  BY <1>1, SearchInvariant, PTL

\* Every variable has its type.
THEOREM MatcherTypeCorrect == Spec => []TypeOK
<1>1. RegistryInv /\ SearchInv => TypeOK
  <2> SUFFICES ASSUME RegistryInv, SearchInv PROVE TypeOK
    OBVIOUS
  <2>1. \A node \in DOMAIN trie : node \in Node /\ trie[node] \in Resource
    BY DEF RegistryInv, TrieInv, Resource
  <2>2. bound \subseteq DOMAIN trie /\ resources \in Seq(Templates)
    BY DEF RegistryInv, ListedInv, RegisteredOnce, Entered
  <2>3. /\ registrar.phase \in {"idle", "walking", "binding"} /\ registrar.template \in Node
        /\ registrar.depth \in 0..Len(registrar.template)
    <3>1. registrar.template \in Node /\ Len(registrar.template) \in Nat
      BY DEF RegistryInv, RegistrarInv, Node
    <3>2. CASE registrar.phase = "idle"
      BY <3>1, <3>2 DEF RegistryInv, RegistrarInv, Idle
    <3>3. CASE registrar.phase # "idle"
      BY <3>1, <3>3 DEF RegistryInv, RegistrarInv
    <3> QED
      BY <3>2, <3>3
  <2>4. /\ search.phase \in {"idle", "exploring", "matched", "unmatched", "undefined"}
        /\ search.path \in Seq(Component) /\ search.depth \in 0..Len(search.path)
        /\ search.resource \in Resource /\ search.parameters \in Seq(Component)
        /\ search.states \in Seq(State)
    BY DEF SearchInv, Call
  <2>5. \A i \in DOMAIN search.states :
          /\ search.states[i].matched \in Resource
          /\ search.states[i].variables \in Seq(Component)
    <3>1. \A i \in DOMAIN search.states : search.states[i] \in State
      BY <2>4
    <3> QED
      BY <3>1 DEF State
  <2> QED
    BY <2>1, <2>2, <2>3, <2>4, <2>5 DEF TypeOK
<1> QED
  BY <1>1, SearchInvariant, PTL

-----------------------------------------------------------------------------
(***************************************************************************)
(* What match returns is the first by Before of the candidates in its last *)
(* list of states: BestIsReturned. The literals a state has collected are  *)
(* those of its node put end to end, and as it reads a path of the same    *)
(* letters a state with more variables has fewer of them, so that Before   *)
(* decides as the templates do.                                            *)
(*                                                                         *)
(* First goes through the states in order; that it comes to the first of   *)
(* the candidates is an induction over their number.                       *)
(***************************************************************************)

\* Sequences joined are joined one after the other.
LEMMA Joined ==
  ASSUME NEW T, NEW s \in Seq(Seq(T)), s # <<>>
  PROVE  \E f \in [1..Len(s) -> Seq(T)] :
           /\ f[1] = s[1]
           /\ \A i \in 2..Len(s) : f[i] = f[i - 1] \o s[i]
           /\ FlattenSeq(s) = f[Len(s)]
<1> DEFINE N == Len(s)
           Equation(f) == f = [i \in 1..N |-> IF i = 1 THEN s[i] ELSE f[i - 1] \o s[i]]
           words == Seq(T)
           D == 1..N
           base == [i \in 1..N |-> s[i]]
           step == [i \in 1..N |-> [w \in words |-> w \o s[i]]]
           prev == [i \in 1..N |-> IF i = 1 THEN 1 ELSE i - 1]
           rank == [i \in 1..N |-> i - 1]
<1>1. /\ N \in Nat \ {0}
      /\ \A i \in 1..N : s[i] \in words
      /\ \A v, w \in words : v \o w \in words
  OBVIOUS
<1>2. IsRecursion(words, D, base, step, prev, rank)
  <2>1. base \in [D -> words] /\ step \in [D -> [words -> words]]
    BY <1>1
  <2>2. prev \in [D -> D] /\ rank \in [D -> Nat]
    BY <1>1
  <2>3. \A i \in D : rank[i] # 0 => rank[prev[i]] < rank[i]
    BY <1>1
  <2> HIDE DEF D, base, step, prev, rank, words
  <2> QED
    BY <2>1, <2>2, <2>3 DEF IsRecursion
<1>3. PICK g \in [D -> words] :
        \A i \in D : g[i] = IF rank[i] = 0 THEN base[i] ELSE step[i][g[prev[i]]]
  <2> HIDE DEF D, base, step, prev, rank, words
  <2> QED
    BY <1>2, Recursion
<1>4. \A i \in 1..N : g[i] = IF i = 1 THEN s[i] ELSE g[i - 1] \o s[i]
  <2> SUFFICES ASSUME NEW i \in 1..N
               PROVE  g[i] = IF i = 1 THEN s[i] ELSE g[i - 1] \o s[i]
    OBVIOUS
  <2>1. g[i] = IF rank[i] = 0 THEN base[i] ELSE step[i][g[prev[i]]]
    BY <1>3
  <2>2. CASE i = 1
    BY <1>1, <2>1, <2>2
  <2>3. CASE i # 1
    <3>1. rank[i] # 0 /\ prev[i] = i - 1 /\ i - 1 \in 1..N
      BY <1>1, <2>3
    <3>2. g[i - 1] \in words
      BY <1>3, <3>1
    <3> QED
      BY <2>1, <2>3, <3>1, <3>2
  <2> QED
    BY <2>2, <2>3
<1>5. Equation(g)
  <2>1. g = [i \in 1..N |-> g[i]]
    OBVIOUS
  <2> QED
    BY <1>4, <2>1
<1> DEFINE f == CHOOSE h : Equation(h)
<1>6. Equation(f)
  <2> HIDE DEF Equation
  <2> QED
    BY <1>5
<1>7. FlattenSeq(s) = f[N]
  BY <1>1 DEF FlattenSeq
<1> HIDE DEF f, N, words
<1>8. \A i \in 1..N : f[i] = IF i = 1 THEN s[i] ELSE f[i - 1] \o s[i]
  BY <1>6
<1>9. \A i \in 1..N : f[i] \in words
  <2> DEFINE S == {i \in D : f[i] \in words}
  <2>1. 1 \in S
    <3>1. 1 \in 1..N
      BY <1>1
    <3>2. f[1] = s[1] /\ s[1] \in words
      BY <1>1, <1>8, <3>1
    <3> QED
      BY <3>1, <3>2
  <2>2. ASSUME NEW i \in 1..(N - 1), i \in S
        PROVE  i + 1 \in S
    <3>1. PICK k : k = i + 1
      OBVIOUS
    <3>2. k \in 1..N /\ k # 1 /\ k - 1 = i
      BY <1>1, <3>1
    <3>3. f[k] = f[i] \o s[k] /\ s[k] \in words /\ f[i] \in words
      BY <1>1, <1>8, <2>2, <3>2
    <3>4. f[k] \in words
      BY <1>1, <3>3
    <3> QED
      BY <3>1, <3>2, <3>4
  <2>3. \A i \in 1..N : i \in S
    <3> HIDE DEF S, N
    <3>1. N \in Nat /\ 1 \in Nat
      BY <1>1
    <3> QED
      BY <2>1, <2>2, <3>1, EveryNumberFromTo
  <2> QED
    BY <2>3
<1>10. f \in [1..N -> words]
  <2>1. f = [i \in 1..N |-> f[i]]
    BY <1>6
  <2> QED
    BY <1>9, <2>1
<1> QED
  <2>1. 1 \in 1..N /\ \A i \in 2..N : i \in 1..N /\ i # 1
    BY <1>1
  <2> QED
    BY <1>7, <1>8, <1>10, <2>1 DEF N, words

\* The parts of a template's literals.
Spelled(node) == [i \in DOMAIN node |-> IF node[i] = Variable THEN <<Dot>> ELSE node[i]]

LEMMA SpelledType ==
  ASSUME NEW node \in Node
  PROVE  /\ Spelled(node) \in Seq(Seq(Nat)) /\ Len(Spelled(node)) = Len(node)
         /\ \A i \in 1..Len(node) :
              Spelled(node)[i] = IF node[i] = Variable THEN <<Dot>> ELSE node[i]
<1>1. node \in Seq(Component \cup {Variable}) /\ Component \subseteq Seq(Nat)
  BY MatcherAssumption DEF Node
<1>2. <<Dot>> \in Seq(Nat)
  BY DEF Dot
<1>3. \A i \in 1..Len(node) : (IF node[i] = Variable THEN <<Dot>> ELSE node[i]) \in Seq(Nat)
  BY <1>1, <1>2
<1>4. \A i \in 1..Len(node) :
        Spelled(node)[i] = IF node[i] = Variable THEN <<Dot>> ELSE node[i]
  BY <1>1 DEF Spelled
<1>5. Len(node) \in Nat /\ Spelled(node) = [i \in 1..Len(node) |-> Spelled(node)[i]]
  BY <1>1 DEF Spelled
<1>6. Spelled(node) \in Seq(Seq(Nat)) /\ Len(Spelled(node)) = Len(node)
  <2>1. PICK n, s : n = Len(node) /\ s = Spelled(node)
    OBVIOUS
  <2>2. n \in Nat /\ s = [i \in 1..n |-> s[i]] /\ \A i \in 1..n : s[i] \in Seq(Nat)
    BY <1>3, <1>4, <1>5, <2>1
  <2>3. s \in Seq(Seq(Nat)) /\ Len(s) = n
    BY <2>2
  <2> QED
    BY <2>1, <2>3
<1> QED
  BY <1>4, <1>6

\* No node but the head has literals, and a component more adds its own.
LEMMA LiteralsGrow ==
  /\ Literals(Head_) = <<>>
  /\ \A node \in Node, c \in Component \cup {Variable} :
       /\ Append(node, c) \in Node
       /\ Literals(node) \in Seq(Nat)
       /\ Literals(Append(node, c)) = Literals(node) \o (IF c = Variable THEN <<Dot>> ELSE c)
<1>1. \A node : Literals(node) = FlattenSeq(Spelled(node))
  BY DEF Literals, Spelled
<1>2. Literals(Head_) = <<>>
  <2>1. Spelled(Head_) = <<>>
    BY DEF Head_, Spelled
  <2> QED
    BY <1>1, <2>1 DEF FlattenSeq
<1> SUFFICES ASSUME NEW node \in Node, NEW c \in Component \cup {Variable}
             PROVE  /\ Append(node, c) \in Node
                    /\ Literals(node) \in Seq(Nat)
                    /\ Literals(Append(node, c))
                         = Literals(node) \o (IF c = Variable THEN <<Dot>> ELSE c)
  BY <1>2
<1> DEFINE child == Append(node, c)
           word == IF c = Variable THEN <<Dot>> ELSE c
<1>3. /\ child \in Node /\ Len(node) \in Nat /\ Len(child) = Len(node) + 1
      /\ child[Len(node) + 1] = c
      /\ \A i \in 1..Len(node) : child[i] = node[i]
  BY DEF Node
<1> HIDE DEF child
<1>4. PICK s, t, N : s = Spelled(node) /\ t = Spelled(child) /\ N = Len(node)
  OBVIOUS
<1>5. /\ s \in Seq(Seq(Nat)) /\ Len(s) = N /\ N \in Nat
      /\ t \in Seq(Seq(Nat)) /\ Len(t) = N + 1 /\ t # <<>>
      /\ t[N + 1] = word
      /\ \A i \in 1..N : t[i] = s[i]
  <2>1. /\ s \in Seq(Seq(Nat)) /\ Len(s) = N /\ N \in Nat
        /\ \A i \in 1..N : s[i] = IF node[i] = Variable THEN <<Dot>> ELSE node[i]
    BY <1>3, <1>4, SpelledType
  <2>2. /\ t \in Seq(Seq(Nat)) /\ Len(t) = N + 1
        /\ \A i \in 1..(N + 1) : t[i] = IF child[i] = Variable THEN <<Dot>> ELSE child[i]
    BY <1>3, <1>4, SpelledType
  <2>3. N + 1 \in 1..(N + 1) /\ (\A i \in 1..N : i \in 1..(N + 1)) /\ N + 1 # 0
    BY <2>1
  <2>4. t[N + 1] = word /\ \A i \in 1..N : t[i] = s[i]
    BY <1>3, <1>4, <2>1, <2>2, <2>3
  <2> QED
    BY <2>1, <2>2, <2>3, <2>4
<1>6. PICK g \in [1..Len(t) -> Seq(Nat)] :
        /\ g[1] = t[1]
        /\ \A i \in 2..Len(t) : g[i] = g[i - 1] \o t[i]
        /\ FlattenSeq(t) = g[Len(t)]
  BY <1>5, Joined
<1>7. CASE N = 0
  <2>1. s = <<>> /\ Literals(node) = <<>>
    <3>1. s = <<>>
      BY <1>5, <1>7
    <3>2. Literals(node) = FlattenSeq(<<>>)
      BY <1>1, <1>4, <3>1
    <3> QED
      BY <3>1, <3>2 DEF FlattenSeq
  <2>2. Literals(child) = word /\ word \in Seq(Nat)
    BY <1>1, <1>4, <1>5, <1>6, <1>7
  <2> HIDE DEF word
  <2>3. <<>> \o word = word
    BY <2>2
  <2>4. Literals(child) = Literals(node) \o word /\ Literals(node) \in Seq(Nat)
    BY <2>1, <2>2, <2>3
  <2> QED
    BY <1>3, <2>4 DEF child, word
<1>8. CASE N # 0
  <2>1. PICK f \in [1..Len(s) -> Seq(Nat)] :
          /\ f[1] = s[1]
          /\ \A i \in 2..Len(s) : f[i] = f[i - 1] \o s[i]
          /\ FlattenSeq(s) = f[Len(s)]
    <3>1. s # <<>>
      BY <1>5, <1>8
    <3> QED
      BY <1>5, <3>1, Joined
  <2> DEFINE S == {i \in 1..N : f[i] = g[i]}
  <2>2. 1 \in S
    BY <1>5, <1>6, <1>8, <2>1
  <2>3. ASSUME NEW i \in 1..(N - 1), i \in S
        PROVE  i + 1 \in S
    <3>1. PICK k : k = i + 1
      OBVIOUS
    <3>2. k \in 2..N /\ k \in 2..(N + 1) /\ k \in 1..N /\ k - 1 = i
      BY <1>5, <3>1
    <3>3. f[k] = f[i] \o s[k] /\ g[k] = g[i] \o t[k] /\ t[k] = s[k] /\ f[i] = g[i]
      BY <1>5, <1>6, <2>1, <2>3, <3>2
    <3> QED
      BY <3>1, <3>2, <3>3
  <2>4. \A i \in 1..N : i \in S
    <3> HIDE DEF S
    <3>1. N \in Nat /\ 1 \in Nat
      BY <1>5
    <3> QED
      BY <2>2, <2>3, <3>1, EveryNumberFromTo
  <2>5. N \in 1..N
    BY <1>5, <1>8
  <2>6. f[N] = g[N] /\ f[N] \in Seq(Nat)
    BY <1>5, <2>1, <2>4, <2>5
  <2>7. N + 1 \in 2..(N + 1) /\ (N + 1) - 1 = N
    BY <1>5, <1>8
  <2>8. g[N + 1] = g[N] \o t[N + 1]
    BY <1>5, <1>6, <2>7
  <2>9. Literals(child) = Literals(node) \o word /\ Literals(node) \in Seq(Nat)
    <3>1. Literals(node) = f[N]
      BY <1>1, <1>4, <1>5, <2>1
    <3>2. Literals(child) = g[N + 1]
      BY <1>1, <1>4, <1>5, <1>6
    <3> QED
      BY <1>5, <2>6, <2>8, <3>1, <3>2
  <2> QED
    BY <1>3, <2>9 DEF child
<1> QED
  BY <1>5, <1>7, <1>8

-----------------------------------------------------------------------------
(***************************************************************************)
(* What comes first.                                                       *)
(***************************************************************************)

Candidates(states) == {k \in DOMAIN states : IsCandidate(states[k])}

Earlier(states, n) == {k \in Candidates(states) : k < n}

\* What may be first with the n-th state, after what may be without it.
FirstWith(states, n, before) ==
  IF n \notin Candidates(states) THEN before
  ELSE IF Earlier(states, n) = {} THEN {n}
  ELSE {k \in before : \E i \in Earlier(states, n) : ~Before(states[n], states[i])}
       \cup {k \in {n} : \E i \in before : Before(states[k], states[i])}

\* First goes through the states in order.
LEMMA FirstInOrder ==
  ASSUME NEW states \in Seq(State)
  PROVE  \E first \in [0..Len(states) -> SUBSET Nat] :
           /\ first[0] = {}
           /\ \A n \in 1..Len(states) : first[n] = FirstWith(states, n, first[n - 1])
           /\ First(states) = {states[k] : k \in Candidates(states) \cap first[Len(states)]}
<1> DEFINE N == Len(states)
           D == 0..N
           X == SUBSET Nat
           Value(f, n) == IF n = 0 THEN {} ELSE FirstWith(states, n, f[n - 1])
           Equation(f) == f = [n \in D |-> Value(f, n)]
           base == [n \in D |-> {}]
           step == [n \in D |-> [before \in X |-> FirstWith(states, n, before)]]
           prev == [n \in D |-> IF n = 0 THEN 0 ELSE n - 1]
           rank == [n \in D |-> n]
<1>1. N \in Nat /\ Candidates(states) \subseteq Nat
  BY DEF Candidates
<1>2. \A n \in Nat : \A before \in X : FirstWith(states, n, before) \in X
  BY DEF FirstWith
<1>3. IsRecursion(X, D, base, step, prev, rank)
  <2>1. base \in [D -> X]
    BY <1>1
  <2>2. step \in [D -> [X -> X]]
    BY <1>1, <1>2
  <2>3. prev \in [D -> D] /\ rank \in [D -> Nat]
    BY <1>1
  <2>4. \A n \in D : rank[n] # 0 => rank[prev[n]] < rank[n]
    BY <1>1
  <2> HIDE DEF D, X, base, step, prev, rank
  <2> QED
    BY <2>1, <2>2, <2>3, <2>4 DEF IsRecursion
<1>4. PICK g \in [D -> X] :
        \A n \in D : g[n] = IF rank[n] = 0 THEN base[n] ELSE step[n][g[prev[n]]]
  <2> HIDE DEF D, X, base, step, prev, rank
  <2> QED
    BY <1>3, Recursion
<1>5. \A n \in D : g[n] = Value(g, n)
  <2> SUFFICES ASSUME NEW n \in D
               PROVE  g[n] = Value(g, n)
    OBVIOUS
  <2>1. g[n] = IF rank[n] = 0 THEN base[n] ELSE step[n][g[prev[n]]]
    BY <1>4
  <2>2. CASE n = 0
    BY <2>1, <2>2
  <2>3. CASE n # 0
    <3>1. rank[n] = n /\ prev[n] = n - 1 /\ n - 1 \in D
      BY <1>1, <2>3
    <3>2. g[n - 1] \in X
      BY <1>4, <3>1
    <3>3. step[n][g[n - 1]] = FirstWith(states, n, g[n - 1])
      BY <3>2
    <3> QED
      BY <2>1, <2>3, <3>1, <3>3
  <2> QED
    BY <2>2, <2>3
<1>6. Equation(g)
  <2>1. g = [n \in D |-> g[n]]
    BY <1>4
  <2> HIDE DEF D, X, Value
  <2> QED
    BY <1>5, <2>1
<1> DEFINE first == CHOOSE f : Equation(f)
<1>7. Equation(first)
  <2> HIDE DEF Equation
  <2> QED
    BY <1>6
<1>8. First(states) = {states[k] : k \in Candidates(states) \cap first[N]}
  BY DEF First, FirstWith, Candidates, Earlier
<1> HIDE DEF first
<1>9. \A n \in D : first[n] = Value(first, n)
  BY <1>7
<1>10. \A n \in D : first[n] \in X
  <2> DEFINE S == {n \in D : first[n] \in X}
  <2>1. 0 \in S
    BY <1>1, <1>9
  <2>2. ASSUME NEW n \in 0..(N - 1), n \in S
        PROVE  n + 1 \in S
    <3>1. PICK m : m = n + 1
      OBVIOUS
    <3>2. m \in D /\ m # 0 /\ m - 1 = n /\ m \in Nat
      BY <1>1, <3>1
    <3>3. first[m] = FirstWith(states, m, first[n]) /\ first[n] \in X
      BY <1>9, <2>2, <3>2
    <3> HIDE DEF X
    <3>4. first[m] \in X
      BY <1>2, <3>2, <3>3
    <3> QED
      BY <3>1, <3>2, <3>4
  <2>3. \A n \in 0..N : n \in S
    <3> HIDE DEF S, N
    <3>1. N \in Nat /\ 0 \in Nat
      BY <1>1
    <3> QED
      BY <2>1, <2>2, <3>1, EveryNumberFromTo
  <2> QED
    BY <2>3
<1>11. first \in [D -> X]
  <2>1. first = [n \in D |-> first[n]]
    BY <1>7
  <2> HIDE DEF D, X
  <2> QED
    BY <1>10, <2>1
<1>12. first[0] = {} /\ \A n \in 1..N : first[n] = FirstWith(states, n, first[n - 1])
  <2>1. 0 \in D /\ \A n \in 1..N : n \in D /\ n # 0
    BY <1>1
  <2> QED
    BY <1>9, <2>1
<1> QED
  BY <1>8, <1>11, <1>12

\* States that come before all others, and before which none comes, come first.
LEMMA BestComesFirst ==
  ASSUME NEW states \in Seq(State), NEW best, best \subseteq Candidates(states), best # {},
         \A b \in best, k \in Candidates(states) :
           ~Before(states[k], states[b]) /\ (k \notin best => Before(states[b], states[k])),
         NEW s \in First(states)
  PROVE  \E b \in best : s = states[b]
<1> DEFINE C == Candidates(states)
           N == Len(states)
<1>1. N \in Nat /\ C \subseteq 1..N
  BY DEF Candidates
<1>2. PICK first \in [0..N -> SUBSET Nat] :
        /\ first[0] = {}
        /\ \A n \in 1..N : first[n] = FirstWith(states, n, first[n - 1])
        /\ First(states) = {states[k] : k \in C \cap first[N]}
  BY FirstInOrder
\* What may be first after n states is one of them, there is one if there is a
\* candidate, and it is one of the best if one of these is among them.
<1> DEFINE Right(n) == /\ first[n] \subseteq {k \in C : k <= n}
                       /\ {k \in C : k <= n} # {} => first[n] # {}
                       /\ (\E b \in best : b <= n) => first[n] \subseteq best
<1> HIDE DEF N
<1>3. Right(0)
  BY <1>1, <1>2
<1>4. ASSUME NEW n \in 1..N, Right(n - 1)
      PROVE  Right(n)
  <2>1. PICK before, after : before = first[n - 1] /\ after = first[n]
    OBVIOUS
  <2>2. /\ before \subseteq {k \in C : k <= n - 1}
        /\ {k \in C : k <= n - 1} # {} => before # {}
        /\ (\E b \in best : b <= n - 1) => before \subseteq best
    BY <1>4, <2>1
  <2>3. n \in Nat /\ \A k \in C : k \in Nat /\ (k <= n - 1 <=> k < n) /\ (k <= n <=> k < n \/ k = n)
    BY <1>1
  <2>4. after = FirstWith(states, n, before)
    BY <1>2, <2>1
  <2>5. CASE n \notin C
    <3>1. after = before
      BY <2>4, <2>5 DEF FirstWith
    <3>2. {k \in C : k <= n} = {k \in C : k <= n - 1}
      BY <2>3, <2>5
    <3>3. \A b \in best : b <= n => b <= n - 1
      BY <2>3, <2>5
    <3> QED
      BY <2>1, <2>2, <3>1, <3>2, <3>3
  <2>6. CASE n \in C /\ Earlier(states, n) = {}
    <3>1. after = {n}
      BY <2>4, <2>6 DEF FirstWith
    <3>2. \A k \in C : k <= n => k = n
      BY <2>3, <2>6 DEF Earlier
    <3> QED
      BY <2>1, <2>3, <2>6, <3>1, <3>2
  <2>7. CASE n \in C /\ Earlier(states, n) # {}
    <3> DEFINE E == Earlier(states, n)
    <3>1. after = {k \in before : \E i \in E : ~Before(states[n], states[i])}
                    \cup {k \in {n} : \E i \in before : Before(states[k], states[i])}
      BY <2>4, <2>7 DEF FirstWith
    <3>2. E = {k \in C : k <= n - 1} /\ before \subseteq E /\ before # {} /\ E \subseteq C
      BY <2>2, <2>3, <2>7 DEF Earlier
    <3> HIDE DEF E
    <3>3. after \subseteq {k \in C : k <= n}
      BY <2>3, <2>7, <3>1, <3>2
    <3>4. after # {}
      <4>1. CASE \E i \in E : ~Before(states[n], states[i])
        BY <3>1, <3>2, <4>1
      <4>2. CASE \A i \in E : Before(states[n], states[i])
        <5>1. n \in after
          BY <3>1, <3>2, <4>2
        <5> QED
          BY <5>1
      <4> QED
        BY <4>1, <4>2
    <3>5. ASSUME NEW b \in best, b <= n
          PROVE  after \subseteq best
      <4>1. CASE \E c \in best : c <= n - 1
        <5>1. before \subseteq best
          BY <2>2, <4>1
        <5>2. \A i \in before : ~Before(states[n], states[i])
          BY <2>7, <5>1
        <5> QED
          BY <3>1, <5>1, <5>2
      <4>2. CASE ~\E c \in best : c <= n - 1
        <5>1. n \in best
          BY <2>3, <3>5, <4>2
        <5>2. \A i \in E : i \notin best
          BY <3>2, <4>2
        <5>3. \A i \in E : Before(states[n], states[i])
          BY <3>2, <5>1, <5>2
        <5> QED
          BY <3>1, <5>1, <5>3
      <4> QED
        BY <4>1, <4>2
    <3> QED
      BY <2>1, <3>3, <3>4, <3>5
  <2> QED
    BY <2>5, <2>6, <2>7
<1>5. Right(N)
  <2> DEFINE S == {n \in Nat : Right(n)}
  <2> HIDE DEF Right
  <2>1. 0 \in S
    BY <1>3
  <2>2. ASSUME NEW n \in 0..(N - 1), n \in S
        PROVE  n + 1 \in S
    <3>1. n + 1 \in 1..N /\ (n + 1) - 1 = n /\ n + 1 \in Nat
      BY <1>1
    <3>2. Right(n)
      BY <2>2
    <3>3. Right((n + 1) - 1)
      BY <3>1, <3>2
    <3>4. Right(n + 1)
      BY <1>4, <3>1, <3>3
    <3> QED
      BY <3>1, <3>4
  <2>3. \A n \in 0..N : n \in S
    <3> HIDE DEF S
    <3>1. 0 \in Nat
      OBVIOUS
    <3> QED
      BY <1>1, <2>1, <2>2, <3>1, EveryNumberFromTo
  <2>4. N \in 0..N
    BY <1>1
  <2> QED
    BY <2>3, <2>4
<1>6. \E b \in best : b <= N
  BY <1>1
<1>7. first[N] \subseteq best
  BY <1>5, <1>6
<1> QED
  BY <1>2, <1>7

-----------------------------------------------------------------------------
(***************************************************************************)
(* What a search state says of its resource.                               *)
(***************************************************************************)

\* The literals of a search state are those of its node.
SpellsOut(state) == ~state.terminated => state.literals = Literals(state.cur)

SpelledInv(call) ==
  /\ \A i \in DOMAIN call.states : SpellsOut(call.states[i])
  /\ \A i \in DOMAIN call.add : SpellsOut(call.add[i])

\* They are after one more component.
LEMMA AdvanceSpelled ==
  ASSUME NEW call \in Call, call.depth < Len(call.path), call.next \in 1..Len(call.states),
         SpelledInv(call)
  PROVE  SpelledInv(Advance(call))
<1>1. PICK i0, states, add, component, state :
        /\ i0 = call.next /\ states = call.states /\ add = call.add
        /\ component = call.path[call.depth + 1] /\ state = states[i0]
  OBVIOUS
<1>2. PICK v, x :
        /\ v = IF state.terminated THEN state ELSE ThroughLiteral(state, component)
        /\ x = IF ~state.terminated /\ Has(Append(state.cur, Variable))
               THEN <<ThroughVariable(state, component)>> ELSE <<>>
  OBVIOUS
<1>3. /\ states \in Seq(State) /\ add \in Seq(State) /\ i0 \in 1..Len(states)
      /\ Len(states) \in Nat /\ state \in State
  BY <1>1 DEF Call
<1>4. component \in Component /\ component # Variable /\ component \in Seq(Nat)
  <2>1. /\ call.path \in Seq(Component) /\ call.depth \in Nat /\ Len(call.path) \in Nat
        /\ call.depth + 1 \in 1..Len(call.path)
    BY DEF Call
  <2> QED
    BY <1>1, <2>1, MatcherAssumption
<1>5. /\ state.cur \in Node
      /\ Literals(Append(state.cur, component)) = Literals(state.cur) \o component
      /\ Literals(Append(state.cur, Variable)) = Literals(state.cur) \o <<Dot>>
      /\ Append(Literals(state.cur), Dot) = Literals(state.cur) \o <<Dot>>
  <2>1. state.cur \in Node
    BY <1>3 DEF State
  <2>2. Literals(state.cur) \in Seq(Nat) /\ Dot \in Nat
    BY <2>1, LiteralsGrow DEF Dot
  <2>3. Append(Literals(state.cur), Dot) = Literals(state.cur) \o <<Dot>>
    BY <2>2, AppendIsConcat
  <2> QED
    BY <1>4, <2>1, <2>3, LiteralsGrow
<1>6. SpellsOut(state)
  BY <1>1, <1>3 DEF SpelledInv
<1>7. SpellsOut(v)
  <2>1. CASE state.terminated
    BY <1>2, <1>6, <2>1
  <2>2. CASE ~state.terminated /\ Has(Append(state.cur, component))
    <3>1. v = [state EXCEPT !.cur = Append(state.cur, component),
                            !.matched = trie[Append(state.cur, component)],
                            !.literals = @ \o component]
      BY <1>2, <2>2 DEF ThroughLiteral
    <3>2. v.cur = Append(state.cur, component) /\ v.literals = state.literals \o component
      BY <1>3, <3>1 DEF State
    <3> QED
      BY <1>5, <1>6, <2>2, <3>2 DEF SpellsOut
  <2>3. CASE ~state.terminated /\ ~Has(Append(state.cur, component))
    <3>1. v.terminated
      BY <1>2, <1>3, <2>3 DEF ThroughLiteral, State
    <3> QED
      BY <3>1 DEF SpellsOut
  <2> QED
    BY <2>1, <2>2, <2>3
<1>8. x \in Seq({ThroughVariable(state, component)}) /\ \A i \in DOMAIN x : SpellsOut(x[i])
  <2>1. CASE ~state.terminated /\ Has(Append(state.cur, Variable))
    <3>1. x = <<ThroughVariable(state, component)>>
      BY <1>2, <2>1
    <3>2. SpellsOut(ThroughVariable(state, component))
      BY <1>5, <1>6, <2>1 DEF SpellsOut, ThroughVariable
    <3> QED
      BY <3>1, <3>2
  <2>2. CASE ~(~state.terminated /\ Has(Append(state.cur, Variable)))
    BY <1>2, <2>2
  <2> QED
    BY <2>1, <2>2
<1>9. PICK moved, added : moved = [states EXCEPT ![i0] = v] /\ added = add \o x
  OBVIOUS
<1>10. /\ DOMAIN moved = 1..Len(states) /\ moved \in Seq({v} \cup State) /\ Len(moved) = Len(states)
       /\ \A i \in 1..Len(states) : SpellsOut(moved[i])
  <2>1. \A i \in 1..Len(states) : SpellsOut(states[i])
    BY <1>1, <1>3 DEF SpelledInv
  <2> QED
    BY <1>3, <1>7, <1>9, <2>1
<1>11. added \in Seq({ThroughVariable(state, component)} \cup State)
       /\ \A i \in DOMAIN added : SpellsOut(added[i])
  <2>1. \A i \in 1..Len(add) : SpellsOut(add[i])
    BY <1>1, <1>3 DEF SpelledInv
  <2>2. PICK T : T = {ThroughVariable(state, component)} \cup State
    OBVIOUS
  <2>3. add \in Seq(T) /\ x \in Seq(T)
    BY <1>3, <1>8, <2>2
  <2>4. \A i \in 1..Len(x) : SpellsOut(x[i])
    BY <1>8, <2>3
  <2>5. /\ added \in Seq(T) /\ Len(added) = Len(add) + Len(x)
        /\ Len(add) \in Nat /\ Len(x) \in Nat
        /\ \A i \in 1..(Len(add) + Len(x)) :
             added[i] = IF i <= Len(add) THEN add[i] ELSE x[i - Len(add)]
    BY <1>9, <2>3, ConcatProperties
  <2>6. \A i \in 1..(Len(add) + Len(x)) :
          IF i <= Len(add) THEN i \in 1..Len(add) ELSE i - Len(add) \in 1..Len(x)
    BY <2>5
  <2>7. \A i \in 1..(Len(add) + Len(x)) : SpellsOut(added[i])
    BY <2>1, <2>4, <2>5, <2>6
  <2> QED
    BY <2>2, <2>5, <2>7
<1>12. Advance(call) =
         IF i0 < Len(states)
         THEN [call EXCEPT !.states = moved, !.add = added, !.next = @ + 1]
         ELSE [call EXCEPT !.states = moved \o added, !.add = <<>>, !.next = 1, !.depth = @ + 1]
  BY <1>1, <1>2, <1>9 DEF Advance
<1>13. CASE i0 < Len(states)
  <2>1. Advance(call).states = moved /\ Advance(call).add = added
    BY <1>12, <1>13 DEF Call
  <2> QED
    BY <1>10, <1>11, <2>1 DEF SpelledInv
<1>14. CASE ~(i0 < Len(states))
  <2>1. Advance(call).states = moved \o added /\ Advance(call).add = <<>>
    BY <1>12, <1>14 DEF Call
  <2>2. PICK T : T = {v} \cup ({ThroughVariable(state, component)} \cup State)
    OBVIOUS
  <2>3. moved \in Seq(T) /\ added \in Seq(T)
    BY <1>10, <1>11, <2>2
  <2>4. PICK all : all = moved \o added
    OBVIOUS
  <2>5. /\ all \in Seq(T) /\ Len(all) = Len(moved) + Len(added)
        /\ Len(moved) \in Nat /\ Len(added) \in Nat
        /\ \A i \in 1..(Len(moved) + Len(added)) :
             all[i] = IF i <= Len(moved) THEN moved[i] ELSE added[i - Len(moved)]
    BY <2>3, <2>4, ConcatProperties
  <2>6. \A i \in 1..(Len(moved) + Len(added)) :
          IF i <= Len(moved) THEN i \in 1..Len(moved) ELSE i - Len(moved) \in 1..Len(added)
    BY <2>5
  <2>7. /\ \A i \in 1..Len(moved) : SpellsOut(moved[i])
        /\ \A i \in 1..Len(added) : SpellsOut(added[i])
    BY <1>10, <1>11, <2>3
  <2>8. \A i \in DOMAIN all : SpellsOut(all[i])
    <3>1. DOMAIN all = 1..(Len(moved) + Len(added))
      BY <2>5
    <3>2. \A i \in 1..(Len(moved) + Len(added)) : SpellsOut(all[i])
      BY <2>5, <2>6, <2>7
    <3> QED
      BY <3>1, <3>2
  <2> QED
    BY <2>1, <2>4, <2>8 DEF SpelledInv
<1> QED
  BY <1>13, <1>14

\* A search state has as many parameters as its node has variables.
LEMMA ParametersCounted ==
  ASSUME NEW parameters \in Seq(Component), NEW node \in Node, NEW path, NEW n \in Nat,
         Len(node) = n, StandForTo(parameters, node, path, n)
  PROVE  Len(parameters) = Variables(node)
<1> DEFINE A == 1..Len(parameters)
           B == {i \in DOMAIN node : node[i] = Variable}
<1>1. DOMAIN node = 1..n /\ DOMAIN parameters = A /\ Len(parameters) \in Nat
  BY DEF Node
<1>2. PICK place \in [DOMAIN parameters -> 1..n] :
        /\ {place[k] : k \in DOMAIN parameters} = {i \in 1..n : node[i] = Variable}
        /\ \A j, k \in DOMAIN parameters : j < k => place[j] < place[k]
  BY DEF StandForTo
<1>3. place \in [A -> B] /\ \A i \in B : \E k \in A : place[k] = i
  <2>1. {place[k] : k \in A} = B
    BY <1>1, <1>2
  <2> QED
    BY <1>1, <1>2, <2>1
<1>4. \A j, k \in A : place[j] = place[k] => j = k
  <2> SUFFICES ASSUME NEW j \in A, NEW k \in A, j # k
               PROVE  place[j] # place[k]
    OBVIOUS
  <2>1. place[j] \in Nat /\ place[k] \in Nat
    BY <1>1, <1>2
  <2>2. j < k \/ k < j
    BY <1>1
  <2>3. place[j] < place[k] \/ place[k] < place[j]
    BY <1>1, <1>2, <2>2
  <2> QED
    BY <2>1, <2>3
<1>5. ExistsBijection(A, B)
  <2> HIDE DEF A, B
  <2> QED
    BY <1>3, <1>4 DEF ExistsBijection, Bijection, Injection, Surjection, IsInjective
<1>6. IsFiniteSet(A) /\ Cardinality(A) = Len(parameters)
  <2>1. PICK m \in Nat : m = Len(parameters)
    BY <1>1
  <2>2. IsFiniteSet(1..m) /\ Cardinality(1..m) = IF 1 > m THEN 0 ELSE m - 1 + 1
    BY FS_Interval
  <2>3. Cardinality(1..m) = m
    BY <2>2
  <2> QED
    BY <2>1, <2>2, <2>3
<1>7. Cardinality(B) = Len(parameters)
  <2> HIDE DEF A, B
  <2> QED
    BY <1>5, <1>6, FS_Bijection
<1> QED
  BY <1>7 DEF Variables

-----------------------------------------------------------------------------
(***************************************************************************)
(* The best match.                                                         *)
(***************************************************************************)

\* A resource that fits and is preferred to all others that do.
IsBest(t, path) ==
  /\ Fits(t, path)
  /\ \A r \in Entered \ {t} : Fits(r, path) => Preferred(t, r)

\* Of two search states that have come to resources, one comes before the other if
\* its resource is preferred, and neither if it is the same one.
LEMMA PreferredComesBefore ==
  ASSUME NEW s \in State, NEW t \in State,
         s.literals = Literals(s.cur), Len(s.variables) = Variables(s.cur),
         t.literals = Literals(t.cur), Len(t.variables) = Variables(t.cur)
  PROVE  /\ s.cur = t.cur => ~Before(s, t)
         /\ Preferred(s.cur, t.cur) => Before(s, t) /\ ~Before(t, s)
<1>1. /\ s.literals \in Seq(Nat) /\ t.literals \in Seq(Nat)
      /\ Len(s.variables) \in Nat /\ Len(t.variables) \in Nat
      /\ Len(s.literals) \in Nat /\ Len(t.literals) \in Nat
  BY DEF State
<1>2. ASSUME s.cur = t.cur
      PROVE  ~Before(s, t)
  <2>1. s.literals = t.literals /\ Len(s.variables) = Len(t.variables)
    BY <1>2
  <2>2. ~Greater(s.literals, s.literals)
    <3>1. \A i \in DOMAIN s.literals : i <= Len(s.literals) /\ s.literals[i] \in Nat
      BY <1>1
    <3>2. \A i \in DOMAIN s.literals : ~(s.literals[i] > s.literals[i])
      BY <3>1
    <3> QED
      BY <3>1, <3>2 DEF Greater
  <2> QED
    BY <1>1, <2>1, <2>2 DEF Before
<1>3. ASSUME Preferred(s.cur, t.cur)
      PROVE  Before(s, t) /\ ~Before(t, s)
  BY <1>1, <1>3 DEF Preferred, Before
<1> QED
  BY <1>2, <1>3

\* At the end of the path the best match comes first.
LEMMA BestIsFirst ==
  ASSUME RegistryInv, SearchInv, Explored, SpelledInv(search),
         NEW first \in First(search.states), NEW t \in search.known, IsBest(t, search.path)
  PROVE  first.matched = t
<1>1. PICK path, states, n : path = search.path /\ states = search.states /\ n = Len(path)
  OBVIOUS
<1>2. /\ path \in Seq(Component) /\ n \in Nat /\ states \in Seq(State)
      /\ search.depth = n /\ search.next = 1 /\ DOMAIN search.add = {}
      /\ ExploringInv(search)
  BY <1>1 DEF SearchInv, Explored, Call, ExploringInv
<1>3. \A i \in DOMAIN states : i \in Nat /\ Met(search, i) = n
  BY <1>2 DEF Met
<1>4. ASSUME NEW k \in Candidates(states)
      PROVE  /\ states[k] \in State /\ states[k].cur \in Node /\ states[k].matched = states[k].cur
             /\ states[k].cur \in Entered /\ Fits(states[k].cur, path)
             /\ states[k].literals = Literals(states[k].cur)
             /\ Len(states[k].variables) = Variables(states[k].cur)
  <2>1. PICK s : s = states[k]
    OBVIOUS
  <2>2. /\ k \in DOMAIN states /\ s.matched # NoResource
        /\ Sound(s, path, n) /\ SpellsOut(s)
    BY <1>1, <1>2, <1>3, <1>4, <2>1 DEF Candidates, IsCandidate, ExploringInv, SpelledInv
  <2>3. /\ s \in State /\ ~s.terminated /\ s.cur \in DOMAIN trie /\ s.matched = s.cur
        /\ trie[s.cur] = s.cur /\ FitsTo(s.cur, path, n)
        /\ StandForTo(s.variables, s.cur, path, n) /\ s.literals = Literals(s.cur)
    BY <2>2 DEF Sound, SpellsOut
  <2>4. s.cur \in Node /\ s.variables \in Seq(Component)
    BY <2>3 DEF State
  <2>5. Len(s.variables) = Variables(s.cur)
    BY <1>2, <2>3, <2>4, ParametersCounted DEF FitsTo
  <2>6. Fits(s.cur, path)
    BY <1>1, <1>2, <2>3 DEF FitsTo, Fits
  <2>7. s.cur \in Entered
    BY <2>2, <2>3 DEF Entered
  <2> QED
    BY <2>1, <2>3, <2>4, <2>5, <2>6, <2>7
<1>5. PICK k \in Candidates(states) : first = states[k]
  BY <1>1, <1>2, FirstInOrder
<1>6. t \in search.known /\ Fits(t, path) /\ t \in Node /\ t # NoResource /\ Len(t) = n
  BY <1>1, Nodes DEF IsBest, SearchInv, Call, Fits
<1>7. CASE n = 0
  <2>1. states[k].cur \in Node /\ Len(states[k].cur) = 0 /\ states[k].matched = states[k].cur
    BY <1>1, <1>4, <1>7 DEF Fits
  <2>2. states[k].cur = <<>> /\ t = <<>>
    BY <1>6, <1>7, <2>1 DEF Node
  <2> QED
    BY <1>5, <2>1, <2>2
<1>8. CASE n # 0
  <2> DEFINE best == {i \in Candidates(states) : states[i].cur = t}
  <2>1. PICK i \in DOMAIN states : Follows(states[i], t, n)
    BY <1>1, <1>2, <1>3, <1>6 DEF ExploringInv
  <2>2. states[i].cur = t /\ states[i].matched = t
    BY <1>6, <1>8, <2>1, SubSeqFull DEF Follows, Node
  <2>3. best # {}
    BY <1>6, <2>1, <2>2 DEF Candidates, IsCandidate
  <2>4. ASSUME NEW b \in best, NEW c \in Candidates(states)
        PROVE  /\ ~Before(states[c], states[b])
               /\ c \notin best => Before(states[b], states[c])
    <3>1. PICK s, u : s = states[b] /\ u = states[c]
      OBVIOUS
    <3>2. /\ s \in State /\ s.literals = Literals(s.cur) /\ Len(s.variables) = Variables(s.cur)
          /\ u \in State /\ u.literals = Literals(u.cur) /\ Len(u.variables) = Variables(u.cur)
          /\ u.cur \in Entered /\ Fits(u.cur, path) /\ s.cur = t
      BY <1>4, <2>4, <3>1
    <3>3. CASE u.cur = t
      BY <2>4, <3>1, <3>2, <3>3, PreferredComesBefore
    <3>4. CASE u.cur # t
      <4>1. Preferred(s.cur, u.cur)
        BY <1>1, <3>2, <3>4 DEF IsBest
      <4> QED
        BY <2>4, <3>1, <3>2, <3>4, <4>1, PreferredComesBefore
    <3> QED
      BY <3>3, <3>4
  <2> HIDE DEF best
  <2>5. best \subseteq Candidates(states)
    BY DEF best
  <2>6. PICK b \in best : first = states[b]
    <3>1. states \in Seq(State) /\ first \in First(states)
      BY <1>1, <1>2
    <3>2. \A c \in best, d \in Candidates(states) :
            ~Before(states[d], states[c]) /\ (d \notin best => Before(states[c], states[d]))
      BY <2>4
    <3> QED
      BY <2>3, <2>5, <3>1, <3>2, BestComesFirst
  <2> QED
    BY <1>4, <2>5, <2>6 DEF best
<1> QED
  BY <1>7, <1>8

PreferenceInv ==
  /\ search.phase = "exploring" => SpelledInv(search)
  /\ BestIsReturned

\* Every step keeps it; that more resources are entered makes fewer the best.
LEMMA StepPreference ==
  RegistryInv /\ SearchInv /\ PreferenceInv /\ [Next]_vars => PreferenceInv'
<1> SUFFICES ASSUME RegistryInv, SearchInv, PreferenceInv, [Next]_vars
             PROVE  PreferenceInv'
  OBVIOUS
<1>1. Entered \subseteq Entered'
  BY OnlyGrows DEF Grown, Entered
<1>2. ASSUME UNCHANGED search
      PROVE  PreferenceInv'
  <2>1. BestIsReturned'
    <3> SUFFICES ASSUME search.phase = "matched", NEW t \in search.known, Fits(t, search.path),
                        \A r \in Entered' \ {t} : Fits(r, search.path) => Preferred(t, r)
                 PROVE  search.resource = t
      BY <1>2 DEF BestIsReturned
    <3>1. \A r \in Entered \ {t} : Fits(r, search.path) => Preferred(t, r)
      BY <1>1
    <3> QED
      BY <3>1 DEF PreferenceInv, BestIsReturned
  <2>2. (search.phase = "exploring" => SpelledInv(search))'
    BY <1>2 DEF PreferenceInv, SpelledInv
  <2> QED
    BY <2>1, <2>2 DEF PreferenceInv
<1>3. ASSUME NEW path \in Paths, Match(path)
      PROVE  PreferenceInv'
  <2>1. search' = [NotMatching EXCEPT !.phase = "exploring", !.path = path,
                                      !.known = ToSet(resources), !.states = <<FirstState>>]
    BY <1>3 DEF Match
  <2>2. search'.phase = "exploring" /\ search'.states = <<FirstState>> /\ search'.add = <<>>
    BY <2>1 DEF NotMatching
  <2>3. SpellsOut(FirstState)
    BY LiteralsGrow DEF SpellsOut, FirstState
  <2>4. SpelledInv(search')
    BY <2>2, <2>3 DEF SpelledInv
  <2> QED
    BY <2>2, <2>4 DEF PreferenceInv, BestIsReturned
<1>4. CASE MatchComponent
  <2>1. /\ search \in Call /\ search.phase = "exploring" /\ search.depth < Len(search.path)
        /\ search.next \in 1..Len(search.states) /\ SpelledInv(search)
        /\ search' = Advance(search)
    BY <1>4 DEF MatchComponent, Exploring, SearchInv, ExploringInv, PreferenceInv
  <2>2. SpelledInv(search')
    BY <2>1, AdvanceSpelled
  <2>3. search'.phase = "exploring"
    BY <2>1 DEF Advance, Call
  <2> QED
    BY <2>2, <2>3 DEF PreferenceInv, BestIsReturned
<1>5. CASE Matches
  <2>1. PICK first \in First(search.states) :
          search' = [search EXCEPT !.phase = "matched", !.resource = first.matched,
                                   !.invocable = first.cur \in bound,
                                   !.parameters = first.variables]
    BY <1>5 DEF Matches
  <2>2. search \in Call /\ Explored /\ SpelledInv(search)
    BY <1>5 DEF Matches, SearchInv, PreferenceInv, Explored
  <2>3. /\ search'.phase = "matched" /\ search'.resource = first.matched
        /\ search'.known = search.known /\ search'.path = search.path
    BY <2>1, <2>2 DEF Call
  <2>4. ASSUME NEW t \in search.known, Fits(t, search.path),
               \A r \in Entered' \ {t} : Fits(r, search.path) => Preferred(t, r)
        PROVE  first.matched = t
    <3>1. IsBest(t, search.path)
      BY <1>1, <2>4 DEF IsBest
    <3> QED
      BY <2>2, <3>1, BestIsFirst
  <2>5. BestIsReturned'
    BY <2>3, <2>4 DEF BestIsReturned
  <2> QED
    BY <2>3, <2>5 DEF PreferenceInv
<1>6. CASE NoMatch \/ MatchRaces \/ Return
  <2>1. search'.phase \in {"unmatched", "undefined", "idle"}
    BY <1>6 DEF NoMatch, MatchRaces, Return, NotMatching, SearchInv, Call
  <2> QED
    BY <2>1 DEF PreferenceInv, BestIsReturned
<1>7. CASE Adding \/ \E template \in Templates : AddResource(template)
  BY <1>2, <1>7 DEF Adding, AddResource, Walk, SetResource, SetMethods, Collision
<1>8. CASE Clear \/ ClearVisit \/ ClearDelete
  BY <1>2, <1>8 DEF Clear, ClearVisit, ClearDelete
<1>9. CASE UNCHANGED vars
  BY <1>2, <1>9 DEF vars
<1> QED
  BY <1>3, <1>4, <1>5, <1>6, <1>7, <1>8, <1>9 DEF Next, Looking

\* A resource that was known when match was called and is preferred to every other
\* that fits is the one returned, for any resources and whatever is added
\* meanwhile.
THEOREM BestMatchReturned == Spec => []BestIsReturned
<1>1. Init => PreferenceInv
  BY DEF Init, NotMatching, PreferenceInv, BestIsReturned
<1>2. RegistryInv /\ SearchInv /\ PreferenceInv /\ [Next]_vars => PreferenceInv'
  BY StepPreference
<1>3. PreferenceInv => BestIsReturned
  BY DEF PreferenceInv
<1> QED
  BY <1>1, <1>2, <1>3, SearchInvariant, PTL DEF Spec

-----------------------------------------------------------------------------
(***************************************************************************)
(* The clear of the trie: ClearedChildrenFirst.                            *)
(*                                                                         *)
(* Where a node stands in the search says how far its children are: none   *)
(* of them has been reached while it waits, and all are above it on the    *)
(* stack or gone once it has been visited. That the search comes to every  *)
(* node needs no induction over the trie: of a node it has not reached,    *)
(* one that is above it in the trie waits, and a visit passes the wait on  *)
(* to the next node on the way.                                            *)
(*                                                                         *)
(* The head is not deleted, but it leaves the stack as the others do: what *)
(* is said of those deleted is said of those popped, it among them.        *)
(***************************************************************************)

-----------------------------------------------------------------------------
(***************************************************************************)
(* The inductive invariant.                                                *)
(***************************************************************************)
Entry == [node : Node, visited : BOOLEAN]

Clearing == [stack : Seq(Entry), forgotten : SUBSET Node, deleted : Seq(Node)]

OnStack(stack, node) == \E i \in DOMAIN stack : stack[i].node = node
Waits(stack, node) == \E i \in DOMAIN stack : stack[i].node = node /\ ~stack[i].visited
Visited(stack, node) == \E i \in DOMAIN stack : stack[i].node = node /\ stack[i].visited
Gone(popped, node) == \E i \in DOMAIN popped : popped[i] = node

\* The nodes on the stack and those popped are different nodes of the trie.
EachOnce(stack, popped) ==
  /\ \A i \in DOMAIN stack : stack[i].node \in DOMAIN trie /\ ~Gone(popped, stack[i].node)
  /\ \A i, j \in DOMAIN stack : stack[i].node = stack[j].node => i = j
  /\ \A i \in DOMAIN popped : popped[i] \in DOMAIN trie
  /\ IsInjective(popped)

\* The children of a node that was visited are popped, or above it on the stack.
ChildrenAbove(stack, popped) ==
  \A i \in DOMAIN stack :
    stack[i].visited =>
      \A child \in Children(stack[i].node) :
        Gone(popped, child) \/ \E j \in DOMAIN stack : i < j /\ stack[j].node = child

ChildrenBefore(popped) ==
  \A i \in DOMAIN popped :
    \A child \in Children(popped[i]) : \E j \in 1..(i - 1) : popped[j] = child

\* The head is the first on the stack, and the last to leave it.
HeadBelow(stack) == stack # <<>> => stack[1].node = Head_

\* Only a visit puts a node on the stack.
ParentsVisited(stack, popped) ==
  \A node \in DOMAIN trie :
    node # Head_ /\ (OnStack(stack, node) \/ Gone(popped, node)) =>
      Visited(stack, Front(node)) \/ Gone(popped, Front(node))

\* A node that has not been reached will be: one of those above it waits.
Reached(stack, popped) ==
  \A node \in DOMAIN trie :
    \/ OnStack(stack, node) \/ Gone(popped, node)
    \/ \E k \in 0..(Len(node) - 1) : Waits(stack, SubSeq(node, 1, k))

SearchedInv(stack, popped) ==
  /\ stack \in Seq(Entry) /\ popped \in Seq(Node)
  /\ EachOnce(stack, popped)
  /\ ChildrenAbove(stack, popped)
  /\ ChildrenBefore(popped)
  /\ HeadBelow(stack)
  /\ ParentsVisited(stack, popped)

\* A node forgets its children when it is visited.
Forgetful(stack, popped, forgotten) ==
  \A node : node \in forgotten <=> Visited(stack, node) \/ Gone(popped, node)

\* The nodes that were on the stack: those deleted, and at the end the head.
Popped(clear) ==
  IF clear.stack = <<>> /\ clear # NotClearing THEN Append(clear.deleted, Head_)
  ELSE clear.deleted

\* clear has the matcher to itself.
AloneInv == ~Alive => registrar = Idle /\ ~Matching

ClearingInv ==
  /\ clearing \in Clearing
  /\ SearchedInv(clearing.stack, Popped(clearing))
  /\ Forgetful(clearing.stack, Popped(clearing), clearing.forgotten)
  /\ ~Alive => Reached(clearing.stack, Popped(clearing))

\* The search will have come to every node.
CoversTrie(clear) ==
  /\ clear \in Clearing
  /\ SearchedInv(clear.stack, Popped(clear))
  /\ Forgetful(clear.stack, Popped(clear), clear.forgotten)
  /\ Reached(clear.stack, Popped(clear))

ClearedInv ==
  /\ IsFiniteSet(DOMAIN trie)
  /\ AloneInv
  /\ ClearingInv

-----------------------------------------------------------------------------
(***************************************************************************)
(* Facts about nodes and their children.                                   *)
(***************************************************************************)

\* The children of a node can be put in a sequence, each once.
LEMMA ChildrenListed ==
  ASSUME NEW S, IsFiniteSet(S)
  PROVE  LET list == SetToSeq(S)
         IN  /\ list \in Seq(S)
             /\ \A i, j \in DOMAIN list : list[i] = list[j] => i = j
             /\ \A x \in S : \E i \in DOMAIN list : list[i] = x
<1>1. PICK n : n = Cardinality(S)
  OBVIOUS
<1>2. n \in Nat /\ ExistsBijection(1..n, S)
  BY <1>1, FS_CardinalityType
<1>3. PICK list : list = SetToSeq(S)
  OBVIOUS
<1>4. \E f \in [1..n -> S] : IsInjective(f)
  BY <1>2 DEF ExistsBijection, Bijection, Injection
<1>5. list \in [1..n -> S] /\ IsInjective(list)
  BY <1>1, <1>3, <1>4 DEF SetToSeq
<1>6. list \in Injection(1..n, S)
  BY <1>5 DEF Injection
<1>7. IsFiniteSet(1..n) /\ Cardinality(1..n) = n
  BY <1>2, FS_Interval
<1>8. list \in Surjection(1..n, S)
  BY <1>1, <1>6, <1>7, FS_Injection
<1>9. \A x \in S : \E i \in 1..n : list[i] = x
  BY <1>8 DEF Surjection
<1>10. list \in Seq(S) /\ DOMAIN list = 1..n
  BY <1>2, <1>5
<1> QED
  BY <1>3, <1>5, <1>9, <1>10 DEF IsInjective

\* The next node on the way to one below is a child.
LEMMA NextIsChild ==
  ASSUME TrieInv, NEW node \in DOMAIN trie, NEW k \in 0..(Len(node) - 1)
  PROVE  SubSeq(node, 1, k + 1) \in Children(SubSeq(node, 1, k))
<1>1. node \in Node /\ Len(node) \in Nat /\ k \in Nat /\ k + 1 \in 0..Len(node) /\ k \in 0..(k + 1)
  BY DEF TrieInv, Node
<1>2. PICK child : child = SubSeq(node, 1, k + 1)
  OBVIOUS
<1>3. child \in DOMAIN trie
  BY <1>1, <1>2 DEF TrieInv
<1>4. child \in Node /\ Len(child) = k + 1 /\ SubSeq(child, 1, k) = SubSeq(node, 1, k)
  BY <1>1, <1>2, NodesAbove
<1>5. child # Head_
  BY <1>1, <1>4 DEF Head_
<1>6. Front(child) = SubSeq(node, 1, k)
  BY <1>1, <1>4 DEF Front
<1> QED
  BY <1>2, <1>3, <1>5, <1>6 DEF Children

-----------------------------------------------------------------------------
(***************************************************************************)
(* A visit.                                                                *)
(***************************************************************************)

AfterVisit(stack, list) ==
  Front(stack) \o <<[Last(stack) EXCEPT !.visited = TRUE]>>
    \o [i \in DOMAIN list |-> Visit(list[i])]

\* The stack after a visit: the node is visited and its children are above it.
VisitedOn(more, stack, list, n, m) ==
  /\ n \in Nat \ {0} /\ m \in Nat
  /\ more \in Seq(Entry) /\ DOMAIN more = 1..(n + m)
  /\ \A i \in 1..(n - 1) : more[i] = stack[i]
  /\ more[n].node = stack[n].node /\ more[n].visited
  /\ \A i \in 1..m : more[n + i].node = list[i] /\ ~more[n + i].visited

LEMMA VisitedStack ==
  ASSUME NEW stack \in Seq(Entry), stack # <<>>, NEW list \in Seq(Node), NEW more,
         more = AfterVisit(stack, list), NEW n, n = Len(stack), NEW m, m = Len(list)
  PROVE  VisitedOn(more, stack, list, n, m)
<1>1. n = Len(stack) /\ m = Len(list)
  OBVIOUS
<1>2. n \in Nat \ {0} /\ m \in Nat /\ DOMAIN stack = 1..n /\ DOMAIN list = 1..m
  BY <1>1
<1>3. PICK entry : entry = [stack[n] EXCEPT !.visited = TRUE]
  OBVIOUS
<1>4. entry \in Entry /\ entry.node = stack[n].node /\ entry.visited
  <2>1. stack[n] \in Entry
    BY <1>2
  <2> QED
    BY <1>3, <2>1 DEF Entry
<1>5. PICK front : front = Front(stack)
  OBVIOUS
<1>6. front \in Seq(Entry) /\ Len(front) = n - 1 /\ \A i \in 1..(n - 1) : front[i] = stack[i]
  BY <1>1, <1>2, <1>5 DEF Front
<1>7. PICK children : children = [i \in DOMAIN list |-> Visit(list[i])]
  OBVIOUS
<1>8. /\ children \in Seq(Entry) /\ Len(children) = m
      /\ \A i \in 1..m : children[i].node = list[i] /\ ~children[i].visited
  <2>1. ASSUME NEW i \in 1..m
        PROVE  children[i] \in Entry /\ children[i].node = list[i] /\ ~children[i].visited
    <3>1. children[i] = Visit(list[i])
      BY <1>2, <1>7
    <3>2. list[i] \in Node
      BY <1>2
    <3> QED
      BY <3>1, <3>2 DEF Visit, Entry
  <2>2. children \in [1..m -> Entry]
    BY <1>2, <1>7, <2>1
  <2>3. children \in Seq(Entry) /\ Len(children) = m
    BY <1>2, <2>2
  <2> QED
    BY <2>1, <2>3
<1>9. PICK upto : upto = front \o <<entry>>
  OBVIOUS
<1>10. /\ upto \in Seq(Entry) /\ Len(upto) = n /\ upto[n] = entry
       /\ \A i \in 1..(n - 1) : upto[i] = stack[i]
  <2>1. upto = Append(front, entry)
    BY <1>4, <1>6, <1>9, AppendIsConcat
  <2> QED
    BY <1>2, <1>4, <1>6, <2>1
<1>11. more = upto \o children
  BY <1>1, <1>3, <1>5, <1>7, <1>9 DEF Last, AfterVisit
<1>12. /\ more \in Seq(Entry) /\ Len(more) = n + m
       /\ \A i \in 1..(n + m) : more[i] = IF i <= n THEN upto[i] ELSE children[i - n]
  <2>1. upto \in Seq(Entry) /\ children \in Seq(Entry)
    BY <1>8, <1>10
  <2>2. /\ upto \o children \in Seq(Entry)
        /\ Len(upto \o children) = Len(upto) + Len(children)
        /\ \A i \in 1..(Len(upto) + Len(children)) :
             (upto \o children)[i] = IF i <= Len(upto) THEN upto[i] ELSE children[i - Len(upto)]
    BY ONLY <2>1, ConcatProperties, Zenon
  <2>3. Len(upto) = n /\ Len(children) = m
    BY <1>8, <1>10
  <2> QED
    BY ONLY <1>11, <2>2, <2>3, Zenon
<1>13. DOMAIN more = 1..(n + m)
  BY <1>12
<1>14. ASSUME NEW i \in 1..(n - 1)
       PROVE  more[i] = stack[i]
  <2>1. i \in 1..(n + m) /\ i <= n
    BY <1>2
  <2> QED
    BY <1>10, <1>12, <2>1
<1>15. more[n] = entry
  <2>1. n \in 1..(n + m) /\ n <= n
    BY <1>2
  <2> QED
    BY <1>10, <1>12, <2>1
<1>16. ASSUME NEW i \in 1..m
       PROVE  more[n + i] = children[i]
  <2>1. n + i \in 1..(n + m) /\ ~(n + i <= n) /\ (n + i) - n = i
    BY <1>2
  <2> QED
    BY <1>12, <2>1
<1> QED
  <2>1. more[n].node = stack[n].node /\ more[n].visited
    BY <1>4, <1>15
  <2>2. \A i \in 1..m : more[n + i].node = list[i] /\ ~more[n + i].visited
    BY <1>8, <1>16
  <2> QED
    BY <1>1, <1>2, <1>12, <1>13, <1>14, <2>1, <2>2, Zenon DEF VisitedOn

LEMMA VisitSearched ==
  ASSUME TrieInv, IsFiniteSet(DOMAIN trie), NEW stack, NEW popped, SearchedInv(stack, popped),
         stack # <<>>, ~Last(stack).visited,
         NEW list, list = SetToSeq(Children(Last(stack).node)),
         NEW more, more = AfterVisit(stack, list)
  PROVE  SearchedInv(more, popped) /\ (Reached(stack, popped) => Reached(more, popped))
<1>1. PICK n, m, top : n = Len(stack) /\ m = Len(list) /\ top = stack[n].node
  OBVIOUS
<1>2. stack \in Seq(Entry) /\ DOMAIN stack = 1..n
  BY <1>1 DEF SearchedInv
<1>3. list = SetToSeq(Children(top)) /\ ~stack[n].visited
  BY <1>1 DEF Last
<1>4. Children(top) \in SUBSET DOMAIN trie /\ Children(top) \subseteq Node
  BY DEF Children, TrieInv
<1>5. /\ list \in Seq(Children(top)) /\ DOMAIN list = 1..m
      /\ \A i, j \in 1..m : list[i] = list[j] => i = j
      /\ \A x \in Children(top) : \E i \in 1..m : list[i] = x
  <2>1. IsFiniteSet(Children(top))
    BY <1>4, FS_Subset
  <2>2. /\ list \in Seq(Children(top))
        /\ \A i, j \in DOMAIN list : list[i] = list[j] => i = j
        /\ \A x \in Children(top) : \E i \in DOMAIN list : list[i] = x
    BY <1>3, <2>1, ChildrenListed
  <2>3. DOMAIN list = 1..m
    BY <1>1, <2>2
  <2> QED
    BY <2>2, <2>3
<1>6. list \in Seq(Node)
  BY <1>4, <1>5
<1>7. /\ n \in Nat \ {0} /\ m \in Nat
      /\ more \in Seq(Entry) /\ DOMAIN more = 1..(n + m)
      /\ \A i \in 1..(n - 1) : more[i] = stack[i]
      /\ more[n].node = stack[n].node /\ more[n].visited
      /\ \A i \in 1..m : more[n + i].node = list[i] /\ ~more[n + i].visited
  <2>1. stack \in Seq(Entry) /\ stack # <<>> /\ list \in Seq(Node) /\ more = AfterVisit(stack, list)
    BY <1>2, <1>6
  <2>2. n = Len(stack) /\ m = Len(list)
    BY <1>1
  <2>3. VisitedOn(more, stack, list, n, m)
    BY ONLY <2>1, <2>2, VisitedStack
  <2> QED
    BY <2>3 DEF VisitedOn
<1>8. /\ n \in 1..n /\ \A i \in 1..n : i \in DOMAIN more /\ more[i].node = stack[i].node
      /\ \A i \in 1..n : i # n => more[i].visited = stack[i].visited
      /\ \A i \in 1..m : n + i \in DOMAIN more
      /\ \A i \in DOMAIN more : i \in 1..n \/ \E j \in 1..m : i = n + j
  <2>1. \A i \in 1..n : i = n \/ i \in 1..(n - 1)
    BY <1>7
  <2>2. \A i \in 1..(n + m) : i \in 1..n \/ (i - n \in 1..m /\ i = n + (i - n))
    BY <1>7
  <2>3. n \in 1..n /\ (\A i \in 1..n : i \in 1..(n + m)) /\ \A i \in 1..m : n + i \in 1..(n + m)
    BY <1>7
  <2>4. /\ \A i \in 1..n : more[i].node = stack[i].node
        /\ \A i \in 1..n : i # n => more[i].visited = stack[i].visited
    BY <1>7, <2>1
  <2> QED
    BY <1>7, <2>2, <2>3, <2>4
<1>9. \A i \in 1..m : list[i] \in Children(top)
  BY <1>1, <1>5
\* A child of the node has not been reached before.
<1>10. ASSUME NEW child \in Children(top)
       PROVE  ~OnStack(stack, child) /\ ~Gone(popped, child)
  <2>1. child \in DOMAIN trie /\ child # Head_ /\ Front(child) = top
    BY DEF Children
  <2>2. ~Visited(stack, top) /\ ~Gone(popped, top)
    BY <1>1, <1>2, <1>3, <1>8 DEF Visited, SearchedInv, EachOnce
  <2> QED
    BY <2>1, <2>2 DEF SearchedInv, ParentsVisited
<1>11. EachOnce(more, popped)
  <2>1. ASSUME NEW i \in DOMAIN more
        PROVE  more[i].node \in DOMAIN trie /\ ~Gone(popped, more[i].node)
    <3>1. CASE i \in 1..n
      BY <1>2, <1>8, <3>1 DEF SearchedInv, EachOnce
    <3>2. CASE \E j \in 1..m : i = n + j
      BY <1>4, <1>7, <1>9, <1>10, <3>2
    <3> QED
      BY <1>8, <3>1, <3>2
  <2>2. ASSUME NEW i \in DOMAIN more, NEW j \in DOMAIN more, more[i].node = more[j].node
        PROVE  i = j
    <3>1. CASE i \in 1..n /\ j \in 1..n
      BY <1>2, <1>8, <2>2, <3>1 DEF SearchedInv, EachOnce
    <3>2. ASSUME NEW k \in 1..n, NEW l \in 1..m, more[k].node = more[n + l].node
          PROVE  FALSE
      <4>1. list[l] \in Children(top) /\ stack[k].node = list[l]
        BY <1>7, <1>8, <1>9, <3>2
      <4> QED
        BY <1>2, <1>10, <4>1 DEF OnStack
    <3>3. CASE \E k, l \in 1..m : i = n + k /\ j = n + l
      <4>1. PICK k \in 1..m, l \in 1..m : i = n + k /\ j = n + l
        BY <3>3
      <4>2. list[k] = list[l]
        BY <1>7, <2>2, <4>1
      <4> QED
        BY <1>5, <4>1, <4>2
    <3> QED
      BY <1>8, <2>2, <3>1, <3>2, <3>3
  <2> QED
    BY <2>1, <2>2 DEF SearchedInv, EachOnce
<1>12. ChildrenAbove(more, popped)
  <2> SUFFICES ASSUME NEW i \in DOMAIN more, more[i].visited,
                      NEW child \in Children(more[i].node)
               PROVE  Gone(popped, child) \/ \E j \in DOMAIN more : i < j /\ more[j].node = child
    BY DEF ChildrenAbove
  <2>1. i \in 1..n
    BY <1>7, <1>8
  <2>2. CASE i = n
    <3>1. child \in Children(top)
      BY <1>1, <1>7, <2>2
    <3>2. PICK j \in 1..m : list[j] = child
      BY <1>5, <3>1
    <3>3. n + j \in DOMAIN more /\ n < n + j /\ more[n + j].node = child
      <4>1. n < n + j
        BY <1>7
      <4> QED
        BY <1>7, <1>8, <3>2, <4>1
    <3> QED
      BY <2>2, <3>3
  <2>3. CASE i # n
    <3>1. stack[i].visited /\ child \in Children(stack[i].node)
      BY <1>8, <2>1, <2>3
    <3>2. Gone(popped, child) \/ \E j \in 1..n : i < j /\ stack[j].node = child
      BY <1>2, <2>1, <3>1 DEF SearchedInv, ChildrenAbove
    <3> QED
      BY <1>8, <3>2
  <2> QED
    BY <2>2, <2>3
<1>13. \A node : Visited(stack, node) => Visited(more, node)
  BY <1>2, <1>3, <1>8 DEF Visited
<1>14. ParentsVisited(more, popped)
  <2> SUFFICES ASSUME NEW node \in DOMAIN trie, node # Head_,
                      OnStack(more, node) \/ Gone(popped, node)
               PROVE  Visited(more, Front(node)) \/ Gone(popped, Front(node))
    BY DEF ParentsVisited
  <2>1. CASE OnStack(stack, node) \/ Gone(popped, node)
    BY <1>13, <2>1 DEF SearchedInv, ParentsVisited
  <2>2. CASE ~(OnStack(stack, node) \/ Gone(popped, node))
    <3>1. PICK i \in DOMAIN more : more[i].node = node
      BY <2>2 DEF OnStack
    <3>2. i \notin 1..n
      BY <1>2, <1>8, <2>2, <3>1 DEF OnStack
    <3>3. PICK j \in 1..m : i = n + j
      BY <1>8, <3>2
    <3>4. node \in Children(top)
      BY <1>7, <1>9, <3>1, <3>3
    <3>5. Front(node) = top
      BY <3>4 DEF Children
    <3> QED
      <4>1. n \in DOMAIN more /\ more[n].node = Front(node) /\ more[n].visited
        BY <1>1, <1>7, <1>8, <3>5
      <4> QED
        BY <4>1 DEF Visited
  <2> QED
    BY <2>1, <2>2
<1>15. ASSUME Reached(stack, popped), NEW node \in DOMAIN trie
       PROVE  \/ OnStack(more, node) \/ Gone(popped, node)
              \/ \E k \in 0..(Len(node) - 1) : Waits(more, SubSeq(node, 1, k))
  <2>1. CASE OnStack(stack, node) \/ Gone(popped, node)
    BY <1>2, <1>8, <2>1 DEF OnStack
  <2>2. CASE \E k \in 0..(Len(node) - 1) : Waits(stack, SubSeq(node, 1, k))
    <3>1. PICK k \in 0..(Len(node) - 1) : Waits(stack, SubSeq(node, 1, k))
      BY <2>2
    <3>2. PICK i \in 1..n : stack[i].node = SubSeq(node, 1, k) /\ ~stack[i].visited
      BY <1>2, <3>1 DEF Waits
    <3>3. CASE i # n
      BY <1>8, <3>2, <3>3 DEF Waits
    <3>4. CASE i = n
      <4>1. PICK child : child = SubSeq(node, 1, k + 1)
        OBVIOUS
      <4>2. child \in Children(top)
        BY <1>1, <3>2, <3>4, <4>1, NextIsChild
      <4>3. PICK j \in 1..m : list[j] = child
        BY <1>5, <4>2
      <4>4. n + j \in DOMAIN more /\ more[n + j].node = child /\ ~more[n + j].visited
        BY <1>7, <1>8, <4>3
      <4>5. node \in Seq(Component \cup {Variable}) /\ Len(node) \in Nat /\ k \in Nat
        BY DEF TrieInv, Node
      <4>6. CASE k + 1 = Len(node)
        <5>1. child = node
          BY <4>1, <4>5, <4>6, SubSeqFull
        <5> QED
          BY <4>4, <5>1 DEF OnStack
      <4>7. CASE k + 1 # Len(node)
        <5>1. k + 1 \in 0..(Len(node) - 1)
          BY <4>5, <4>7
        <5>2. Waits(more, SubSeq(node, 1, k + 1))
          BY <4>1, <4>4 DEF Waits
        <5> QED
          BY <5>1, <5>2
      <4> QED
        BY <4>6, <4>7
    <3> QED
      BY <3>3, <3>4
  <2> QED
    BY <1>15, <2>1, <2>2 DEF Reached
<1>16. Reached(stack, popped) => Reached(more, popped)
  BY <1>15 DEF Reached
<1> QED
  <2>1. 1 \in 1..n /\ stack # <<>>
    BY <1>7
  <2>2. HeadBelow(more)
    BY <1>8, <2>1 DEF HeadBelow, SearchedInv
  <2> QED
    BY <1>7, <1>11, <1>12, <1>14, <1>16, <2>2 DEF SearchedInv

-----------------------------------------------------------------------------
(***************************************************************************)
(* A deletion.                                                             *)
(***************************************************************************)
LEMMA DeleteSearched ==
  ASSUME TrieInv, NEW stack, NEW popped, SearchedInv(stack, popped),
         stack # <<>>, Last(stack).visited,
         NEW less, less = Front(stack), NEW more, more = Append(popped, Last(stack).node)
  PROVE  SearchedInv(less, more) /\ (Reached(stack, popped) => Reached(less, more))
<1>1. PICK n, d, top : n = Len(stack) /\ d = Len(popped) /\ top = stack[n].node
  OBVIOUS
<1>2. /\ stack \in Seq(Entry) /\ DOMAIN stack = 1..n /\ n \in Nat \ {0}
      /\ popped \in Seq(Node) /\ DOMAIN popped = 1..d /\ d \in Nat
      /\ stack[n].visited /\ more = Append(popped, top)
  BY <1>1 DEF SearchedInv, Last
<1>3. top \in DOMAIN trie /\ top \in Node /\ ~Gone(popped, top)
  BY <1>1, <1>2 DEF SearchedInv, EachOnce, TrieInv
<1>4. /\ less \in Seq(Entry) /\ DOMAIN less = 1..(n - 1)
      /\ \A i \in 1..(n - 1) : less[i] = stack[i]
  BY <1>1, <1>2 DEF Front
<1>5. /\ more \in Seq(Node) /\ DOMAIN more = 1..(d + 1)
      /\ more[d + 1] = top /\ \A i \in 1..d : more[i] = popped[i]
  BY <1>1, <1>2, <1>3
<1>6. /\ \A i \in 1..n : i # n => i \in 1..(n - 1)
      /\ \A i \in 1..(n - 1) : i \in 1..n /\ i # n
      /\ \A i \in 1..(d + 1) : i # d + 1 => i \in 1..d
      /\ \A i \in 1..d : i \in 1..(d + 1) /\ i # d + 1
      /\ n \in 1..n /\ d + 1 \in 1..(d + 1)
  BY <1>2
<1>7. ASSUME NEW node
      PROVE  /\ Gone(more, node) <=> Gone(popped, node) \/ node = top
             /\ OnStack(less, node) => OnStack(stack, node) /\ node # top
             /\ OnStack(stack, node) => OnStack(less, node) \/ node = top
             /\ Visited(stack, node) => Visited(less, node) \/ node = top
             /\ Waits(stack, node) => Waits(less, node)
  <2>1. Gone(more, node) <=> Gone(popped, node) \/ node = top
    BY <1>2, <1>5, <1>6 DEF Gone
  <2>2. OnStack(less, node) => OnStack(stack, node) /\ node # top
    BY <1>1, <1>2, <1>4, <1>6 DEF OnStack, SearchedInv, EachOnce
  <2>3. OnStack(stack, node) => OnStack(less, node) \/ node = top
    BY <1>1, <1>2, <1>4, <1>6 DEF OnStack
  <2>4. Visited(stack, node) => Visited(less, node) \/ node = top
    BY <1>1, <1>2, <1>4, <1>6 DEF Visited
  <2>5. Waits(stack, node) => Waits(less, node)
    BY <1>2, <1>4, <1>6 DEF Waits
  <2> QED
    BY <2>1, <2>2, <2>3, <2>4, <2>5
<1>8. EachOnce(less, more)
  <2>1. ASSUME NEW i \in DOMAIN less
        PROVE  less[i].node \in DOMAIN trie /\ ~Gone(more, less[i].node)
    <3>1. i \in 1..n /\ less[i].node = stack[i].node /\ OnStack(less, less[i].node)
      BY <1>4, <1>6 DEF OnStack
    <3> QED
      BY <1>2, <1>7, <3>1 DEF SearchedInv, EachOnce
  <2>2. ASSUME NEW i \in DOMAIN less, NEW j \in DOMAIN less, less[i].node = less[j].node
        PROVE  i = j
    BY <1>2, <1>4, <1>6, <2>2 DEF SearchedInv, EachOnce
  <2>3. ASSUME NEW i \in DOMAIN more
        PROVE  more[i] \in DOMAIN trie
    BY <1>2, <1>3, <1>5, <1>6 DEF SearchedInv, EachOnce
  <2>4. ASSUME NEW i \in DOMAIN more, NEW j \in DOMAIN more, more[i] = more[j]
        PROVE  i = j
    <3>1. \A k \in 1..d : popped[k] # top
      BY <1>2, <1>3 DEF Gone
    <3> QED
      BY <1>2, <1>5, <1>6, <2>4, <3>1 DEF SearchedInv, EachOnce, IsInjective
  <2> QED
    BY <2>1, <2>2, <2>3, <2>4 DEF EachOnce, IsInjective
<1>9. ChildrenAbove(less, more)
  <2> SUFFICES ASSUME NEW i \in DOMAIN less, less[i].visited,
                      NEW child \in Children(less[i].node)
               PROVE  Gone(more, child) \/ \E j \in DOMAIN less : i < j /\ less[j].node = child
    BY DEF ChildrenAbove
  <2>1. i \in 1..n /\ stack[i].visited /\ child \in Children(stack[i].node)
    BY <1>4, <1>6
  <2>2. Gone(popped, child) \/ \E j \in 1..n : i < j /\ stack[j].node = child
    BY <1>2, <2>1 DEF SearchedInv, ChildrenAbove
  <2> QED
    BY <1>1, <1>4, <1>6, <1>7, <2>2
<1>10. ChildrenBefore(more)
  <2> SUFFICES ASSUME NEW i \in DOMAIN more, NEW child \in Children(more[i])
               PROVE  \E j \in 1..(i - 1) : more[j] = child
    BY DEF ChildrenBefore
  <2>1. CASE i = d + 1
    <3>1. child \in Children(stack[n].node)
      BY <1>1, <1>5, <2>1
    <3>2. ~\E j \in 1..n : n < j
      BY <1>2
    <3>3. Gone(popped, child)
      BY <1>2, <1>6, <3>1, <3>2 DEF SearchedInv, ChildrenAbove
    <3>4. PICK j \in 1..d : popped[j] = child
      BY <1>2, <3>3 DEF Gone
    <3>5. j \in 1..(i - 1)
      BY <1>2, <2>1
    <3> QED
      BY <1>5, <3>4, <3>5
  <2>2. CASE i # d + 1
    <3>1. i \in 1..d /\ child \in Children(popped[i])
      BY <1>5, <1>6, <2>2
    <3>2. PICK j \in 1..(i - 1) : popped[j] = child
      BY <1>2, <3>1 DEF SearchedInv, ChildrenBefore
    <3>3. j \in 1..d
      BY <1>2, <3>1
    <3> QED
      BY <1>5, <3>2, <3>3
  <2> QED
    BY <2>1, <2>2
<1>11. ParentsVisited(less, more)
  <2> SUFFICES ASSUME NEW node \in DOMAIN trie, node # Head_,
                      OnStack(less, node) \/ Gone(more, node)
               PROVE  Visited(less, Front(node)) \/ Gone(more, Front(node))
    BY DEF ParentsVisited
  <2>1. OnStack(stack, node) \/ Gone(popped, node)
    <3>1. OnStack(stack, top)
      BY <1>1, <1>2, <1>6 DEF OnStack
    <3> QED
      BY <1>7, <3>1
  <2>2. Visited(stack, Front(node)) \/ Gone(popped, Front(node))
    BY <2>1 DEF SearchedInv, ParentsVisited
  <2> QED
    BY <1>7, <2>2
<1>12. Reached(stack, popped) => Reached(less, more)
  <2> SUFFICES ASSUME Reached(stack, popped), NEW node \in DOMAIN trie
               PROVE  \/ OnStack(less, node) \/ Gone(more, node)
                      \/ \E k \in 0..(Len(node) - 1) : Waits(less, SubSeq(node, 1, k))
    BY DEF Reached
  <2> QED
    BY <1>7 DEF Reached
<1> QED
  <2>1. less # <<>> => 1 \in 1..(n - 1)
    BY <1>2, <1>4
  <2>2. HeadBelow(less)
    BY <1>4, <2>1 DEF HeadBelow, SearchedInv
  <2> QED
    BY <1>4, <1>5, <1>8, <1>9, <1>10, <1>11, <1>12, <2>2 DEF SearchedInv

-----------------------------------------------------------------------------
(***************************************************************************)
(* The steps, and the theorem.                                             *)
(***************************************************************************)

\* While the matcher is not being cleared there is nothing to say.
LEMMA AliveCleared == Alive => ClearingInv
<1> SUFFICES ASSUME Alive PROVE ClearingInv
  OBVIOUS
<1>1. PICK empty : empty = <<>>
  OBVIOUS
<1>2. /\ clearing = [stack |-> empty, forgotten |-> {}, deleted |-> empty] /\ clearing = NotClearing
      /\ empty \in Seq(Entry) /\ empty \in Seq(Node) /\ DOMAIN empty = {}
  BY <1>1 DEF Alive, NotClearing
<1>3. SearchedInv(empty, empty)
  BY <1>1, <1>2 DEF SearchedInv, EachOnce, ChildrenAbove, ChildrenBefore, ParentsVisited, OnStack, Gone,
                    IsInjective, HeadBelow
<1>4. Popped(clearing) = empty
  BY <1>2 DEF Popped
<1>5. Forgetful(empty, empty, {})
  BY <1>2 DEF Forgetful, Visited, Gone
<1> QED
  BY <1>2, <1>3, <1>4, <1>5 DEF ClearingInv, Clearing

\* The search begins with the head, from which every node can be reached.
LEMMA ClearCleared ==
  ASSUME TrieInv, Clear
  PROVE  CoversTrie(clearing')
<1>1. PICK stack, popped : stack = <<Visit(Head_)>> /\ popped = <<>>
  OBVIOUS
<1>2. clearing' = [stack |-> stack, forgotten |-> {}, deleted |-> popped]
  BY <1>1 DEF Clear, Alive, NotClearing
<1>3. /\ Visit(Head_) \in Entry /\ Visit(Head_).node = Head_ /\ ~Visit(Head_).visited
  BY Nodes DEF Visit, Entry
<1>4. /\ stack \in Seq(Entry) /\ DOMAIN stack = {1} /\ stack[1] = Visit(Head_)
      /\ popped \in Seq(Node) /\ DOMAIN popped = {}
  BY <1>1, <1>3
<1>5. Head_ \in DOMAIN trie
  BY DEF TrieInv
<1>6. \A node : ~Gone(popped, node) /\ (OnStack(stack, node) <=> node = Head_)
  BY <1>3, <1>4 DEF Gone, OnStack
<1>7. SearchedInv(stack, popped)
  BY <1>3, <1>4, <1>5, <1>6 DEF SearchedInv, EachOnce, ChildrenAbove, ChildrenBefore,
                              ParentsVisited, IsInjective, HeadBelow
<1>8. ASSUME NEW node \in DOMAIN trie
      PROVE  \/ OnStack(stack, node) \/ Gone(popped, node)
             \/ \E k \in 0..(Len(node) - 1) : Waits(stack, SubSeq(node, 1, k))
  <2>1. node \in Seq(Component \cup {Variable}) /\ Len(node) \in Nat
    BY DEF TrieInv, Node
  <2>2. CASE node = Head_
    BY <1>6, <2>2
  <2>3. CASE node # Head_
    <3>1. 0 \in 0..(Len(node) - 1)
      BY <2>1, <2>3 DEF Head_
    <3>2. SubSeq(node, 1, 0) = Head_
      BY SubSeqEmpty DEF Head_
    <3>3. Waits(stack, Head_)
      BY <1>3, <1>4 DEF Waits
    <3> QED
      BY <3>1, <3>2, <3>3
  <2> QED
    BY <2>2, <2>3
<1>9. Reached(stack, popped)
  BY <1>8 DEF Reached
<1>10. Popped(clearing') = popped
  BY <1>1, <1>2 DEF Popped
<1>11. Forgetful(stack, popped, {})
  BY <1>3, <1>4, <1>6 DEF Forgetful, Visited
<1> QED
  BY <1>2, <1>4, <1>7, <1>9, <1>10, <1>11 DEF CoversTrie, Clearing

\* A step of the search, from a stack that is not empty.
LEMMA SearchCleared ==
  ASSUME TrieInv, ClearedInv, ClearVisit \/ ClearDelete
  PROVE  CoversTrie(clearing')
<1>1. PICK stack, popped, forgotten :
        stack = clearing.stack /\ popped = clearing.deleted /\ forgotten = clearing.forgotten
  OBVIOUS
<1>2. clearing \in Clearing /\ stack # <<>> /\ ~Alive /\ Popped(clearing) = popped
  BY <1>1 DEF ClearedInv, ClearingInv, ClearVisit, ClearDelete, Alive, NotClearing, Popped
<1>3. /\ SearchedInv(stack, popped) /\ Reached(stack, popped) /\ IsFiniteSet(DOMAIN trie)
      /\ Forgetful(stack, popped, forgotten)
  BY <1>1, <1>2 DEF ClearedInv, ClearingInv
<1>4. PICK n, top : n = Len(stack) /\ top = stack[n].node
  OBVIOUS
<1>5. /\ stack \in Seq(Entry) /\ DOMAIN stack = 1..n /\ n \in 1..n /\ 1 \in 1..n
      /\ popped \in Seq(Node) /\ forgotten \subseteq Node
  BY <1>1, <1>2, <1>4 DEF Clearing
<1>6. top \in Node /\ top \in DOMAIN trie /\ ~Gone(popped, top) /\ Last(stack).node = top
  BY <1>3, <1>4, <1>5 DEF SearchedInv, EachOnce, TrieInv, Last
<1>7. CASE ClearVisit
  <2>1. ~stack[n].visited /\ ~Last(stack).visited
    BY <1>1, <1>4, <1>7 DEF ClearVisit, Top, Last
  <2>2. top \notin forgotten
    BY <1>3, <1>4, <1>5, <1>6, <2>1 DEF Forgetful, Visited, SearchedInv, EachOnce
  <2>3. Pushed(top) = Children(top)
    BY <1>1, <2>2 DEF Pushed, LiteralChildren, VariableChild
  <2>4. PICK list : list = SetToSeq(Children(top))
    OBVIOUS
  <2>5. PICK more : more = AfterVisit(stack, list)
    OBVIOUS
  <2>6. SearchedInv(more, popped) /\ Reached(more, popped)
    BY <1>2, <1>3, <1>6, <2>1, <2>4, <2>5, VisitSearched
  <2>7. /\ clearing'.stack = more /\ clearing'.deleted = popped
        /\ clearing'.forgotten = forgotten \cup {top}
        /\ clearing' \in [stack : {more}, forgotten : {forgotten \cup {top}}, deleted : {popped}]
    <3>1. clearing' = [clearing EXCEPT !.stack = more, !.forgotten = forgotten \cup {top}]
      BY <1>1, <1>6, <1>7, <2>3, <2>4, <2>5 DEF ClearVisit, Top, AfterVisit
    <3> QED
      BY <1>1, <1>2, <3>1 DEF Clearing
  <2>8. more \in Seq(Entry)
    BY <2>6 DEF SearchedInv
  <2>9. clearing' \in Clearing
    BY <1>5, <1>6, <2>7, <2>8 DEF Clearing
  <2>10. VisitedOn(more, stack, list, n, Len(list))
    <3>1. list \in Seq(Node)
      <4>1. Children(top) \subseteq DOMAIN trie /\ Children(top) \subseteq Node
        BY DEF Children, TrieInv
      <4>2. IsFiniteSet(Children(top))
        BY <1>3, <4>1, FS_Subset
      <4>3. list \in Seq(Children(top))
        BY <2>4, <4>2, ChildrenListed
      <4> QED
        BY <4>1, <4>3
    <3> QED
      BY <1>2, <1>4, <1>5, <2>5, <3>1, VisitedStack
  <2>11. Forgetful(more, popped, forgotten \cup {top})
    <3>1. /\ n \in 1..(n + Len(list)) /\ DOMAIN more = 1..(n + Len(list))
          /\ more[n].node = top /\ more[n].visited
          /\ \A i \in 1..n : i # n => i \in DOMAIN more /\ more[i] = stack[i]
          /\ \A i \in DOMAIN more : i \notin 1..n => ~more[i].visited
      <4>1. /\ n \in Nat \ {0} /\ Len(list) \in Nat
            /\ DOMAIN more = 1..(n + Len(list))
            /\ \A i \in 1..(n - 1) : more[i] = stack[i]
            /\ more[n].node = stack[n].node /\ more[n].visited
            /\ \A i \in 1..Len(list) : ~more[n + i].visited
        BY <2>10 DEF VisitedOn
      <4>2. \A i \in 1..n : i # n => i \in 1..(n - 1) /\ i \in 1..(n + Len(list))
        BY <4>1
      <4>3. ASSUME NEW i \in 1..(n + Len(list)), i \notin 1..n PROVE ~more[i].visited
        <5>1. i - n \in 1..Len(list) /\ n + (i - n) = i
          BY <4>1, <4>3
        <5> QED
          BY <4>1, <5>1
      <4>4. n \in 1..(n + Len(list))
        BY <4>1
      <4> QED
        BY <1>4, <4>1, <4>2, <4>3, <4>4
    <3>2. ASSUME NEW node
          PROVE  Visited(more, node) <=> Visited(stack, node) \/ node = top
      <4>1. Visited(more, node) => Visited(stack, node) \/ node = top
        <5> SUFFICES ASSUME Visited(more, node) PROVE Visited(stack, node) \/ node = top
          OBVIOUS
        <5>1. PICK i \in DOMAIN more : more[i].node = node /\ more[i].visited
          BY DEF Visited
        <5> QED
          BY <1>5, <3>1, <5>1 DEF Visited
      <4>2. Visited(stack, node) => Visited(more, node)
        BY <1>5, <2>1, <3>1 DEF Visited
      <4>3. node = top => Visited(more, node)
        BY <3>1 DEF Visited
      <4> QED
        BY <4>1, <4>2, <4>3
    <3> QED
      BY <1>3, <3>2 DEF Forgetful
  <2>12. Popped(clearing') = popped
    <3>1. n \in DOMAIN more
      BY <1>5, <2>10 DEF VisitedOn
    <3>2. more # <<>>
      BY <2>8, <3>1
    <3> QED
      BY <2>7, <3>2 DEF Popped
  <2> QED
    BY <2>6, <2>7, <2>9, <2>11, <2>12 DEF CoversTrie
<1>8. CASE ClearDelete
  <2>1. PICK less, more : less = Front(stack) /\ more = Append(popped, top)
    OBVIOUS
  <2>2. stack[n].visited /\ Last(stack).visited
    BY <1>1, <1>4, <1>8 DEF ClearDelete, Top, Last
  <2>3. SearchedInv(less, more) /\ Reached(less, more)
    BY <1>2, <1>3, <1>6, <2>1, <2>2, DeleteSearched
  <2>4. PICK gone : gone = IF top = Head_ THEN popped ELSE Append(popped, top)
    OBVIOUS
  <2>5. /\ clearing'.stack = less /\ clearing'.deleted = gone /\ clearing'.forgotten = forgotten
        /\ clearing' \in [stack : {less}, forgotten : {forgotten}, deleted : {gone}]
    <3>1. clearing' = [clearing EXCEPT !.stack = less, !.deleted = gone]
      BY <1>1, <1>6, <1>8, <2>1, <2>4 DEF ClearDelete, Top
    <3> QED
      BY <1>1, <1>2, <3>1 DEF Clearing
  <2>6. less \in Seq(Entry) /\ gone \in Seq(Node)
    BY <1>5, <1>6, <2>3, <2>4 DEF SearchedInv
  <2>7. clearing' \in Clearing
    BY <1>5, <2>5, <2>6 DEF Clearing
  <2>8. top \in forgotten
    BY <1>3, <1>4, <1>5, <2>2 DEF Forgetful, Visited
  <2>9. top = Head_ <=> less = <<>>
    <3>1. stack[1].node = Head_
      BY <1>2, <1>3 DEF SearchedInv, HeadBelow
    <3>2. top = Head_ <=> n = 1
      BY <1>3, <1>4, <1>5, <3>1 DEF SearchedInv, EachOnce
    <3>3. n \in Nat \ {0}
      BY <1>4, <1>5
    <3>4. Len(less) = n - 1
      BY <1>4, <1>5, <2>1, <3>3 DEF Front
    <3> QED
      BY <2>6, <3>2, <3>3, <3>4
  <2>10. Popped(clearing') = more
    <3>1. clearing' # NotClearing
      BY <2>5, <2>8 DEF NotClearing
    <3> QED
      BY <2>1, <2>4, <2>5, <2>9, <3>1 DEF Popped
  <2>11. Forgetful(less, more, forgotten)
    <3>1. ASSUME NEW node
          PROVE  Visited(less, node) \/ Gone(more, node) <=> Visited(stack, node) \/ Gone(popped, node)
      <4>1. n \in Nat \ {0} /\ DOMAIN less = 1..(n - 1) /\ \A i \in 1..(n - 1) : less[i] = stack[i]
        BY <1>4, <1>5, <2>1 DEF Front
      <4>2. /\ \A i \in 1..n : i = n \/ i \in 1..(n - 1)
            /\ \A i \in 1..(n - 1) : i \in 1..n
        BY <4>1
      <4>3. Visited(less, node) => Visited(stack, node)
        BY <1>5, <4>1, <4>2 DEF Visited
      <4>4. Visited(stack, node) => Visited(less, node) \/ node = top
        BY <1>4, <1>5, <4>1, <4>2 DEF Visited
      <4>5. Visited(stack, top)
        BY <1>4, <1>5, <2>2 DEF Visited
      <4>6. Gone(more, node) <=> Gone(popped, node) \/ node = top
        <5>1. PICK d : d = Len(popped)
          OBVIOUS
        <5>2. /\ d \in Nat /\ DOMAIN popped = 1..d /\ DOMAIN more = 1..(d + 1)
              /\ more[d + 1] = top /\ \A i \in 1..d : more[i] = popped[i]
          BY <1>5, <1>6, <2>1, <5>1
        <5>3. /\ \A i \in 1..(d + 1) : i = d + 1 \/ i \in 1..d
              /\ \A i \in 1..d : i \in 1..(d + 1)
              /\ d + 1 \in 1..(d + 1)
          BY <5>2
        <5> QED
          BY <5>2, <5>3 DEF Gone
      <4> QED
        BY <4>3, <4>4, <4>5, <4>6
    <3> QED
      BY <1>3, <3>1 DEF Forgetful
  <2> QED
    BY <2>3, <2>5, <2>7, <2>10, <2>11 DEF CoversTrie
<1> QED
  BY <1>7, <1>8

\* What is said of the search depends on the nodes alone.
LEMMA SameNodes ==
  ASSUME UNCHANGED trie, NEW stack, NEW popped, SearchedInv(stack, popped)
  PROVE  /\ SearchedInv(stack, popped)'
         /\ Reached(stack, popped) => Reached(stack, popped)'
<1>1. \A node : Children(node)' = Children(node)
  BY DEF Children
<1>2. EachOnce(stack, popped)'
  BY DEF SearchedInv, EachOnce
<1>3. ChildrenAbove(stack, popped)' /\ ChildrenBefore(popped)'
  BY <1>1 DEF SearchedInv, ChildrenAbove, ChildrenBefore
<1>4. ParentsVisited(stack, popped)'
  BY DEF SearchedInv, ParentsVisited
<1>5. Reached(stack, popped) => Reached(stack, popped)'
  BY DEF Reached
<1> QED
  BY <1>2, <1>3, <1>4, <1>5 DEF SearchedInv

\* Resources are added, and the head is there from the start: the trie is finite.
LEMMA StaysFinite == IsFiniteSet(DOMAIN trie) /\ [Next]_vars => IsFiniteSet(DOMAIN trie')
<1> SUFFICES ASSUME IsFiniteSet(DOMAIN trie), [Next]_vars PROVE IsFiniteSet(DOMAIN trie')
  OBVIOUS
<1>1. CASE Walk
  <2>1. DOMAIN trie' = DOMAIN trie \cup {NextNode}
    BY <1>1 DEF Walk
  <2> QED
    BY <2>1, FS_AddElement
<1>2. CASE SetResource
  BY <1>2 DEF SetResource
<1>3. CASE UNCHANGED trie
  BY <1>3
<1> QED
  BY <1>1, <1>2, <1>3
     DEF Next, Adding, Looking, vars, nodes, AddResource, SetMethods, Collision, Match,
         MatchComponent, Matches, NoMatch, MatchRaces, Return, Clear, ClearVisit, ClearDelete

\* Once clear has begun there is no other step.
LEMMA OnlyClears ==
  ASSUME AloneInv, ~Alive, [Next]_vars
  PROVE  ClearVisit \/ ClearDelete \/ UNCHANGED vars
<1>1. registrar.phase = "idle" /\ search.phase = "idle"
  BY DEF AloneInv, Matching, Idle, NotMatching
<1>2. ~Adding
  BY <1>1 DEF Adding, Walk, Walking, SetResource, SetMethods, Binding, Collision, AtTerminal
<1>3. ~Looking /\ ~Return
  BY <1>1 DEF Looking, MatchComponent, Exploring, Matches, NoMatch, Explored, MatchRaces, Return
<1> QED
  BY <1>2, <1>3 DEF Next, AddResource, Match, Clear

LEMMA StepCleared == RegistryInv /\ ClearedInv /\ [Next]_vars => ClearedInv'
<1> SUFFICES ASSUME RegistryInv, ClearedInv, [Next]_vars PROVE ClearedInv'
  OBVIOUS
<1>1. TrieInv
  BY DEF RegistryInv
<1>2. IsFiniteSet(DOMAIN trie')
  BY StaysFinite DEF ClearedInv
<1>3. CASE Clear \/ ClearVisit \/ ClearDelete
  <2>1. UNCHANGED <<trie, registrar, search>>
    BY <1>3 DEF Clear, ClearVisit, ClearDelete, nodes
  <2>2. AloneInv'
    <3>1. registrar = Idle /\ ~Matching
      <4>1. CASE Clear
        BY <4>1 DEF Clear
      <4>2. CASE ClearVisit \/ ClearDelete
        BY <4>2 DEF ClearVisit, ClearDelete, ClearedInv, AloneInv, Alive, NotClearing
      <4> QED
        BY <1>3, <4>1, <4>2
    <3> QED
      BY <2>1, <3>1 DEF AloneInv, Matching
  <2>3. PICK stack, popped, forgotten :
          /\ stack = clearing'.stack /\ popped = Popped(clearing')
          /\ forgotten = clearing'.forgotten
    OBVIOUS
  <2>4. /\ clearing' \in Clearing /\ Forgetful(stack, popped, forgotten)
        /\ SearchedInv(stack, popped) /\ Reached(stack, popped)
    BY <1>1, <1>3, <2>3, ClearCleared, SearchCleared DEF CoversTrie
  <2>5. SearchedInv(stack, popped)' /\ Reached(stack, popped)'
    BY <2>1, <2>4, SameNodes
  <2>6. ClearingInv'
    BY <2>3, <2>4, <2>5 DEF ClearingInv, Popped
  <2> QED
    BY <1>2, <2>2, <2>6 DEF ClearedInv
<1>4. CASE UNCHANGED clearing
  <2>1. CASE Alive
    <3>1. Alive'
      BY <1>4, <2>1 DEF Alive
    <3>2. (Alive => ClearingInv)'
      BY AliveCleared, PTL
    <3> QED
      BY <1>2, <3>1, <3>2 DEF ClearedInv, AloneInv
  <2>2. CASE ~Alive
    <3>1. UNCHANGED vars \/ ClearVisit \/ ClearDelete
      BY <2>2, OnlyClears DEF ClearedInv
    <3>2. CASE UNCHANGED vars
      <4>1. UNCHANGED <<trie, registrar, search, clearing>>
        BY <3>2 DEF vars, nodes
      <4>2. AloneInv'
        BY <4>1 DEF ClearedInv, AloneInv, Alive, Matching
      <4>3. PICK stack, popped, forgotten :
              /\ stack = clearing.stack /\ popped = Popped(clearing)
              /\ forgotten = clearing.forgotten
        OBVIOUS
      <4>4. /\ clearing \in Clearing /\ Forgetful(stack, popped, forgotten)
            /\ SearchedInv(stack, popped) /\ Reached(stack, popped)
        BY <2>2, <4>3 DEF ClearedInv, ClearingInv
      <4>5. SearchedInv(stack, popped)' /\ Reached(stack, popped)'
        BY <4>1, <4>4, SameNodes
      <4>6. ClearingInv'
        BY <4>1, <4>3, <4>4, <4>5 DEF ClearingInv, Popped
      <4> QED
        BY <1>2, <4>2, <4>6 DEF ClearedInv
    <3> QED
      BY <1>3, <3>1, <3>2
  <2> QED
    BY <2>1, <2>2
<1> QED
  BY <1>3, <1>4
     DEF Next, Adding, Looking, vars, nodes, AddResource, Walk, SetResource, SetMethods, Collision,
         Match, MatchComponent, Matches, NoMatch, MatchRaces, Return

\* clear deletes every node, once, and after its children.
THEOREM ClearsAll == Spec => []ClearedChildrenFirst
<1>1. Init => ClearedInv
  <2> SUFFICES ASSUME Init PROVE ClearedInv
    OBVIOUS
  <2>1. Alive
    BY DEF Init, Alive
  <2>2. IsFiniteSet(DOMAIN trie)
    <3>1. DOMAIN trie = {Head_}
      BY DEF Init
    <3> QED
      BY <3>1, FS_Singleton
  <2> QED
    BY <2>1, <2>2, AliveCleared DEF ClearedInv, AloneInv
<1>2. RegistryInv /\ ClearedInv /\ [Next]_vars => ClearedInv'
  BY StepCleared
<1>3. ClearedInv => ClearedChildrenFirst
  <2> SUFFICES ASSUME ClearedInv PROVE ClearedChildrenFirst
    OBVIOUS
  <2>1. PICK stack, deleted, popped :
          stack = clearing.stack /\ deleted = clearing.deleted /\ popped = Popped(clearing)
    OBVIOUS
  <2>2. /\ SearchedInv(stack, popped) /\ (~Alive => Reached(stack, popped))
        /\ Forgetful(stack, popped, clearing.forgotten)
        /\ deleted \in Seq(Node)
    BY <2>1 DEF ClearedInv, ClearingInv, Clearing
  <2>3. IsInjective(popped) /\ \A i \in DOMAIN popped : popped[i] \in DOMAIN trie
    BY <2>2 DEF SearchedInv, EachOnce
  <2>4. popped = deleted \/ popped = Append(deleted, Head_)
    BY <2>1 DEF Popped
  <2>5. /\ DOMAIN deleted \subseteq DOMAIN popped
        /\ \A i \in DOMAIN deleted : popped[i] = deleted[i]
    <3>1. CASE popped = deleted
      BY <3>1
    <3>2. CASE popped = Append(deleted, Head_)
      BY <2>2, <3>2, Nodes
    <3> QED
      BY <2>4, <3>1, <3>2
  <2>6. IsInjective(deleted)
    BY <2>3, <2>5 DEF IsInjective
  <2>7. ASSUME NEW i \in DOMAIN deleted, NEW child \in Children(deleted[i])
        PROVE  \E j \in 1..(i - 1) : deleted[j] = child
    <3>1. PICK j \in 1..(i - 1) : popped[j] = child
      BY <2>2, <2>5 DEF SearchedInv, ChildrenBefore
    <3>2. j \in DOMAIN deleted
      BY <2>2
    <3> QED
      BY <2>5, <3>1, <3>2
  <2>8. \A node : Gone(popped, node) => LiteralChildren(node) = {}
    BY <2>2 DEF Forgetful, LiteralChildren
  <2>9. \A i \in DOMAIN deleted : LiteralChildren(deleted[i]) = {} /\ Gone(popped, deleted[i])
    BY <2>5, <2>8 DEF Gone
  <2>10. ASSUME NEW node, NEW i \in DOMAIN deleted, deleted[i] \in LiteralChildren(node)
         PROVE  FALSE
    <3>1. /\ deleted[i] \in DOMAIN trie /\ deleted[i] # Head_ /\ Front(deleted[i]) = node
          /\ node \notin clearing.forgotten
      BY <2>10 DEF LiteralChildren, Children
    <3>2. Visited(stack, node) \/ Gone(popped, node)
      BY <2>2, <2>9, <3>1 DEF SearchedInv, ParentsVisited
    <3> QED
      BY <2>2, <3>1, <3>2 DEF Forgetful
  <2>11. \A node : LiteralChildren(node) \cap ToSet(deleted) = {}
    BY <2>10 DEF ToSet
  <2>12. ASSUME stack = <<>>, ~Alive
         PROVE  ToSet(deleted) = DOMAIN trie \ {Head_} /\ LiteralChildren(Head_) = {}
    <3>1. \A node : ~OnStack(stack, node) /\ ~Waits(stack, node)
      BY <2>12 DEF OnStack, Waits
    <3>2. \A node \in DOMAIN trie : Gone(popped, node)
      BY <2>2, <2>12, <3>1 DEF Reached
    <3>3. popped = Append(deleted, Head_)
      BY <2>1, <2>12 DEF Popped, Alive
    <3>4. PICK d : d = Len(deleted)
      OBVIOUS
    <3>5. /\ d \in Nat /\ DOMAIN deleted = 1..d /\ DOMAIN popped = 1..(d + 1)
          /\ popped[d + 1] = Head_
      BY <2>2, <3>3, <3>4, Nodes
    <3>6. /\ \A i \in 1..(d + 1) : i = d + 1 \/ i \in 1..d
          /\ \A i \in 1..d : i \in 1..(d + 1) /\ i # d + 1
          /\ d + 1 \in 1..(d + 1)
      BY <3>5
    <3>7. \A i \in DOMAIN deleted : deleted[i] # Head_
      BY <2>3, <2>5, <3>5, <3>6 DEF IsInjective
    <3>8. \A node \in DOMAIN trie \ {Head_} : \E i \in DOMAIN deleted : deleted[i] = node
      BY <2>5, <3>2, <3>5, <3>6 DEF Gone
    <3>9. ToSet(deleted) = DOMAIN trie \ {Head_}
      BY <2>3, <2>5, <3>7, <3>8 DEF ToSet
    <3>10. Gone(popped, Head_)
      BY <3>5, <3>6 DEF Gone
    <3> QED
      BY <2>8, <3>9, <3>10
  <2>13. \A i \in DOMAIN deleted :
           /\ LiteralChildren(deleted[i]) = {}
           /\ \A child \in Children(deleted[i]) : \E j \in 1..(i - 1) : deleted[j] = child
    BY <2>7, <2>9
  <2> QED
    BY <2>1, <2>6, <2>11, <2>12, <2>13 DEF ClearedChildrenFirst
<1> QED
  BY <1>1, <1>2, <1>3, RegistryInvariant, PTL DEF Spec
=============================================================================
