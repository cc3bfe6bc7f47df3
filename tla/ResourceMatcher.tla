-------------------------- MODULE ResourceMatcher --------------------------
(***************************************************************************)
(* The resource matcher (src/src/resource_matcher.cc): a trie of path      *)
(* templates, in which addResource enters a resource and match looks up    *)
(* the resource for a path.                                                *)
(*                                                                         *)
(* Paths and templates are taken as PathComponents splits them.  A node of *)
(* the trie is the sequence of template components that leads to it, a     *)
(* resource is its template, and every {...} is one component, Variable.   *)
(* Letters are numbers in the order of char.                               *)
(*                                                                         *)
(* One thread adds resources while workers match paths, and nothing keeps  *)
(* them apart.  A step is what one of them does to a node or reads of it;  *)
(* where one would insert into a hash table while the other looks in it,   *)
(* what comes of the match is undefined, and it does not return; a pointer *)
(* is read as it was or as it is.  Several matches at a time only read the *)
(* trie, so that one stands for all.                                       *)
(***************************************************************************)
EXTENDS Integers, Sequences, FiniteSets, SequencesExt, FiniteSetsExt

CONSTANTS
  Component,   \* the components of paths: sequences of letters
  Variable,    \* {...} in a template
  NoResource,
  Templates,   \* the resources that may be added
  Paths,       \* the paths that are asked for
  MaxResources \* bound: resources added

Dot == 46   \* '.'

ASSUME MatcherAssumption ==
  /\ Component \subseteq Seq(Nat)
  /\ Variable \notin Component
  /\ NoResource \notin Templates
  /\ Templates \subseteq Seq(Component \cup {Variable})
  /\ Paths \subseteq Seq(Component)
  /\ MaxResources \in Nat

VARIABLES
  trie,        \* the nodes, each with its resource
  bound,       \* the nodes whose methods have been assigned
  resources,   \* resources_
  registrar,   \* the call of addResource: what it adds, how far it got
  search,      \* the call of match: its path, how far it got in the path and in
               \* its states, what is to be added to them, and what it returned
  clearing     \* clear: searchStack, the nodes whose children it has made them
               \* forget, and the nodes it has deleted

nodes == <<trie, bound, resources>>
vars == <<nodes, registrar, search, clearing>>

Head_ == <<>>

Children(node) ==
  {child \in DOMAIN trie : child # Head_ /\ Front(child) = node}

-----------------------------------------------------------------------------
(***************************************************************************)
(* The search states of match.                                             *)
(***************************************************************************)

\* states starts with the head alone.
FirstState ==
  [cur |-> Head_, variables |-> <<>>, matched |-> NoResource, terminated |-> FALSE,
   literals |-> <<>>]

Has(node) == node \in DOMAIN trie

\* (Mutant of ThroughVariable: the variable is kept, not what it stands for.)
KeepsVariable(state, component) ==
  LET child == Append(state.cur, Variable)
  IN  [cur |-> child, variables |-> Append(state.variables, Variable),
       matched |-> trie[child], terminated |-> FALSE,
       literals |-> Append(state.literals, Dot)]

\* The state a variable child adds to the search.
ThroughVariable(state, component) ==
  LET child == Append(state.cur, Variable)
  IN  [cur |-> child,
       variables |-> Append(state.variables, component),
       matched |-> trie[child],
       terminated |-> FALSE,
       literals |-> Append(state.literals, Dot)]

\* (Mutant of ThroughLiteral: the possible match is not reset.)
KeepsPossibleMatch(state, component) ==
  LET child == Append(state.cur, component)
  IN  IF Has(child)
      THEN [state EXCEPT !.cur = child, !.literals = @ \o component,
                         !.matched = IF trie[child] = NoResource THEN @
                                     ELSE trie[child]]
      ELSE [state EXCEPT !.terminated = TRUE]

\* What becomes of a state itself: it follows the literal child or ends.
ThroughLiteral(state, component) ==
  LET child == Append(state.cur, component)
  IN  IF Has(child)
      THEN [state EXCEPT !.cur = child, !.matched = trie[child],
                         !.literals = @ \o component]
      ELSE [state EXCEPT !.matched = NoResource, !.terminated = TRUE]

\* The search states after one more of them has met the component; a round is
\* over with the last one, and what it adds goes to the end.
Advance(call) ==
  LET component == call.path[call.depth + 1]
      state == call.states[call.next]
      splits == ~state.terminated /\ Has(Append(state.cur, Variable))
      moved == [call.states EXCEPT ![call.next] =
                  IF state.terminated THEN state ELSE ThroughLiteral(state, component)]
      added == call.add \o IF splits THEN <<ThroughVariable(state, component)>> ELSE <<>>
  IN  IF call.next < Len(call.states)
      THEN [call EXCEPT !.states = moved, !.add = added, !.next = @ + 1]
      ELSE [call EXCEPT !.states = moved \o added, !.add = <<>>, !.next = 1, !.depth = @ + 1]

\* std::string's operator>.
Greater(s, t) ==
  \E i \in DOMAIN s : /\ i - 1 <= Len(t)
                      /\ SubSeq(s, 1, i - 1) = SubSeq(t, 1, i - 1)
                      /\ i <= Len(t) => s[i] > t[i]

\* (Mutant of Before: the literals are compared the wrong way round.)
BeforeLesser(s, t) ==
  \/ Len(s.variables) > Len(t.variables)
  \/ Len(s.literals) > Len(t.literals)
  \/ Greater(t.literals, s.literals)

\* compare, by which candidates are sorted.
Before(s, t) ==
  \/ Len(s.variables) > Len(t.variables)
  \/ Len(s.literals) > Len(t.literals)
  \/ Greater(s.literals, t.literals)

\* The states that go into candidates.
IsCandidate(state) == state.matched # NoResource

\* What *candidates.begin() may be.  Before is no strict weak order (of two
\* states each may come before the other), so where a candidate is inserted
\* depends on the shape of the tree; but to come first it has to come before
\* the one that did, and it does if it comes before all others.
First(states) ==
  LET candidates == {k \in DOMAIN states : IsCandidate(states[k])}
      earlier(n) == {k \in candidates : k < n}
      first[n \in 0..Len(states)] ==
        IF n = 0 THEN {}
        ELSE IF n \notin candidates THEN first[n - 1]
        ELSE IF earlier(n) = {} THEN {n}
        ELSE {k \in first[n - 1] : \E i \in earlier(n) : ~Before(states[n], states[i])}
             \cup {k \in {n} : \E i \in first[n - 1] : Before(states[k], states[i])}
  IN  {states[k] : k \in candidates \cap first[Len(states)]}

-----------------------------------------------------------------------------
Idle == [phase |-> "idle", template |-> <<>>, depth |-> 0]

NotMatching == [phase |-> "idle", path |-> <<>>, known |-> {}, depth |-> 0,
                states |-> <<>>, next |-> 1, add |-> <<>>,
                resource |-> NoResource, invocable |-> FALSE, parameters |-> <<>>]

NotClearing == [stack |-> <<>>, forgotten |-> {}, deleted |-> <<>>]

Init ==
  /\ trie = [node \in {Head_} |-> NoResource]
  /\ bound = {}
  /\ resources = <<>>
  /\ registrar = Idle
  /\ search = NotMatching
  /\ clearing = NotClearing

Matching == search # NotMatching

Alive == clearing = NotClearing

(***************************************************************************)
(* addResource.                                                            *)
(***************************************************************************)
AddResource(template) ==
  /\ Alive
  /\ registrar = Idle
  /\ Len(resources) < MaxResources
  /\ registrar' = [phase |-> "walking", template |-> template, depth |-> 0]
  /\ UNCHANGED <<nodes, search, clearing>>

Parent == SubSeq(registrar.template, 1, registrar.depth)
NextNode == SubSeq(registrar.template, 1, registrar.depth + 1)

Walking == registrar.phase = "walking" /\ registrar.depth < Len(registrar.template)

\* The next component's node is found or made.
Walk ==
  /\ Walking
  /\ registrar' = [registrar EXCEPT !.depth = @ + 1]
  /\ trie' = [node \in DOMAIN trie \cup {NextNode} |->
                IF Has(node) THEN trie[node] ELSE NoResource]
  /\ UNCHANGED <<bound, resources, search, clearing>>

AtTerminal ==
  /\ registrar.phase = "walking"
  /\ registrar.depth = Len(registrar.template)

\* (Mutant of Collides: a collision is not noticed.)
NeverCollides == FALSE

\* There is already a resource at the terminal node.
Collides == trie[registrar.template] # NoResource

SetResource ==
  /\ AtTerminal
  /\ ~Collides
  /\ trie' = [trie EXCEPT ![registrar.template] = registrar.template]
  /\ registrar' = [registrar EXCEPT !.phase = "binding"]
  /\ UNCHANGED <<bound, resources, search, clearing>>

Binding == registrar.phase = "binding"

SetMethods ==
  /\ Binding
  /\ bound' = bound \cup {registrar.template}
  /\ resources' = Append(resources, registrar.template)
  /\ registrar' = Idle
  /\ UNCHANGED <<trie, search, clearing>>

Collision ==
  /\ AtTerminal
  /\ Collides
  /\ registrar' = Idle
  /\ UNCHANGED <<nodes, search, clearing>>

(***************************************************************************)
(* match.                                                                  *)
(***************************************************************************)
Match(path) ==
  /\ Alive
  /\ ~Matching
  /\ search' = [NotMatching EXCEPT !.phase = "exploring", !.path = path,
                                   !.known = ToSet(resources),
                                   !.states = <<FirstState>>]
  /\ UNCHANGED <<nodes, registrar, clearing>>

Exploring == search.phase = "exploring" /\ search.depth < Len(search.path)

MatchComponent ==
  /\ Exploring
  /\ search' = Advance(search)
  /\ UNCHANGED <<nodes, registrar, clearing>>

Explored == search.phase = "exploring" /\ search.depth = Len(search.path)

Matches ==
  /\ Explored
  /\ \E first \in First(search.states) :
       search' = [search EXCEPT !.phase = "matched", !.resource = first.matched,
                                !.invocable = first.cur \in bound,
                                !.parameters = first.variables]
  /\ UNCHANGED <<nodes, registrar, clearing>>

NoMatch ==
  /\ Explored
  /\ \A i \in DOMAIN search.states : ~IsCandidate(search.states[i])
  /\ search' = [search EXCEPT !.phase = "unmatched"]
  /\ UNCHANGED <<nodes, registrar, clearing>>

\* A literal child is inserted into the node in which one is looked for, or
\* the methods that are copied are being assigned.
MatchRaces ==
  /\ \/ /\ Exploring /\ Walking
        /\ ~Has(NextNode) /\ Last(NextNode) # Variable
        /\ ~search.states[search.next].terminated
        /\ search.states[search.next].cur = Parent
     \/ /\ Explored /\ Binding
        /\ \E first \in First(search.states) : first.cur = registrar.template
  /\ search' = [NotMatching EXCEPT !.phase = "undefined"]
  /\ UNCHANGED <<nodes, registrar, clearing>>

\* The caller is done with what match returned.
Return ==
  /\ search.phase \in {"matched", "unmatched"}
  /\ search' = NotMatching
  /\ UNCHANGED <<nodes, registrar, clearing>>

(***************************************************************************)
(* clear, which the destructor calls: a depth-first search with a stack,   *)
(* on which a node comes back when its children have been pushed.          *)
(***************************************************************************)
Visit(node) == [node |-> node, visited |-> FALSE]

\* What a node's children hold.
LiteralChildren(node) ==
  {child \in Children(node) : Last(child) # Variable /\ node \notin clearing.forgotten}

VariableChild(node) == {child \in Children(node) : Last(child) = Variable}

\* (Mutant of Pushed: the node forgets its children before they are pushed.)
PushedOnceForgotten(node) == VariableChild(node)

Pushed(node) == LiteralChildren(node) \cup VariableChild(node)

Clear ==
  /\ Alive /\ registrar = Idle /\ ~Matching
  /\ clearing' = [clearing EXCEPT !.stack = <<Visit(Head_)>>]
  /\ UNCHANGED <<nodes, registrar, search>>

Top == Last(clearing.stack)

ClearVisit ==
  /\ clearing.stack # <<>>
  /\ ~Top.visited
  /\ LET children == SetToSeq(Pushed(Top.node))
     IN  clearing' = [clearing EXCEPT
           !.stack = Front(@) \o <<[Top EXCEPT !.visited = TRUE]>>
                       \o [i \in DOMAIN children |-> Visit(children[i])],
           !.forgotten = @ \cup {Top.node}]
  /\ UNCHANGED <<nodes, registrar, search>>

ClearDelete ==
  /\ clearing.stack # <<>>
  /\ Top.visited
  /\ clearing' = [clearing EXCEPT
       !.stack = Front(@),
       !.deleted = IF Top.node = Head_ THEN @ ELSE Append(@, Top.node)]
  /\ UNCHANGED <<nodes, registrar, search>>

-----------------------------------------------------------------------------
Adding == Walk \/ SetResource \/ SetMethods \/ Collision

Looking == MatchComponent \/ Matches \/ NoMatch \/ MatchRaces

Next ==
  \/ \E template \in Templates : AddResource(template)
  \/ Adding
  \/ \E path \in Paths : Match(path)
  \/ Looking \/ Return
  \/ Clear \/ ClearVisit \/ ClearDelete

Spec == Init /\ [][Next]_vars

-----------------------------------------------------------------------------
(***************************************************************************)
(* Properties                                                              *)
(***************************************************************************)
Resource == Templates \cup {NoResource}
Node == Seq(Component \cup {Variable})

TypeOK ==
  /\ \A node \in DOMAIN trie : node \in Node /\ trie[node] \in Resource
  /\ bound \subseteq DOMAIN trie
  /\ resources \in Seq(Templates)
  /\ registrar.phase \in {"idle", "walking", "binding"}
  /\ registrar.template \in Node /\ registrar.depth \in 0..Len(registrar.template)
  /\ search.phase \in {"idle", "exploring", "matched", "unmatched", "undefined"}
  /\ search.path \in Seq(Component) /\ search.depth \in 0..Len(search.path)
  /\ search.resource \in Resource /\ search.parameters \in Seq(Component)
  /\ \A i \in DOMAIN search.states :
       /\ search.states[i].matched \in Resource
       /\ search.states[i].variables \in Seq(Component)

\* A template fits a path of as many components if each is the same or a
\* variable.
Fits(template, path) ==
  /\ Len(template) = Len(path)
  /\ \A i \in DOMAIN path : template[i] \in {path[i], Variable}

\* Parameters for a path are the components that the variables of a template
\* stand for, in order: the k-th is where the k-th variable is.
StandFor(parameters, template, path) ==
  \E place \in [DOMAIN parameters -> DOMAIN path] :
    /\ {place[k] : k \in DOMAIN parameters} = {i \in DOMAIN path : template[i] = Variable}
    /\ \A j, k \in DOMAIN parameters : j < k => place[j] < place[k]
    /\ \A k \in DOMAIN parameters : parameters[k] = path[place[k]]

\* Whatever is added meanwhile, match returns a resource that fits the path,
\* with the components its variables stand for, in order; it has its methods
\* if it was known when match was called; and nothing is returned only when no
\* resource known then fits.  Only the empty path, which has no component,
\* matches nothing at all (resource_matcher.cc:146-229).
MatchedFits ==
  /\ search.phase = "matched" =>
       /\ trie[search.resource] = search.resource
       /\ Fits(search.resource, search.path)
       /\ StandFor(search.parameters, search.resource, search.path)
       /\ search.resource \in search.known => search.invocable
  /\ search.phase = "unmatched" =>
       \A t \in search.known : Fits(t, search.path) => t = Head_

Entered == {node \in DOMAIN trie : trie[node] # NoResource}

\* No two resources share a terminal node, and those that have one are those
\* resources_ lists, once each, and the one that is being added: addResource
\* throws on a collision and leaves things as they were
\* (resource_matcher.cc:81-91).
RegisteredOnce ==
  /\ IsInjective(resources)
  /\ bound = ToSet(resources)
  /\ Entered = bound \cup {node \in {registrar.template} : Binding}
  /\ Binding => registrar.template \notin bound

\* The variables and the literals that make one resource preferable.
Literals(template) ==
  FlattenSeq([i \in DOMAIN template |-> IF template[i] = Variable THEN <<Dot>> ELSE template[i]])

Variables(template) == Cardinality({i \in DOMAIN template : template[i] = Variable})

\* A resource t comes before r, and r does not come before t: by no criterion is
\* it worse, and by one it is better.
Preferred(t, r) ==
  /\ Variables(t) >= Variables(r)
  /\ Len(Literals(t)) >= Len(Literals(r))
  /\ ~Greater(Literals(r), Literals(t))
  /\ \/ Variables(t) > Variables(r)
     \/ Len(Literals(t)) > Len(Literals(r))
     \/ Greater(Literals(t), Literals(r))

\* A resource that fits, was known when match was called, and is preferred to
\* every other that fits is the one returned, whatever the order in which the
\* search came to them and whatever is added meanwhile
\* (resource_matcher.cc:200-221).
BestIsReturned ==
  search.phase = "matched" =>
    \A t \in search.known :
      /\ Fits(t, search.path)
      /\ \A r \in Entered \ {t} : Fits(r, search.path) => Preferred(t, r)
      => search.resource = t

\* clear deletes each node but the head once, after its children.  A node has
\* forgotten its literal children before any of them is deleted, so that none
\* refers to one that is gone, and is deleted with none to forget, as ~Node
\* demands (resource_matcher.cc:46-48, 98-134).
ClearedChildrenFirst ==
  /\ IsInjective(clearing.deleted)
  /\ \A i \in DOMAIN clearing.deleted :
       /\ LiteralChildren(clearing.deleted[i]) = {}
       /\ \A child \in Children(clearing.deleted[i]) :
            \E j \in 1..(i - 1) : clearing.deleted[j] = child
  /\ \A node \in DOMAIN trie : LiteralChildren(node) \cap ToSet(clearing.deleted) = {}
  /\ clearing.stack = <<>> /\ ~Alive =>
       /\ ToSet(clearing.deleted) = DOMAIN trie \ {Head_}
       /\ LiteralChildren(Head_) = {}

\* Violated.  Matches are sorted "by the most template matches and then by the
\* aggregate length of non-template components and then lexicographically"
\* (resource_matcher.cc:202-204), but compare goes on to the later criteria when
\* an earlier one says no: for /a/b/aaa it puts /a/b/{} before /{}/{}/aaa, which
\* has more variables and the longer literals (aaa and two dots to a, b and one),
\* because its own, shorter ones are greater as strings.
MostVariablesFirst ==
  search.phase = "matched" =>
    \A t \in search.known :
      Fits(t, search.path) => Variables(t) <= Variables(search.resource)

\* Violated.  A server "immediately begins serving requests for the registered
\* resource" (server.h:49-53), but the resource is entered before its methods
\* are, and a match in between returns it without any
\* (resource_matcher.cc:88-89).
MethodsComeAlong == search.phase = "matched" => search.invocable
=============================================================================
