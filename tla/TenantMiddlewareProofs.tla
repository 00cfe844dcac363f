----------------------- MODULE TenantMiddlewareProofs -----------------------
(***************************************************************************)
(* Proofs about TenantMiddleware, for any requests, tenants, tokens and    *)
(* orders of layers: what a handler may conclude from a bound context, and *)
(* that no stranger passes a layer that knows whom it is asked about.      *)
(***************************************************************************)
EXTENDS TenantMiddleware, TLAPS

\* A bound context is of a tenant of the principal: not only in the handler.
BoundGood(q) ==
    q.context # None /\ q.context.bound =>
        q.user # None /\ is_member("default", q.user, q.context.id)

\* The principal is a member of every tenant that a layer has resolved for it.
ResolvedGood(q) ==
    \A seen \in q.resolved :
        LET m == q.stack[seen[1]].membership IN
        m # "public" => q.user # None /\ is_member(m, q.user, seen[2])

\* A bound context outlives the layer that made it, so the principal must not
\* change under it: the user of a request is always the one of its token.
InTransit(q) ==
    q.at # "done" =>
        /\ q.stack \in Stacks
        /\ "token" \in DOMAIN q.carries
        /\ q.user = None \/ q.user = q.carries.token

LookingUp(q) ==
    q.at = "lookup" => q.layer \in DOMAIN q.stack /\ Layer(q).kind = "tenant"

RequestInv(q) ==
    /\ DOMAIN q = DOMAIN Done
    /\ InTransit(q)
    /\ LookingUp(q)
    /\ BoundGood(q)
    /\ ResolvedGood(q)

IndInv ==
    /\ DOMAIN request = Requests
    /\ \A r \in Requests : RequestInv(request[r])

\* Nobody is a member by the `tenants` claim alone and not by default.
LEMMA DefaultIsWider ==
    ASSUME NEW m \in Memberships, NEW user, NEW id, is_member(m, user, id)
    PROVE  is_member("default", user, id)
BY DEF is_member, tenants_of, Memberships

\* A request that is over satisfies the invariant.
LEMMA DoneInv == RequestInv(Done) /\ RequestInv(Rejected)
BY DEF RequestInv, InTransit, LookingUp, BoundGood, ResolvedGood, Done, Rejected

\* The fields of a request.
LEMMA DoneFields ==
    DOMAIN Done = {"at", "stack", "layer", "carries", "key", "user", "context", "by",
                   "resolved"}
BY DEF Done

\* Passing a request on, with or without its context, keeps the invariant.
LEMMA PassedInv ==
    ASSUME NEW q, RequestInv(q), q.at # "done"
    PROVE  RequestInv(Passed(q)) /\ Passed(q).at # "done"
<1>1. /\ DOMAIN Passed(q) = DOMAIN Done
      /\ Passed(q).at = "layer"
      /\ Passed(q).stack = q.stack /\ Passed(q).carries = q.carries
      /\ Passed(q).user = q.user /\ Passed(q).context = q.context
      /\ Passed(q).resolved = q.resolved
  BY DoneFields DEF Passed, RequestInv
<1> QED
  BY <1>1 DEF RequestInv, InTransit, LookingUp, BoundGood, ResolvedGood

\* So does taking the context away.
LEMMA WithoutContextInv ==
    ASSUME NEW q, RequestInv(q)
    PROVE  RequestInv(WithoutContext(q)) /\ WithoutContext(q).at = q.at
<1> DEFINE w == WithoutContext(q)
<1>1. /\ DOMAIN w = DOMAIN Done
      /\ w.at = q.at /\ w.stack = q.stack /\ w.carries = q.carries
      /\ w.user = q.user /\ w.layer = q.layer /\ w.context = None
      /\ w.resolved = q.resolved
  BY DoneFields DEF WithoutContext, RequestInv
<1> HIDE DEF w
<1>2. RequestInv(w)
  BY <1>1 DEF RequestInv, InTransit, LookingUp, BoundGood, ResolvedGood, Layer
<1> QED
  BY <1>1, <1>2 DEF w

\* So does a layer that resolves no tenant.
LEMMA UnresolvedInv ==
    ASSUME NEW q, RequestInv(q), q.at # "done"
    PROVE  RequestInv(Unresolved(q))
BY DoneInv, WithoutContextInv, PassedInv DEF Unresolved

\* A stack, layer by layer.
LEMMA StackLayers ==
    ASSUME NEW stack \in Stacks
    PROVE  /\ Len(stack) \in Nat /\ DOMAIN stack = 1 .. Len(stack)
           /\ \A i \in DOMAIN stack : stack[i] \in LayerType
BY StacksAssumption

\* A layer that looks up a tenant has one of the memberships, or none.
LEMMA LayerMembership ==
    ASSUME NEW q, RequestInv(q), q.at = "lookup"
    PROVE  Layer(q).membership \in Memberships \cup {"public"}
<1>1. q.stack \in Stacks /\ q.layer \in DOMAIN q.stack /\ Layer(q).kind = "tenant"
  BY DEF RequestInv, InTransit, LookingUp
<1>2. Layer(q) \in LayerType
  BY <1>1, StackLayers DEF Layer
<1> QED
  BY <1>1, <1>2 DEF LayerType

\* So does one that resolves a tenant: it lets members through, and anybody if it
\* is for public pages, but then the context is not bound.
LEMMA BoundInv ==
    ASSUME NEW q, RequestInv(q), q.at = "lookup", NEW id
    PROVE  RequestInv(Bound([q EXCEPT !.resolved = @ \cup {<<q.layer, id>>}], id))
<1> DEFINE s == [q EXCEPT !.resolved = @ \cup {<<q.layer, id>>}]
           m == Layer(q).membership
<1>1. /\ DOMAIN s = DOMAIN Done
      /\ s.at = q.at /\ s.stack = q.stack /\ s.carries = q.carries
      /\ s.user = q.user /\ s.layer = q.layer
      /\ s.resolved = q.resolved \cup {<<q.layer, id>>}
      /\ Layer(s) = Layer(q)
  BY DoneFields DEF RequestInv, Layer
<1>2. m \in Memberships \cup {"public"}
  BY LayerMembership
<1>3. ASSUME NEW c, c.bound => q.user # None /\ is_member("default", q.user, c.id),
             m # "public" => q.user # None /\ is_member(m, q.user, id)
      PROVE  RequestInv(Passed(WithContext(s, c)))
  <2> DEFINE p == Passed(WithContext(s, c))
  <2>1. /\ DOMAIN p = DOMAIN Done
        /\ p.at = "layer" /\ p.stack = q.stack /\ p.carries = q.carries
        /\ p.user = q.user /\ p.context = c
        /\ p.resolved = q.resolved \cup {<<q.layer, id>>}
    BY <1>1, DoneFields DEF Passed, WithContext
  <2> HIDE DEF p
  <2>2. InTransit(p) /\ LookingUp(p)
    BY <2>1 DEF RequestInv, InTransit, LookingUp
  <2>3. BoundGood(p)
    BY <1>3, <2>1 DEF BoundGood
  <2>4. ResolvedGood(p)
    BY <1>3, <2>1 DEF ResolvedGood, RequestInv, Layer
  <2> QED
    BY <2>1, <2>2, <2>3, <2>4 DEF RequestInv, p
<1>4. CASE m = "public"
  <2>1. RequestInv(Passed(WithContext(s, with_tenant(id))))
    BY <1>3, <1>4 DEF with_tenant
  <2> QED
    BY <1>1, <1>4, <2>1 DEF Bound
<1>5. CASE m # "public" /\ q.user # None /\ is_member(m, q.user, id)
  <2>1. is_member("default", q.user, id)
    BY <1>2, <1>5, DefaultIsWider
  <2>2. RequestInv(Passed(WithContext(s, bound_to_principal(id))))
    BY <1>3, <1>5, <2>1 DEF bound_to_principal
  <2> QED
    BY <1>1, <1>5, <2>2 DEF Bound
<1>6. CASE m # "public" /\ ~(q.user # None /\ is_member(m, q.user, id))
  BY <1>1, <1>6, DoneInv DEF Bound
<1> QED
  BY <1>4, <1>5, <1>6

-----------------------------------------------------------------------------
(* The steps.                                                              *)

\* A request that satisfies the invariant takes the place of one that did.
LEMMA BecomesInv ==
    ASSUME IndInv, NEW r \in Requests, NEW q, RequestInv(q), Becomes(r, q)
    PROVE  IndInv'
<1>1. DOMAIN request' = Requests
  BY DEF IndInv, Becomes
<1>2. \A s \in Requests : RequestInv(request'[s])
  BY DEF IndInv, Becomes
<1>3. \A s \in Requests : RequestInv(request[s])'
  BY <1>2 DEF RequestInv, InTransit, LookingUp, BoundGood, ResolvedGood, Layer, Done
<1> QED
  BY <1>1, <1>3 DEF IndInv

\* A request arrives with the context the server has preset, which is not bound.
LEMMA ArriveInv ==
    ASSUME IndInv, NEW r \in Requests, Arrive(r)
    PROVE  IndInv'
<1>1. PICK stack \in Stacks, carries \in Carried :
        LET q == [Done EXCEPT !.at = "layer", !.stack = stack, !.layer = 1,
                              !.carries = carries] IN
        \/ Becomes(r, q)
        \/ \E id \in Ids \cup {None} :
             Becomes(r, [q EXCEPT !.context = with_tenant(id)])
  BY DEF Arrive
<1> DEFINE q == [Done EXCEPT !.at = "layer", !.stack = stack, !.layer = 1,
                             !.carries = carries]
<1>2. "token" \in DOMAIN carries
  BY CarriedAssumption DEF CarriedType
<1>3. RequestInv(q)
  BY <1>2 DEF RequestInv, InTransit, LookingUp, BoundGood, ResolvedGood, Done
<1>4. \A id : RequestInv([q EXCEPT !.context = with_tenant(id)])
  BY <1>2 DEF RequestInv, InTransit, LookingUp, BoundGood, ResolvedGood, Done, with_tenant
<1>5. Becomes(r, q) \/ \E id : Becomes(r, [q EXCEPT !.context = with_tenant(id)])
  BY <1>1
<1> HIDE DEF q
<1> QED
  BY <1>3, <1>4, <1>5, BecomesInv

\* Authentication attaches the user of the token, the same one every time.
LEMMA AuthenticateInv ==
    ASSUME IndInv, NEW r \in Requests, Authenticate(r)
    PROVE  IndInv'
<1> DEFINE q == request[r]
           p == [Passed(q) EXCEPT !.user = q.carries.token]
<1>1. RequestInv(q) /\ q.at = "layer"
  BY DEF IndInv, Authenticate, AtLayer
<1>2. CASE q.carries.token = None
  BY <1>2, DoneInv, BecomesInv DEF Authenticate
<1>3. CASE q.carries.token # None
  <2>1. RequestInv(Passed(q))
    BY <1>1, PassedInv
  <2>2. /\ DOMAIN p = DOMAIN Done
        /\ p.at = "layer" /\ p.stack = q.stack /\ p.carries = q.carries
        /\ p.user = q.carries.token /\ p.context = q.context
        /\ p.resolved = q.resolved
    BY <1>1, DoneFields DEF Passed, RequestInv
  <2>3. q.user = None \/ q.user = p.user
    BY <1>1, <2>2 DEF RequestInv, InTransit
  <2>4. Becomes(r, p)
    BY <1>3 DEF Authenticate
  <2> HIDE DEF q, p
  <2>5. RequestInv(p)
    BY <1>1, <1>3, <2>2, <2>3 DEF RequestInv, InTransit, LookingUp, BoundGood, ResolvedGood
  <2> QED
    BY <2>4, <2>5, BecomesInv
<1> QED
  BY <1>2, <1>3

\* A tenant layer up to the look-up.
LEMMA HandleInv ==
    ASSUME IndInv, NEW r \in Requests, Handle(r)
    PROVE  IndInv'
<1> DEFINE q == request[r]
           s == strip_incoming_tenant_headers(q)
           w == WithoutContext(s)
           k == [w EXCEPT !.at = "lookup", !.key = Extracted(w)]
<1>1. /\ RequestInv(q) /\ q.at = "layer"
      /\ q.layer \in DOMAIN q.stack /\ Layer(q).kind = "tenant"
  BY DEF IndInv, Handle, AtLayer
<1>2. /\ DOMAIN s = DOMAIN Done
      /\ s.at = q.at /\ s.stack = q.stack /\ s.layer = q.layer
      /\ "token" \in DOMAIN s.carries /\ s.carries.token = q.carries.token
      /\ s.user = q.user /\ s.context = q.context /\ s.resolved = q.resolved
  BY <1>1, DoneFields DEF strip_incoming_tenant_headers, RequestInv, InTransit
<1>3. RequestInv(s)
  BY <1>1, <1>2 DEF RequestInv, InTransit, LookingUp, BoundGood, ResolvedGood
<1>4. RequestInv(w) /\ w.at = "layer" /\ w.stack = q.stack /\ w.layer = q.layer
  BY <1>1, <1>2, <1>3, WithoutContextInv, DoneFields DEF WithoutContext
<1>5. RequestInv(Unresolved(w))
  BY <1>4, UnresolvedInv
<1>6. Becomes(r, IF Extracted(w) = None THEN Unresolved(w) ELSE k)
  BY DEF Handle
<1>7. /\ DOMAIN k = DOMAIN Done
      /\ k.at = "lookup" /\ k.stack = w.stack /\ k.layer = w.layer
      /\ k.carries = w.carries /\ k.user = w.user /\ k.context = w.context
      /\ k.resolved = w.resolved
  BY <1>4, DoneFields DEF RequestInv
<1>8. Layer(q) = q.stack[q.layer]
  BY DEF Layer
<1> HIDE DEF q, s, w, k
<1>9. RequestInv(k)
  BY <1>1, <1>4, <1>7, <1>8
     DEF RequestInv, InTransit, LookingUp, BoundGood, ResolvedGood, Layer
<1> QED
  BY <1>5, <1>6, <1>9, BecomesInv

\* The answers of the store.
LEMMA LookupInv ==
    ASSUME IndInv, NEW r \in Requests, LookupFails(r) \/ NotFound(r) \/ Resolve(r)
    PROVE  IndInv'
<1>1. RequestInv(request[r]) /\ request[r].at = "lookup"
  BY DEF IndInv, LookupFails, NotFound, Resolve
<1>2. RequestInv(Unresolved(request[r]))
  BY <1>1, UnresolvedInv
<1>3. CASE LookupFails(r) \/ NotFound(r)
  BY <1>2, <1>3, BecomesInv DEF LookupFails, NotFound
<1>4. CASE Resolve(r)
  <2>1. PICK id :
          LET q == [request[r] EXCEPT !.resolved = @ \cup {<<request[r].layer, id>>}] IN
          Becomes(r, IF tenants[id].active THEN Bound(q, id) ELSE Unresolved(request[r]))
    BY <1>4 DEF Resolve
  <2> DEFINE q == [request[r] EXCEPT !.resolved = @ \cup {<<request[r].layer, id>>}]
  <2>2. RequestInv(Bound(q, id))
    BY <1>1, BoundInv
  <2>3. \/ Becomes(r, Bound(q, id))
        \/ Becomes(r, Unresolved(request[r]))
    BY <2>1
  <2> HIDE DEF q
  <2> QED
    BY <1>2, <2>2, <2>3, BecomesInv
<1> QED
  BY <1>3, <1>4

\* The handler, which may replace the tenant of its context but not bind it.
LEMMA HandlerInv ==
    ASSUME IndInv, NEW r \in Requests,
           \/ EnterHandler(r) \/ Respond(r) \/ Drop(r)
           \/ \E id \in Ids : SetTenant(r, id)
    PROVE  IndInv'
<1> DEFINE q == request[r]
<1>1. RequestInv(q)
  BY DEF IndInv
<1>2. CASE Respond(r) \/ Drop(r)
  BY <1>2, DoneInv, BecomesInv DEF Respond, Drop
<1>3. CASE EnterHandler(r)
  <2> DEFINE p == [q EXCEPT !.at = "handler"]
  <2>1. /\ DOMAIN p = DOMAIN Done
        /\ p.at = "handler" /\ p.stack = q.stack /\ p.carries = q.carries
        /\ p.user = q.user /\ p.context = q.context /\ p.resolved = q.resolved
    BY <1>1, DoneFields DEF RequestInv
  <2>2. q.at # "done" /\ Becomes(r, p)
    BY <1>3 DEF EnterHandler
  <2> HIDE DEF q, p
  <2>3. RequestInv(p)
    BY <1>1, <2>1, <2>2 DEF RequestInv, InTransit, LookingUp, BoundGood, ResolvedGood
  <2> QED
    BY <2>2, <2>3, BecomesInv
<1>4. ASSUME NEW id \in Ids, SetTenant(r, id)
      PROVE  IndInv'
  <2> DEFINE p == [q EXCEPT !.context = with_tenant(id), !.by = q.layer]
  <2>1. /\ DOMAIN p = DOMAIN Done
        /\ p.at = q.at /\ p.stack = q.stack /\ p.carries = q.carries
        /\ p.layer = q.layer
        /\ p.user = q.user /\ p.context = with_tenant(id) /\ p.resolved = q.resolved
    BY <1>1, DoneFields DEF RequestInv
  <2>2. Becomes(r, p)
    BY <1>4 DEF SetTenant
  <2> HIDE DEF q, p
  <2>3. RequestInv(p)
    BY <1>1, <2>1
       DEF RequestInv, InTransit, LookingUp, BoundGood, ResolvedGood, with_tenant, Layer
  <2> QED
    BY <2>2, <2>3, BecomesInv
<1> QED
  BY <1>2, <1>3, <1>4

\* The invariant holds at first, and every step keeps it, whatever becomes of the
\* tenants.
LEMMA InvAtFirst == Init => IndInv
BY DoneInv DEF Init, IndInv

LEMMA InvKept == IndInv /\ [Next]_vars => IndInv'
<1> SUFFICES ASSUME IndInv, [Next]_vars PROVE IndInv'
  OBVIOUS
<1>1. CASE UNCHANGED request
  BY <1>1 DEF IndInv, RequestInv, InTransit, LookingUp, BoundGood, ResolvedGood, Layer
<1>2. CASE Administer
  BY <1>1, <1>2 DEF Administer
<1> QED
  BY <1>1, <1>2, ArriveInv, AuthenticateInv, HandleInv, LookupInv, HandlerInv
     DEF Next, Continue, vars

\* So it holds in every state.
THEOREM Invariance == Spec => []IndInv
BY InvAtFirst, InvKept, PTL DEF Spec

\* What it says of a request that has come to the handler.
LEMMA InvGuarantees == IndInv => BoundIsMember /\ ForbiddenStaysOut
BY DEF IndInv, RequestInv, BoundGood, ResolvedGood, BoundIsMember, ForbiddenStaysOut

\* A handler may rely on a bound context, for any arrangement of layers, and even
\* if handlers replace the tenant.
THEOREM BoundTheorem == Spec => []BoundIsMember
BY InvGuarantees, Invariance, PTL

\* No stranger gets past a layer that resolved a tenant, optional or not.
THEOREM ForbiddenTheorem == Spec => []ForbiddenStaysOut
BY InvGuarantees, Invariance, PTL

-----------------------------------------------------------------------------
(* The types.                                                              *)

\* What TypeOK says of a request, and what it takes to keep that: a request is at one
\* of its layers or behind the last, and its token is one that the server knows.
RequestType(q) ==
    /\ q.at \in {"done", "layer", "lookup", "handler"}
    /\ q.user \in UserContext \cup {None}
    /\ q.context \in Contexts \cup {None}
    /\ q.by \in 0 .. Len(q.stack) + 1
    /\ q.at = "lookup" <=> q.key # None
    /\ q.at # "done" => /\ q.layer \in 1 .. Len(q.stack) + 1
                        /\ q.carries.token \in UserContext \cup {None}

LEMMA DoneType == RequestType(Done) /\ RequestType(Rejected)
BY DEF RequestType, Done, Rejected

\* The contexts that the middleware makes.
LEMMA ContextType ==
    /\ \A id \in Ids \cup {None} : with_tenant(id) \in Contexts
    /\ \A id \in Ids : bound_to_principal(id) \in Contexts
BY DEF with_tenant, bound_to_principal, Contexts

LEMMA PassedType ==
    ASSUME NEW q, RequestInv(q), RequestType(q), q.at # "done", q.layer \in DOMAIN q.stack
    PROVE  RequestType(Passed(q))
<1>1. /\ Passed(q).at = "layer" /\ Passed(q).stack = q.stack /\ Passed(q).layer = q.layer + 1
      /\ Passed(q).carries = q.carries /\ Passed(q).user = q.user
      /\ Passed(q).context = q.context /\ Passed(q).by = q.by /\ Passed(q).key = None
  BY DoneFields DEF Passed, RequestInv
<1>2. Len(q.stack) \in Nat /\ q.layer \in 1 .. Len(q.stack)
  BY StackLayers DEF RequestInv, InTransit
<1> QED
  BY <1>1, <1>2 DEF RequestType

LEMMA WithoutContextType ==
    ASSUME NEW q, RequestInv(q), RequestType(q)
    PROVE  /\ RequestType(WithoutContext(q))
           /\ WithoutContext(q).stack = q.stack /\ WithoutContext(q).layer = q.layer
           /\ WithoutContext(q).user = q.user
<1> DEFINE w == WithoutContext(q)
<1>1. /\ w.at = q.at /\ w.stack = q.stack /\ w.layer = q.layer /\ w.carries = q.carries
      /\ w.user = q.user /\ w.context = None /\ w.by = 0 /\ w.key = q.key
  BY DoneFields DEF WithoutContext, RequestInv
<1>2. q.at # "done" => Len(q.stack) \in Nat
  BY StackLayers DEF RequestInv, InTransit
<1>3. 0 \in 0 .. Len(q.stack) + 1
  BY DEF RequestType
<1> HIDE DEF w
<1>4. RequestType(w)
  BY <1>1, <1>3 DEF RequestType
<1> QED
  BY <1>1, <1>4 DEF w

LEMMA UnresolvedType ==
    ASSUME NEW q, RequestInv(q), RequestType(q), q.at # "done", q.layer \in DOMAIN q.stack
    PROVE  RequestType(Unresolved(q))
<1>1. RequestType(Passed(WithoutContext(q)))
  BY WithoutContextInv, WithoutContextType, PassedType
<1> QED
  BY <1>1, DoneType DEF Unresolved

LEMMA BoundType ==
    ASSUME NEW q, RequestInv(q), RequestType(q), q.at = "lookup", NEW id \in Ids
    PROVE  RequestType(Bound([q EXCEPT !.resolved = @ \cup {<<q.layer, id>>}], id))
<1> DEFINE s == [q EXCEPT !.resolved = @ \cup {<<q.layer, id>>}]
<1>1. /\ DOMAIN s = DOMAIN Done
      /\ s.stack = q.stack /\ s.layer = q.layer /\ s.carries = q.carries /\ s.user = q.user
  BY DoneFields DEF RequestInv
<1>2. /\ Len(q.stack) \in Nat /\ q.layer \in 1 .. Len(q.stack)
  BY StackLayers DEF RequestInv, InTransit, LookingUp
<1> HIDE DEF s
<1>3. ASSUME NEW c \in Contexts
      PROVE  RequestType(Passed(WithContext(s, c)))
  <2> DEFINE p == Passed(WithContext(s, c))
  <2>1. /\ p.at = "layer" /\ p.stack = q.stack /\ p.layer = q.layer + 1
        /\ p.carries = q.carries /\ p.user = q.user
        /\ p.context = c /\ p.by = q.layer /\ p.key = None
    BY <1>1, DoneFields DEF Passed, WithContext
  <2> HIDE DEF p
  <2>2. RequestType(p)
    BY <1>2, <2>1 DEF RequestType
  <2> QED BY <2>2 DEF p
<1>4. RequestType(Bound(s, id))
  BY <1>3, ContextType, DoneType DEF Bound
<1> QED
  BY <1>4 DEF s

TypeInv == \A r \in Requests : RequestType(request[r])

LEMMA TypeKept ==
    ASSUME IndInv, TypeInv, [Next]_vars
    PROVE  TypeInv'
<1>1. ASSUME NEW r \in Requests, NEW q, Becomes(r, q), RequestType(q) PROVE TypeInv'
  <2>1. \A s \in Requests : RequestType(request'[s])
    BY <1>1 DEF Becomes, TypeInv, IndInv
  <2> QED
    BY <2>1 DEF TypeInv, RequestType
<1>2. CASE UNCHANGED request
  BY <1>2 DEF TypeInv, RequestType
<1>3. \A r \in Requests : RequestInv(request[r]) /\ RequestType(request[r])
  BY DEF IndInv, TypeInv
<1>4. ASSUME NEW r \in Requests, Arrive(r) PROVE TypeInv'
  <2>1. PICK stack \in Stacks, carries \in Carried :
          LET q == [Done EXCEPT !.at = "layer", !.stack = stack, !.layer = 1,
                                !.carries = carries] IN
          \/ Becomes(r, q)
          \/ \E id \in Ids \cup {None} :
               Becomes(r, [q EXCEPT !.context = with_tenant(id)])
    BY <1>4 DEF Arrive
  <2> DEFINE q == [Done EXCEPT !.at = "layer", !.stack = stack, !.layer = 1,
                               !.carries = carries]
  <2>2. carries.token \in UserContext \cup {None} /\ Len(stack) \in Nat
    BY CarriedAssumption, StackLayers DEF CarriedType
  <2>3. RequestType(q)
    BY <2>2 DEF RequestType, Done
  <2>4. \A id \in Ids \cup {None} : RequestType([q EXCEPT !.context = with_tenant(id)])
    BY <2>2, ContextType DEF RequestType, Done
  <2>5. \/ Becomes(r, q)
        \/ \E id \in Ids \cup {None} : Becomes(r, [q EXCEPT !.context = with_tenant(id)])
    BY <2>1
  <2> HIDE DEF q
  <2> QED
    BY <1>1, <2>3, <2>4, <2>5
<1>5. ASSUME NEW r \in Requests, Authenticate(r) PROVE TypeInv'
  <2> DEFINE q == request[r]
             p == [Passed(q) EXCEPT !.user = q.carries.token]
  <2>1. /\ q.at = "layer" /\ q.layer \in DOMAIN q.stack /\ RequestInv(q) /\ RequestType(q)
    BY <1>3, <1>5 DEF Authenticate, AtLayer
  <2>2. RequestType(Passed(q)) /\ DOMAIN Passed(q) = DOMAIN Done
    BY <2>1, PassedType, PassedInv DEF RequestInv
  <2>3. /\ p.at = Passed(q).at /\ p.stack = Passed(q).stack /\ p.layer = Passed(q).layer
        /\ p.carries = Passed(q).carries /\ p.user = q.carries.token
        /\ p.context = Passed(q).context /\ p.by = Passed(q).by /\ p.key = Passed(q).key
    BY <2>2, DoneFields
  <2>4. q.carries.token \in UserContext \cup {None}
    BY <2>1 DEF RequestType
  <2>5. Becomes(r, Done) \/ Becomes(r, p)
    BY <1>5 DEF Authenticate, Rejected
  <2> HIDE DEF q, p
  <2>6. RequestType(p)
    BY <2>2, <2>3, <2>4 DEF RequestType
  <2> QED
    BY <1>1, <2>5, <2>6, DoneType
<1>6. ASSUME NEW r \in Requests, Handle(r) PROVE TypeInv'
  <2> DEFINE q == request[r]
             s == strip_incoming_tenant_headers(q)
             w == WithoutContext(s)
             k == [w EXCEPT !.at = "lookup", !.key = Extracted(w)]
  <2>1. /\ q.at = "layer" /\ q.layer \in DOMAIN q.stack /\ Layer(q).kind = "tenant"
        /\ RequestInv(q) /\ RequestType(q)
    BY <1>3, <1>6 DEF Handle, AtLayer
  <2>2. /\ DOMAIN s = DOMAIN Done /\ s.at = q.at /\ s.stack = q.stack /\ s.layer = q.layer
        /\ "token" \in DOMAIN s.carries /\ s.carries.token = q.carries.token
        /\ s.user = q.user /\ s.context = q.context /\ s.by = q.by /\ s.key = q.key
        /\ s.resolved = q.resolved
    BY <2>1, DoneFields DEF strip_incoming_tenant_headers, RequestInv, InTransit
  <2>3. RequestInv(s) /\ RequestType(s)
    <3> HIDE DEF s, q
    <3> QED BY <2>1, <2>2 DEF RequestInv, InTransit, LookingUp, BoundGood, ResolvedGood,
                              RequestType
  <2>4. /\ RequestInv(w) /\ w.at = "layer" /\ RequestType(w)
        /\ w.stack = q.stack /\ w.layer = q.layer
    <3> HIDE DEF s, q
    <3> QED BY <2>1, <2>2, <2>3, WithoutContextInv, WithoutContextType
  <2>5. RequestType(Unresolved(w))
    <3> HIDE DEF w, q
    <3> QED BY <2>1, <2>4, UnresolvedType
  <2>6. /\ k.at = "lookup" /\ k.stack = w.stack /\ k.layer = w.layer /\ k.by = w.by
        /\ k.carries = w.carries /\ k.user = w.user /\ k.context = w.context
        /\ k.key = Extracted(w)
    <3> HIDE DEF w
    <3> QED BY <2>4, DoneFields DEF RequestInv
  <2>7. Becomes(r, IF Extracted(w) = None THEN Unresolved(w) ELSE k)
    BY <1>6 DEF Handle
  <2> HIDE DEF q, s, w, k
  <2>8. Extracted(w) # None => RequestType(k)
    BY <2>4, <2>6 DEF RequestType
  <2> QED
    BY <1>1, <2>5, <2>7, <2>8
<1>7. ASSUME NEW r \in Requests, LookupFails(r) \/ NotFound(r) \/ Resolve(r)
      PROVE  TypeInv'
  <2> DEFINE q == request[r]
  <2>1. /\ q.at = "lookup" /\ RequestInv(q) /\ RequestType(q) /\ q.layer \in DOMAIN q.stack
    BY <1>3, <1>7 DEF LookupFails, NotFound, Resolve, RequestInv, LookingUp
  <2>2. RequestType(Unresolved(q))
    BY <2>1, UnresolvedType
  <2>3. \A id \in Ids : RequestType(Bound([q EXCEPT !.resolved = @ \cup {<<q.layer, id>>}], id))
    BY <2>1, BoundType
  <2>4. \/ Becomes(r, Unresolved(q))
        \/ \E id \in Ids :
             Becomes(r, Bound([q EXCEPT !.resolved = @ \cup {<<q.layer, id>>}], id))
    BY <1>7 DEF LookupFails, NotFound, Resolve, Found, find_by_id, find_by_name, Stored
  <2> HIDE DEF q
  <2> QED
    BY <1>1, <2>2, <2>3, <2>4
<1>8. ASSUME NEW r \in Requests, EnterHandler(r) PROVE TypeInv'
  <2> DEFINE q == request[r]
             p == [q EXCEPT !.at = "handler"]
  <2>1. q.at = "layer" /\ Becomes(r, p) /\ RequestInv(q) /\ RequestType(q)
    BY <1>3, <1>8 DEF EnterHandler
  <2>2. /\ p.at = "handler" /\ p.stack = q.stack /\ p.layer = q.layer /\ p.by = q.by
        /\ p.carries = q.carries /\ p.user = q.user /\ p.context = q.context
        /\ p.key = q.key
    BY <2>1, DoneFields DEF RequestInv
  <2> HIDE DEF q, p
  <2>3. RequestType(p)
    BY <2>1, <2>2 DEF RequestType
  <2> QED
    BY <1>1, <2>1, <2>3
<1>9. ASSUME NEW r \in Requests, NEW id \in Ids, SetTenant(r, id) PROVE TypeInv'
  <2> DEFINE q == request[r]
             p == [q EXCEPT !.context = with_tenant(id), !.by = q.layer]
  <2>1. q.at = "handler" /\ Becomes(r, p) /\ RequestInv(q) /\ RequestType(q)
    BY <1>3, <1>9 DEF SetTenant
  <2>2. /\ p.at = q.at /\ p.stack = q.stack /\ p.layer = q.layer /\ p.by = q.layer
        /\ p.carries = q.carries /\ p.user = q.user /\ p.context = with_tenant(id)
        /\ p.key = q.key
    BY <2>1, DoneFields DEF RequestInv
  <2> HIDE DEF q, p
  <2>3. RequestType(p)
    BY <2>1, <2>2, ContextType DEF RequestType
  <2> QED
    BY <1>1, <2>1, <2>3
<1>10. ASSUME NEW r \in Requests, Respond(r) \/ Drop(r) PROVE TypeInv'
  BY <1>1, <1>10, DoneType DEF Respond, Drop
<1> QED
  BY <1>2, <1>4, <1>5, <1>6, <1>7, <1>8, <1>9, <1>10 DEF Next, Continue, Administer, vars

\* Store and requests keep their types: a request has a key while its tenant is looked
\* up and at no other time, and its context was set by a layer it has passed, by the
\* handler, or by the server.
THEOREM MiddlewareTypeTheorem == Spec => []TypeOK
<1> DEFINE Tenants == tenants \in [Ids -> Tenant \cup {None}]
<1>1. Init => Tenants /\ TypeInv
  BY DoneType DEF Init, TypeInv
<1>2. Tenants /\ [Next]_vars => Tenants'
  BY DEF Next, Continue, Arrive, Authenticate, Handle, LookupFails, NotFound, Resolve,
         EnterHandler, SetTenant, Respond, Drop, Administer, vars
<1>3. IndInv /\ TypeInv /\ [Next]_vars => TypeInv'
  BY TypeKept
<1>4. Tenants /\ IndInv /\ TypeInv => TypeOK
  BY DEF IndInv, TypeInv, RequestInv, RequestType, TypeOK
<1> QED
  BY <1>1, <1>2, <1>3, <1>4, Invariance, PTL DEF Spec

-----------------------------------------------------------------------------
(* What the handler finds.                                                 *)

\* A stack with a tenant layer in it.
Guarded(stack) ==
    \E i \in DOMAIN stack :
        /\ stack[i].kind = "tenant"
        /\ \A j \in DOMAIN stack : j > i => stack[j].kind # "tenant"

\* The last tenant layer is one, and no other comes after it.
LEMMA LastLayer ==
    ASSUME NEW stack \in Stacks, Guarded(stack)
    PROVE  LET last == LastTenantLayer(stack) IN
           /\ last \in 1 .. Len(stack) /\ Len(stack) \in Nat
           /\ DOMAIN stack = 1 .. Len(stack)
           /\ \A j \in DOMAIN stack : stack[j].kind = "tenant" => j <= last
<1>1. Len(stack) \in Nat /\ DOMAIN stack = 1 .. Len(stack)
  BY StackLayers
<1>2. /\ LastTenantLayer(stack) \in DOMAIN stack
      /\ \A j \in DOMAIN stack : j > LastTenantLayer(stack) => stack[j].kind # "tenant"
  BY DEF Guarded, LastTenantLayer
<1> QED
  BY <1>1, <1>2

\* The context is as the last tenant layer leaves it, or as the handler replaces it.
Settled(q) ==
    LET last == LastTenantLayer(q.stack) IN
    /\ q.carries.internal = None
    /\ \/ q.context = None /\ q.by = 0 /\ q.stack[last].optional
       \/ /\ q.context # None /\ q.context.id # None /\ q.by = last
          /\ q.context.bound <=> q.stack[last].membership # "public"
       \/ /\ q.context # None /\ q.context.id # None
          /\ q.at = "handler" /\ q.by = q.layer

\* While a layer looks up its tenant the request has no context.
Cleared(q) == q.carries.internal = None /\ q.context = None /\ q.by = 0

Passage(q) ==
    q.at # "done" =>
        /\ q.stack \in Stacks
        /\ "internal" \in DOMAIN q.carries
        /\ q.layer \in 1 .. Len(q.stack) + 1
        /\ q.at = "handler" => q.layer = Len(q.stack) + 1
        /\ q.at = "lookup" => Cleared(q)
        /\ q.at # "lookup" /\ q.layer > LastTenantLayer(q.stack) => Settled(q)

\* The invariant: what the last tenant layer has made does not change on the way
\* from there to the handler.
PassageInv == \A r \in Requests : Passage(request[r])

\* A layer passes a request on: a tenant layer with a context of its own or, if it is
\* optional, without one; the authentication with the context it has found.
LEMMA PassedOn ==
    ASSUME \A stack \in Stacks : Guarded(stack),
           NEW q, Passage(q), q.at \in {"layer", "lookup"}, q.layer \in DOMAIN q.stack,
           NEW p, p.at = "layer", p.stack = q.stack, p.layer = q.layer + 1,
           "internal" \in DOMAIN p.carries,
           \/ /\ q.at = "layer" /\ Layer(q).kind # "tenant"
              /\ p.carries = q.carries /\ p.context = q.context /\ p.by = q.by
           \/ /\ Layer(q).kind = "tenant" /\ p.carries.internal = None
              /\ \/ p.context = None /\ p.by = 0 /\ Layer(q).optional
                 \/ /\ p.context # None /\ p.context.id # None /\ p.by = q.layer
                    /\ p.context.bound <=> Layer(q).membership # "public"
    PROVE  Passage(p)
<1> DEFINE last == LastTenantLayer(q.stack)
<1>1. /\ last \in 1 .. Len(q.stack) /\ Len(q.stack) \in Nat
      /\ q.layer \in 1 .. Len(q.stack)
      /\ Layer(q).kind = "tenant" => q.layer <= last
      /\ q.stack \in Stacks
  BY LastLayer DEF Passage, Layer
<1>2. ASSUME p.layer > last PROVE Settled(p)
  <2>1. CASE q.layer = last
    <3>1. last \in DOMAIN q.stack /\ q.stack[last].kind = "tenant"
      BY <2>1, <1>1 DEF Guarded, LastTenantLayer
    <3> QED
      BY <1>1, <2>1, <3>1 DEF Settled, Layer
  <2>2. CASE q.layer # last
    <3>1. q.layer > last /\ Layer(q).kind # "tenant"
      BY <1>1, <1>2, <2>2
    <3>2. Settled(q) /\ q.at = "layer"
      BY <1>1, <3>1 DEF Passage
    <3> QED
      BY <3>1, <3>2 DEF Settled
  <2> QED
    BY <2>1, <2>2
<1> QED
  BY <1>1, <1>2 DEF Passage

\* A context that is made for a tenant is there, and names one.
LEMMA ContextNames ==
    ASSUME NEW id \in Ids
    PROVE  id # None /\ with_tenant(id) # None /\ bound_to_principal(id) # None
<1>1. with_tenant(id) \in Contexts /\ bound_to_principal(id) \in Contexts
  BY DEF Contexts, with_tenant, bound_to_principal
<1> QED
  BY <1>1, NoneAssumption

\* A layer that resolves no tenant rejects the request or takes its context away.
LEMMA UnresolvedPassage ==
    ASSUME \A stack \in Stacks : Guarded(stack),
           NEW q, Passage(q), DOMAIN q = DOMAIN Done, q.at \in {"layer", "lookup"},
           q.layer \in DOMAIN q.stack, Layer(q).kind = "tenant", q.carries.internal = None
    PROVE  Passage(Unresolved(q))
<1> DEFINE p == Passed(WithoutContext(q))
<1>1. /\ p.at = "layer" /\ p.stack = q.stack /\ p.layer = q.layer + 1
      /\ p.carries = q.carries /\ p.context = None /\ p.by = 0
  BY DoneFields DEF Passed, WithoutContext
<1>2. "internal" \in DOMAIN q.carries
  BY DEF Passage
<1>3. ASSUME Layer(q).optional PROVE Passage(p)
  <2> HIDE DEF p
  <2> QED
    BY <1>1, <1>2, <1>3, PassedOn
<1>4. Passage(Rejected)
  BY DEF Rejected, Done, Passage
<1> QED
  BY <1>3, <1>4 DEF Unresolved

\* One that resolves a tenant sets a context of it, bound unless it is for public pages.
LEMMA BoundPassage ==
    ASSUME \A stack \in Stacks : Guarded(stack),
           NEW q, Passage(q), RequestInv(q), q.at = "lookup", NEW id \in Ids
    PROVE  Passage(Bound([q EXCEPT !.resolved = @ \cup {<<q.layer, id>>}], id))
<1> DEFINE s == [q EXCEPT !.resolved = @ \cup {<<q.layer, id>>}]
           m == Layer(q).membership
<1>1. /\ DOMAIN q = DOMAIN Done
      /\ q.layer \in DOMAIN q.stack /\ Layer(q).kind = "tenant"
      /\ "internal" \in DOMAIN q.carries /\ q.carries.internal = None
  BY DEF RequestInv, LookingUp, Passage, Cleared
<1>2. /\ DOMAIN s = DOMAIN Done
      /\ s.at = q.at /\ s.stack = q.stack /\ s.carries = q.carries
      /\ s.user = q.user /\ s.layer = q.layer /\ Layer(s) = Layer(q)
  BY <1>1, DoneFields DEF Layer
<1>3. ASSUME NEW c, c # None, c.id = id, c.bound <=> m # "public"
      PROVE  Passage(Passed(WithContext(s, c)))
  <2> DEFINE p == Passed(WithContext(s, c))
  <2>1. /\ p.at = "layer" /\ p.stack = q.stack /\ p.layer = q.layer + 1
        /\ p.carries = q.carries /\ p.context = c /\ p.by = q.layer
    BY <1>2, DoneFields DEF Passed, WithContext
  <2> HIDE DEF p
  <2>2. /\ p.carries.internal = None /\ "internal" \in DOMAIN p.carries
        /\ p.context # None /\ p.context.id # None
        /\ p.context.bound <=> Layer(q).membership # "public"
    BY <1>1, <1>3, <2>1, ContextNames
  <2>3. Passage(p)
    BY <1>1, <2>1, <2>2, PassedOn
  <2> QED
    BY <2>3 DEF p
<1>4. Passage(Rejected)
  BY DEF Rejected, Done, Passage
<1>5. with_tenant(id) # None /\ bound_to_principal(id) # None
  BY ContextNames
<1>6. CASE m = "public"
  <2>1. Passage(Passed(WithContext(s, with_tenant(id))))
    BY <1>3, <1>5, <1>6 DEF with_tenant
  <2> QED
    BY <1>2, <1>6, <2>1 DEF Bound
<1>7. CASE m # "public"
  <2>1. Passage(Passed(WithContext(s, bound_to_principal(id))))
    BY <1>3, <1>5, <1>7 DEF bound_to_principal
  <2> QED
    BY <1>2, <1>4, <1>7, <2>1 DEF Bound
<1> QED
  BY <1>6, <1>7

\* Every step keeps the invariant.
LEMMA PassageNext ==
    ASSUME \A stack \in Stacks : Guarded(stack),
           IndInv, PassageInv, [Next]_vars
    PROVE  PassageInv'
<1>1. ASSUME NEW r \in Requests, NEW q, Becomes(r, q), Passage(q) PROVE PassageInv'
  <2>1. \A s \in Requests : Passage(request'[s])
    BY <1>1 DEF Becomes, PassageInv, IndInv
  <2> QED
    BY <2>1 DEF PassageInv, Passage, Settled, Cleared, LastTenantLayer
<1>2. CASE UNCHANGED request
  <2>1. \A s \in Requests : Passage(request'[s])
    BY <1>2 DEF PassageInv
  <2> QED
    BY <2>1 DEF PassageInv, Passage, Settled, Cleared, LastTenantLayer
<1>d. Passage(Done)
  BY DEF Passage, Done
<1>q. \A r \in Requests : RequestInv(request[r]) /\ Passage(request[r])
  BY DEF IndInv, PassageInv
<1>3. ASSUME NEW r \in Requests, Arrive(r) PROVE PassageInv'
  <2>1. PICK stack \in Stacks, carries \in Carried :
          LET q == [Done EXCEPT !.at = "layer", !.stack = stack, !.layer = 1,
                                !.carries = carries] IN
          \/ Becomes(r, q)
          \/ \E id \in Ids \cup {None} :
               Becomes(r, [q EXCEPT !.context = with_tenant(id)])
    BY <1>3 DEF Arrive
  <2> DEFINE q == [Done EXCEPT !.at = "layer", !.stack = stack, !.layer = 1,
                               !.carries = carries]
  <2>2. "internal" \in DOMAIN carries
    BY CarriedAssumption DEF CarriedType
  <2>3. /\ 1 \in 1 .. Len(stack) + 1
        /\ ~(1 > LastTenantLayer(stack))
    BY LastLayer
  <2>4. ASSUME NEW p, p.at = "layer", p.stack = stack, p.layer = 1, p.carries = carries
        PROVE  Passage(p)
    BY <2>2, <2>3, <2>4 DEF Passage
  <2>5. Passage(q) /\ \A id : Passage([q EXCEPT !.context = with_tenant(id)])
    <3>1. /\ q.at = "layer" /\ q.stack = stack /\ q.layer = 1 /\ q.carries = carries
          /\ DOMAIN q = DOMAIN Done
      BY DoneFields DEF Done
    <3> HIDE DEF q
    <3>2. ASSUME NEW id PROVE Passage([q EXCEPT !.context = with_tenant(id)])
      BY <2>4, <3>1, DoneFields
    <3> QED
      BY <2>4, <3>1, <3>2
  <2>6. Becomes(r, q) \/ \E id : Becomes(r, [q EXCEPT !.context = with_tenant(id)])
    BY <2>1
  <2> HIDE DEF q
  <2> QED
    BY <1>1, <2>5, <2>6
<1>4. ASSUME NEW r \in Requests, Authenticate(r) PROVE PassageInv'
  <2> DEFINE q == request[r]
             p == [Passed(q) EXCEPT !.user = q.carries.token]
  <2>1. /\ q.at = "layer" /\ q.layer \in DOMAIN q.stack /\ Layer(q).kind = "auth"
        /\ DOMAIN q = DOMAIN Done /\ Passage(q) /\ "internal" \in DOMAIN q.carries
    BY <1>4, <1>q DEF Authenticate, AtLayer, RequestInv, Passage
  <2>2. /\ p.at = "layer" /\ p.stack = q.stack /\ p.layer = q.layer + 1
        /\ p.carries = q.carries /\ p.context = q.context /\ p.by = q.by
    BY <2>1, DoneFields DEF Passed
  <2>3. Becomes(r, Done) \/ Becomes(r, p)
    BY <1>4 DEF Authenticate, Rejected
  <2> HIDE DEF p, q
  <2>4. Passage(p)
    BY <2>1, <2>2, PassedOn
  <2> QED
    BY <1>1, <1>d, <2>3, <2>4
<1>5. ASSUME NEW r \in Requests, Handle(r) PROVE PassageInv'
  <2> DEFINE q == request[r]
             w == WithoutContext(strip_incoming_tenant_headers(q))
             k == [w EXCEPT !.at = "lookup", !.key = Extracted(w)]
  <2>1. /\ q.at = "layer" /\ q.layer \in DOMAIN q.stack /\ Layer(q).kind = "tenant"
        /\ DOMAIN q = DOMAIN Done /\ Passage(q) /\ "internal" \in DOMAIN q.carries
    BY <1>5, <1>q DEF Handle, AtLayer, RequestInv, Passage
  <2>2. /\ DOMAIN w = DOMAIN Done
        /\ w.at = "layer" /\ w.stack = q.stack /\ w.layer = q.layer
        /\ "internal" \in DOMAIN w.carries /\ w.carries.internal = None
        /\ w.context = None /\ w.by = 0 /\ Layer(w) = Layer(q)
    BY <2>1, DoneFields DEF WithoutContext, strip_incoming_tenant_headers, Layer
  <2>3. Becomes(r, Unresolved(w)) \/ Becomes(r, k)
    BY <1>5 DEF Handle
  <2>4. /\ k.at = "lookup" /\ k.stack = q.stack /\ k.layer = q.layer
        /\ k.carries = w.carries /\ k.context = None /\ k.by = 0
    BY <2>2, DoneFields
  <2> HIDE DEF q, w, k
  <2>5. Passage(k)
    BY <2>1, <2>2, <2>4 DEF Passage, Cleared
  <2>6. Passage(w)
    <3>1. q.layer <= LastTenantLayer(q.stack) /\ LastTenantLayer(q.stack) \in Nat
      BY <2>1, LastLayer DEF Passage, Layer
    <3>2. q.layer \in Nat
      BY <2>1, LastLayer DEF Passage
    <3> QED
      BY <2>1, <2>2, <3>1, <3>2 DEF Passage
  <2>7. Passage(Unresolved(w))
    BY <2>1, <2>2, <2>6, UnresolvedPassage
  <2> QED
    BY <1>1, <2>3, <2>5, <2>7
<1>6. ASSUME NEW r \in Requests, LookupFails(r) \/ NotFound(r) \/ Resolve(r)
      PROVE  PassageInv'
  <2> DEFINE q == request[r]
  <2>1. /\ q.at = "lookup" /\ RequestInv(q) /\ Passage(q)
        /\ DOMAIN q = DOMAIN Done /\ q.layer \in DOMAIN q.stack
        /\ Layer(q).kind = "tenant" /\ q.carries.internal = None
    BY <1>6, <1>q DEF LookupFails, NotFound, Resolve, RequestInv, LookingUp, Passage,
                      Cleared
  <2>2. Passage(Unresolved(q))
    BY <2>1, UnresolvedPassage
  <2>3. \A id \in Ids : Passage(Bound([q EXCEPT !.resolved = @ \cup {<<q.layer, id>>}], id))
    BY <2>1, BoundPassage
  <2>4. \/ Becomes(r, Unresolved(q))
        \/ \E id \in Ids :
             Becomes(r, Bound([q EXCEPT !.resolved = @ \cup {<<q.layer, id>>}], id))
    BY <1>6 DEF LookupFails, NotFound, Resolve, Found, find_by_id, find_by_name, Stored
  <2> HIDE DEF q
  <2> QED
    BY <1>1, <2>2, <2>3, <2>4
<1>7. ASSUME NEW r \in Requests, EnterHandler(r) PROVE PassageInv'
  <2> DEFINE q == request[r]
             p == [q EXCEPT !.at = "handler"]
  <2>1. /\ q.at = "layer" /\ q.layer > Len(q.stack) /\ Becomes(r, p)
        /\ DOMAIN q = DOMAIN Done /\ Passage(q)
    BY <1>7, <1>q DEF EnterHandler, RequestInv
  <2>2. /\ p.at = "handler" /\ p.stack = q.stack /\ p.layer = q.layer
        /\ p.carries = q.carries /\ p.context = q.context /\ p.by = q.by
    BY <2>1, DoneFields
  <2> HIDE DEF p, q
  <2>3. LastTenantLayer(q.stack) \in 1 .. Len(q.stack) /\ Len(q.stack) \in Nat
    BY <2>1, LastLayer DEF Passage
  <2>4. q.layer = Len(q.stack) + 1
    BY <2>1, <2>3 DEF Passage
  <2>5. Settled(q)
    BY <2>1, <2>3, <2>4 DEF Passage
  <2>6. Settled(p)
    BY <2>1, <2>2, <2>5 DEF Settled
  <2>7. Passage(p)
    BY <2>1, <2>2, <2>4, <2>6 DEF Passage
  <2> QED
    BY <1>1, <2>1, <2>7
<1>8. ASSUME NEW r \in Requests, NEW id \in Ids, SetTenant(r, id) PROVE PassageInv'
  <2> DEFINE q == request[r]
             p == [q EXCEPT !.context = with_tenant(id), !.by = q.layer]
  <2>1. /\ q.at = "handler" /\ Becomes(r, p)
        /\ DOMAIN q = DOMAIN Done /\ Passage(q)
    BY <1>8, <1>q DEF SetTenant, RequestInv
  <2>2. /\ p.at = "handler" /\ p.stack = q.stack /\ p.layer = q.layer
        /\ p.carries = q.carries /\ p.context = with_tenant(id) /\ p.by = q.layer
    BY <2>1, DoneFields
  <2> HIDE DEF p, q
  <2>3. with_tenant(id) # None /\ with_tenant(id).id # None
    BY ContextNames DEF with_tenant
  <2>4. Settled(q)
    <3>1. LastTenantLayer(q.stack) \in 1 .. Len(q.stack) /\ Len(q.stack) \in Nat
      BY <2>1, LastLayer DEF Passage
    <3> QED
      BY <2>1, <3>1 DEF Passage
  <2>5. Settled(p)
    BY <2>1, <2>2, <2>3, <2>4 DEF Settled
  <2>6. Passage(p)
    BY <2>1, <2>2, <2>5 DEF Passage
  <2> QED
    BY <1>1, <2>1, <2>6
<1>9. ASSUME NEW r \in Requests, Respond(r) \/ Drop(r) PROVE PassageInv'
  BY <1>1, <1>d, <1>9 DEF Respond, Drop
<1> QED
  BY <1>2, <1>3, <1>4, <1>5, <1>6, <1>7, <1>8, <1>9 DEF Next, Continue, Administer, vars

\* No request is on its way at first.
LEMMA PassageAtFirst == Init => PassageInv
BY DEF Init, PassageInv, Passage, Done

\* What it says of a request that has come to the handler.
LEMMA PassageGuarantees ==
    ASSUME \A stack \in Stacks : Guarded(stack)
    PROVE  PassageInv => HandlerContext
<1> SUFFICES ASSUME PassageInv, NEW r \in Requests, request[r].at = "handler"
             PROVE  LET q == request[r]
                        last == LastTenantLayer(q.stack) IN
                    /\ q.context = None => q.stack[last].optional
                    /\ q.context # None => q.by \in {last, q.layer}
                    /\ q.context # None => get_tenant_id(q) # None
                    /\ q.carries.internal = None
                    /\ q.by = last =>
                         (q.context.bound <=> q.stack[last].membership # "public")
  BY DEF HandlerContext
<1> DEFINE q == request[r]
           last == LastTenantLayer(q.stack)
<1>1. Passage(q) /\ q.at = "handler"
  BY DEF PassageInv
<1> HIDE DEF q
<1>2. last \in 1 .. Len(q.stack) /\ Len(q.stack) \in Nat /\ q.layer = Len(q.stack) + 1
  BY <1>1, LastLayer DEF Passage
<1>3. Settled(q)
  BY <1>1, <1>2 DEF Passage
<1>4. last # 0 /\ last # q.layer
  BY <1>2
<1> QED
  BY <1>3, <1>4 DEF Settled, get_tenant_id, q

\* What a handler finds was made by the last tenant layer and is what that layer was
\* configured to make, for any stack that has one, whatever came in with the request.
THEOREM HandlerTheorem ==
    ASSUME \A stack \in Stacks : Guarded(stack)
    PROVE  Spec => []HandlerContext
<1>1. IndInv /\ PassageInv /\ [Next]_vars => PassageInv'
  BY PassageNext
<1> QED
  BY <1>1, PassageAtFirst, PassageGuarantees, Invariance, PTL DEF Spec

=============================================================================
