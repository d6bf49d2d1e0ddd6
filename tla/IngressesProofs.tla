-------------------------- MODULE IngressesProofs --------------------------
(***************************************************************************)
(* Proofs about Ingresses: types, and that HTTP is redirected only with a  *)
(* certificate, for any app targets, targets, manifests and certificates.  *)
(***************************************************************************)
EXTENDS Ingresses, TLAPS

-----------------------------------------------------------------------------
(* The invariant.  A new request is younger than all others, of which      *)
(* there must be a youngest one: CHOOSE says nothing otherwise.            *)

RequestIs(r) ==
  /\ IsRequest(r)
  /\ r = [hosts |-> r.hosts, protocol |-> r.protocol, https |-> r.https,
          born |-> r.born, address |-> r.address]

IngressIs(in) ==
  /\ IsIngress(in)
  /\ in = [tls |-> in.tls, arns |-> in.arns, redirect |-> in.redirect, address |-> in.address]

HasYoungest(f) ==
  \A S \in SUBSET DOMAIN f : S # {} => \E at \in S : \A b \in S : f[b].born <= f[at].born

ObjectsTyped ==
  /\ DOMAIN spec \subseteq AppTargets /\ \A at \in DOMAIN spec : IsOption(spec[at])
  /\ hostname \in [AppTargets -> Addresses]
  /\ services \cup rules \cup DOMAIN virtual \cup DOMAIN monitors \subseteq AppTargets
  /\ orphans \subseteq AppTargets \X Kinds

RequestsTyped ==
  /\ DOMAIN requests \subseteq AppTargets
  /\ \A at \in DOMAIN requests : RequestIs(requests[at])
  /\ HasYoungest(requests)

IngressesTyped ==
  /\ DOMAIN ingresses \subseteq Keys
  /\ \A k \in DOMAIN ingresses : IngressIs(ingresses[k])
  /\ ingresses = [k \in DOMAIN ingresses |-> ingresses[k]]

PassTyped ==
  job # NoPass =>
    /\ job = [target |-> job.target, name |-> job.name, all |-> job.all,
              groups |-> job.groups, todo |-> job.todo, seen |-> job.seen]
    /\ job.target \in Targets /\ job.name \in AppTargets /\ job.all \in BOOLEAN
    /\ job.todo \subseteq job.groups /\ job.groups \subseteq Protocols
    /\ \A at \in DOMAIN job.seen : RequestIs(job.seen[at])

CountersTyped ==
  /\ certs \subseteq Certs /\ switched \in BOOLEAN /\ missed \subseteq AppTargets
  /\ steps \in Nat

QueuesTyped == queue \subseteq AppTargets /\ due \subseteq AppTargets

TypeInv ==
  /\ ObjectsTyped /\ RequestsTyped /\ IngressesTyped
  /\ PassTyped /\ CountersTyped /\ QueuesTyped

LEMMA TypesHold ==
  ASSUME TypeInv
  PROVE  TypeOK
<1>1. ObjectsTyped /\ RequestsTyped /\ IngressesTyped /\ PassTyped /\ CountersTyped /\ QueuesTyped
  BY DEF TypeInv
<1>2. DOMAIN hostname = AppTargets /\ \A at \in AppTargets : hostname[at] \in Addresses
  BY <1>1 DEF ObjectsTyped
<1>3. \A at \in DOMAIN requests : at \in AppTargets /\ IsRequest(requests[at])
  BY <1>1 DEF RequestsTyped, RequestIs
<1>4. \A k \in DOMAIN ingresses : k \in Keys /\ IsIngress(ingresses[k])
  BY <1>1 DEF IngressesTyped, IngressIs
<1>5. \/ job = NoPass
      \/ /\ job.target \in Targets /\ job.all \in BOOLEAN
         /\ job.todo \subseteq job.groups /\ job.groups \subseteq Protocols
         /\ \A at \in DOMAIN job.seen : IsRequest(job.seen[at])
  BY <1>1 DEF PassTyped, RequestIs
<1>. QED
  BY <1>1, <1>2, <1>3, <1>4, <1>5 DEF TypeOK, ObjectsTyped, CountersTyped, QueuesTyped

LEMMA InitTyped ==
  ASSUME Init
  PROVE  TypeInv
<1>1. ObjectsTyped
  <2>1. DOMAIN spec \subseteq AppTargets /\ \A at \in DOMAIN spec : spec[at] \in Options[at]
    BY IngressesAssumption DEF Init
  <2>2. \A at \in DOMAIN spec : IsOption(spec[at])
    BY <2>1, IngressesAssumption
  <2>3. hostname \in [AppTargets -> Addresses]
    BY DEF Init, Addresses, NoAddress
  <2>4. DOMAIN virtual = {} /\ DOMAIN monitors = {} /\ services = {} /\ rules = {} /\ orphans = {}
    BY DEF Init
  <2>. QED  BY <2>1, <2>2, <2>3, <2>4 DEF ObjectsTyped
<1>2. DOMAIN requests = {} /\ DOMAIN ingresses = {} /\ ingresses = [k \in {} |-> ingresses[k]]
  BY DEF Init
<1>3. RequestsTyped
  BY <1>2 DEF RequestsTyped, HasYoungest
<1>4. IngressesTyped
  BY <1>2 DEF IngressesTyped
<1>5. PassTyped /\ CountersTyped
  BY IngressesAssumption DEF Init, PassTyped, CountersTyped
<1>6. QueuesTyped
  BY <1>1 DEF Init, QueuesTyped, ObjectsTyped
<1>. QED  BY <1>1, <1>3, <1>4, <1>5, <1>6 DEF TypeInv
-----------------------------------------------------------------------------
(* Requests.                                                               *)

LEMMA YoungestOfSome ==
  ASSUME NEW f, NEW g, HasYoungest(f), DOMAIN g \subseteq DOMAIN f,
         \A at \in DOMAIN g : g[at].born = f[at].born
  PROVE  HasYoungest(g)
<1>. SUFFICES ASSUME NEW S \in SUBSET DOMAIN g, S # {}
              PROVE  \E at \in S : \A b \in S : g[b].born <= g[at].born
  BY DEF HasYoungest
<1>1. PICK at \in S : \A b \in S : f[b].born <= f[at].born
  BY DEF HasYoungest
<1>. QED  BY <1>1

LEMMA YoungestOfMore ==
  ASSUME NEW f, NEW g, NEW x, HasYoungest(f), DOMAIN g = DOMAIN f \cup {x},
         \A at \in DOMAIN g : g[at].born \in Nat,
         \A at \in DOMAIN f \ {x} : g[at].born = f[at].born
  PROVE  HasYoungest(g)
<1>. SUFFICES ASSUME NEW S \in SUBSET DOMAIN g, S # {}
              PROVE  \E at \in S : \A b \in S : g[b].born <= g[at].born
  BY DEF HasYoungest
<1>1. CASE S \ {x} = {}
  BY <1>1
<1>2. CASE S \ {x} # {}
  <2>1. PICK m \in S \ {x} : \A b \in S \ {x} : f[b].born <= f[m].born
    BY <1>2 DEF HasYoungest
  <2>2. \A b \in S \ {x} : g[b].born <= g[m].born
    BY <2>1
  <2>3. g[m].born \in Nat /\ (x \in S => g[x].born \in Nat)
    OBVIOUS
  <2>4. CASE x \in S /\ g[m].born <= g[x].born
    <3>. SUFFICES \A b \in S : g[b].born <= g[x].born
      BY <2>4
    <3>. QED  BY <2>2, <2>3, <2>4
  <2>5. CASE ~(x \in S /\ g[m].born <= g[x].born)
    <3>. SUFFICES \A b \in S : g[b].born <= g[m].born
      OBVIOUS
    <3>. QED  BY <2>2, <2>3, <2>5
  <2>. QED  BY <2>4, <2>5
<1>. QED  BY <1>1, <1>2

(* The youngest of the requests was born at a time.                        *)
LEMMA LatestIsNat ==
  ASSUME RequestsTyped
  PROVE  Max({requests[b].born : b \in DOMAIN requests} \cup {0}) \in Nat
<1>. DEFINE S == {requests[b].born : b \in DOMAIN requests} \cup {0}
<1>1. \A b \in DOMAIN requests : requests[b].born \in Nat
  BY DEF RequestsTyped, RequestIs, IsRequest
<1>2. S \subseteq Nat
  BY <1>1
<1>3. \E x \in S : \A y \in S : x >= y
  <2>1. CASE DOMAIN requests = {}
    BY <2>1
  <2>2. CASE DOMAIN requests # {}
    <3>1. PICK at \in DOMAIN requests :
            \A b \in DOMAIN requests : requests[b].born <= requests[at].born
      BY <2>2 DEF RequestsTyped, HasYoungest
    <3>2. requests[at].born \in S /\ \A y \in S : requests[at].born >= y
      BY <1>1, <3>1
    <3>. QED  BY <3>2
  <2>. QED  BY <2>1, <2>2
<1>4. Max(S) \in S
  BY <1>3 DEF Max
<1>. QED  BY <1>2, <1>4

LEMMA RequestTyped ==
  ASSUME RequestsTyped, NEW at, NEW o, IsOption(o)
  PROVE  RequestIs(Request(at, o))
<1>. DEFINE r == Request(at, o)
            latest == Max({requests[b].born : b \in DOMAIN requests} \cup {0})
<1>1. latest \in Nat
  BY LatestIsNat
<1>. HIDE DEF latest
<1>2. at \in DOMAIN requests => requests[at].born \in Nat /\ requests[at].address \in Addresses
  BY DEF RequestsTyped, RequestIs, IsRequest
<1>3. r = [hosts |-> o.hosts, protocol |-> o.protocol, https |-> o.https,
           born |-> IF at \in DOMAIN requests THEN requests[at].born ELSE 1 + latest,
           address |-> IF at \in DOMAIN requests THEN requests[at].address ELSE NoAddress]
  BY DEF Request, latest
<1>4. (IF at \in DOMAIN requests THEN requests[at].born ELSE 1 + latest) \in Nat
  BY <1>1, <1>2
<1>5. (IF at \in DOMAIN requests THEN requests[at].address ELSE NoAddress) \in Addresses
  BY <1>2 DEF Addresses
<1>. HIDE DEF r
<1>6. r.born \in Nat /\ r.address \in Addresses
  BY <1>3, <1>4, <1>5
<1>7. r.hosts = o.hosts /\ r.protocol = o.protocol /\ r.https = o.https
  BY <1>3
<1>8. IsRequest(r)
  BY <1>6, <1>7 DEF IsRequest, IsOption
<1>9. r = [hosts |-> r.hosts, protocol |-> r.protocol, https |-> r.https,
           born |-> r.born, address |-> r.address]
  BY <1>3
<1>. QED  BY <1>8, <1>9 DEF RequestIs, r

LEMMA MoreRequests ==
  ASSUME RequestsTyped, NEW at \in AppTargets, NEW o, IsOption(o),
         requests' = With(requests, at, Request(at, o))
  PROVE  RequestsTyped'
<1>1. DOMAIN requests' = DOMAIN requests \cup {at}
  BY DEF With
<1>2. \A b \in DOMAIN requests' : requests'[b] = IF b = at THEN Request(at, o) ELSE requests[b]
  BY DEF With
<1>3. \A b \in DOMAIN requests' : RequestIs(requests'[b])
  BY <1>1, <1>2, RequestTyped DEF RequestsTyped
<1>4. HasYoungest(requests')
  <2>1. \A b \in DOMAIN requests' : requests'[b].born \in Nat
    BY <1>3 DEF RequestIs, IsRequest
  <2>2. /\ HasYoungest(requests)
        /\ \A b \in DOMAIN requests \ {at} : requests'[b].born = requests[b].born
    BY <1>1, <1>2 DEF RequestsTyped
  <2>. QED  BY <1>1, <2>1, <2>2, YoungestOfMore
<1>. QED  BY <1>1, <1>3, <1>4 DEF RequestsTyped

LEMMA FewerRequests ==
  ASSUME RequestsTyped, NEW T, requests' = Without(requests, T)
  PROVE  RequestsTyped'
<1>1. /\ DOMAIN requests' \subseteq DOMAIN requests
      /\ \A b \in DOMAIN requests' : requests'[b] = requests[b]
  BY DEF Without
<1>2. HasYoungest(requests')
  BY <1>1, YoungestOfSome DEF RequestsTyped
<1>. QED  BY <1>1, <1>2 DEF RequestsTyped

-----------------------------------------------------------------------------
(* The deployment controller.                                              *)

(* The first steps of a pass, or all of them.                              *)
LEMMA RunStepsTyped ==
  ASSUME TypeInv, NEW at \in queue, at \in DOMAIN spec, NEW n \in 1..Len(Steps), RunSteps(at, n)
  PROVE  /\ ObjectsTyped' /\ RequestsTyped' /\ IngressesTyped' /\ PassTyped'
         /\ due' \subseteq AppTargets /\ switched' \in BOOLEAN /\ certs' \subseteq Certs
<1>. DEFINE o == spec[at]
            done(s) == \E i \in 1..n : Steps[i] = s
<1>1. at \in AppTargets /\ IsOption(o)
  BY DEF TypeInv, ObjectsTyped
<1>2. /\ UNCHANGED <<spec, ingresses, certs, job>>
      /\ services' \subseteq services \cup {at} /\ rules' \subseteq rules \cup {at}
      /\ orphans' \subseteq orphans
  BY DEF RunSteps
<1>3. DOMAIN virtual' \subseteq DOMAIN virtual \cup {at}
  BY DEF RunSteps, With, Without
<1>4. DOMAIN monitors' \subseteq DOMAIN monitors \cup {at}
  BY DEF RunSteps, With
<1>5. hostname' \in [AppTargets -> Addresses]
  <2>1. at \in DOMAIN requests => requests[at].address \in Addresses
    BY DEF TypeInv, RequestsTyped, RequestIs, IsRequest
  <2>2. /\ hostname[at] \in Addresses /\ NoAddress \in Addresses
        /\ hostname \in [AppTargets -> Addresses]
    BY <1>1 DEF TypeInv, ObjectsTyped, Addresses
  <2>3. \/ hostname' = hostname
        \/ \E a \in Addresses : hostname' = [hostname EXCEPT ![at] = a]
    BY <2>1, <2>2 DEF RunSteps
  <2>. QED  BY <2>2, <2>3
<1>6. ObjectsTyped'
  BY <1>1, <1>2, <1>3, <1>4, <1>5 DEF TypeInv, ObjectsTyped
<1>7. RequestsTyped'
  <2>1. \/ requests' = requests
        \/ requests' = With(requests, at, Request(at, o))
        \/ requests' = Without(requests, {at})
    BY DEF RunSteps
  <2>2. RequestsTyped
    BY DEF TypeInv
  <2>. QED  BY <1>1, <2>1, <2>2, MoreRequests, FewerRequests DEF RequestsTyped
<1>8. due' \subseteq AppTargets
  BY <1>1 DEF RunSteps, TypeInv, QueuesTyped
<1>9. switched' \in BOOLEAN
  BY DEF RunSteps, TypeInv, CountersTyped
<1>10. certs' \subseteq Certs
  BY <1>2 DEF TypeInv, CountersTyped
<1>11. IngressesTyped' /\ PassTyped'
  BY <1>2 DEF TypeInv, IngressesTyped, PassTyped
<1>. QED  BY <1>6, <1>7, <1>8, <1>9, <1>10, <1>11

LEMMA DeployTyped ==
  ASSUME TypeInv, NEW at \in AppTargets, Deploy(at)
  PROVE  TypeInv'
<1>1. at \in queue /\ at \in DOMAIN spec /\ RunSteps(at, Len(Steps)) /\ steps' = steps
  BY DEF Deploy
<1>2. Len(Steps) \in 1..Len(Steps)
  BY DEF Steps
<1>3. queue' \subseteq AppTargets
  BY DEF Deploy, TypeInv, QueuesTyped
<1>4. steps' \in Nat /\ missed' \subseteq AppTargets
  BY <1>1 DEF Deploy, TypeInv, CountersTyped
<1>. QED
  BY <1>1, <1>2, <1>3, <1>4, RunStepsTyped DEF TypeInv, CountersTyped, QueuesTyped

LEMMA DeployFailsTyped ==
  ASSUME TypeInv, NEW at \in AppTargets, DeployFails(at)
  PROVE  TypeInv'
<1>1. PICK n \in 1..(Len(Steps) - 1) : RunSteps(at, n)
  BY DEF DeployFails
<1>2. n \in 1..Len(Steps)
  BY DEF Steps
<1>3. /\ at \in queue /\ at \in DOMAIN spec /\ queue' = queue /\ missed' = missed
      /\ steps' = steps + 1
  BY DEF DeployFails, Bounded
<1>4. queue' \subseteq AppTargets /\ missed' \subseteq AppTargets /\ steps' \in Nat
  BY <1>3 DEF TypeInv, CountersTyped, QueuesTyped
<1>. QED
  BY <1>1, <1>2, <1>3, <1>4, RunStepsTyped DEF TypeInv, CountersTyped, QueuesTyped

LEMMA CollectTyped ==
  ASSUME TypeInv, NEW at, NEW kind, Collect(at, kind)
  PROVE  TypeInv'
<1>0. at \in AppTargets
  BY DEF Collect, TypeInv, ObjectsTyped
<1>1. /\ UNCHANGED <<spec, hostname, ingresses, certs, job, switched, steps>>
      /\ services' \subseteq services /\ rules' \subseteq rules /\ orphans' \subseteq orphans
      /\ queue' \subseteq queue \cup {at} /\ due' \subseteq due \cup {at}
      /\ missed' \subseteq missed \cup {at}
  BY DEF Collect
<1>2. DOMAIN virtual' \subseteq DOMAIN virtual /\ DOMAIN monitors' = DOMAIN monitors
  BY DEF Collect, Without
<1>3. ObjectsTyped'
  BY <1>1, <1>2 DEF TypeInv, ObjectsTyped
<1>4. RequestsTyped'
  <2>1. \E T : requests' = Without(requests, T)
    BY DEF Collect
  <2>. QED  BY <2>1, FewerRequests DEF TypeInv
<1>5. IngressesTyped' /\ PassTyped' /\ CountersTyped'
  BY <1>0, <1>1 DEF TypeInv, IngressesTyped, PassTyped, CountersTyped
<1>6. QueuesTyped'
  BY <1>0, <1>1 DEF TypeInv, QueuesTyped
<1>. QED  BY <1>3, <1>4, <1>5, <1>6 DEF TypeInv

-----------------------------------------------------------------------------
(* The ingress request controller.                                         *)

LEMMA BeginPassTyped ==
  ASSUME TypeInv, NEW at \in AppTargets, BeginPass(at)
  PROVE  TypeInv'
<1>. DEFINE all == at \notin DOMAIN requests
            groups == {requests[b].protocol : b \in RequestsOf(at[2])}
            mine == IF all THEN groups ELSE {requests[at].protocol}
            seen == [b \in RequestsOf(at[2]) |-> requests[b]]
<1>1. /\ job' = [target |-> at[2], name |-> at, all |-> all, groups |-> mine, todo |-> mine,
                 seen |-> seen]
      /\ due' = due \ {at}
      /\ UNCHANGED <<spec, hostname, owned, ingresses, certs, queue, history, steps>>
  BY DEF BeginPass
<1>2. \A b \in DOMAIN requests : RequestIs(requests[b]) /\ requests[b].protocol \in Protocols
  BY DEF TypeInv, RequestsTyped, RequestIs, IsRequest
<1>3. RequestsOf(at[2]) \subseteq DOMAIN requests
  BY DEF RequestsOf
<1>4. mine \subseteq Protocols /\ all \in BOOLEAN
  BY <1>2, <1>3
<1>5. \A b \in DOMAIN seen : RequestIs(seen[b])
  BY <1>2, <1>3
<1>6. at[2] \in Targets
  BY DEF Targets
<1>. HIDE DEF all, mine, seen
<1>7. PassTyped'
  BY <1>1, <1>4, <1>5, <1>6 DEF PassTyped
<1>8. QueuesTyped'
  BY <1>1 DEF TypeInv, QueuesTyped
<1>9. ObjectsTyped' /\ RequestsTyped' /\ IngressesTyped' /\ CountersTyped'
  BY <1>1 DEF TypeInv, objects, owned, history, ObjectsTyped, RequestsTyped, IngressesTyped,
              CountersTyped
<1>. QED  BY <1>7, <1>8, <1>9 DEF TypeInv

LEMMA ConcernedAre ==
  ASSUME RequestsTyped, NEW k
  PROVE  ConcernedByIngress(k) \subseteq AppTargets
BY DEF ConcernedByIngress, Oldest, RequestsOf, RequestsTyped

LEMMA FinishPassTyped ==
  ASSUME TypeInv, FinishPass
  PROVE  TypeInv'
<1>. DEFINE gone == IF job.all THEN {k \in DOMAIN ingresses : Unmatched(k)} ELSE {}
<1>1. /\ ingresses' = Without(ingresses, gone)
      /\ due' = due \cup UNION {ConcernedByIngress(k) : k \in gone}
      /\ job' = NoPass
      /\ UNCHANGED <<spec, hostname, owned, certs, queue, history, steps>>
  BY DEF FinishPass
<1>. HIDE DEF gone
<1>2. IngressesTyped'
  <2>1. /\ DOMAIN ingresses' \subseteq DOMAIN ingresses
        /\ ingresses' = [k \in DOMAIN ingresses' |-> ingresses'[k]]
    BY <1>1 DEF Without
  <2>2. \A k \in DOMAIN ingresses' : ingresses'[k] = ingresses[k]
    BY <1>1 DEF Without
  <2>. QED  BY <2>1, <2>2 DEF TypeInv, IngressesTyped
<1>3. QueuesTyped'
  <2>1. \A k \in gone : ConcernedByIngress(k) \subseteq AppTargets
    BY ConcernedAre DEF TypeInv
  <2>. QED  BY <1>1, <2>1 DEF TypeInv, QueuesTyped
<1>4. PassTyped'
  BY <1>1 DEF PassTyped
<1>5. ObjectsTyped' /\ RequestsTyped' /\ CountersTyped'
  BY <1>1 DEF TypeInv, objects, owned, history, ObjectsTyped, RequestsTyped, CountersTyped
<1>. QED  BY <1>2, <1>3, <1>4, <1>5 DEF TypeInv

LEMMA PassFailsTyped ==
  ASSUME TypeInv, PassFails
  PROVE  TypeInv'
<1>1. /\ job # NoPass /\ due' = due \cup {job.name} /\ job' = NoPass /\ steps' = steps + 1
      /\ UNCHANGED <<spec, hostname, owned, ingresses, certs, queue, history>>
  BY DEF PassFails, Bounded
<1>2. QueuesTyped'
  BY <1>1 DEF TypeInv, QueuesTyped, PassTyped
<1>3. CountersTyped'
  BY <1>1 DEF TypeInv, history, CountersTyped
<1>4. PassTyped'
  BY <1>1 DEF PassTyped
<1>5. ObjectsTyped' /\ RequestsTyped' /\ IngressesTyped'
  BY <1>1 DEF TypeInv, objects, owned, history, ObjectsTyped, RequestsTyped, IngressesTyped
<1>. QED  BY <1>2, <1>3, <1>4, <1>5 DEF TypeInv

(* An ingress redirects HTTP only if it has a certificate, and names only  *)
(* certificates that exist.                                                *)
LEMMA IngressTyped ==
  ASSUME certs \subseteq Certs, NEW R, NEW p, NEW a \in Addresses
  PROVE  IngressIs(IngressFor(R, p, a))
<1>. DEFINE hosts == UNION {job.seen[at].hosts : at \in R}
            arns == {c.id : c \in UNION {Certificate(h) : h \in hosts}}
            tls == {h \in hosts : p = "grpc" \/ Certificate(h) # {}}
            redirect == arns # {} /\ p # "grpc" /\ \E at \in R : job.seen[at].https
            in == IngressFor(R, p, a)
<1>1. \A h : Certificate(h) \subseteq Certs
  BY DEF Certificate, Covering
<1>2. arns \subseteq {c.id : c \in Certs}
  <2>. DEFINE C == UNION {Certificate(h) : h \in hosts}
  <2>1. C \subseteq Certs
    BY <1>1
  <2>. HIDE DEF C, hosts
  <2>2. {c.id : c \in C} \subseteq {c.id : c \in Certs}
    BY <2>1
  <2>. QED  BY <2>2 DEF C
<1>3. in = [tls |-> tls, arns |-> arns, redirect |-> redirect, address |-> a]
  BY DEF IngressFor
<1>4. redirect \in BOOLEAN /\ (redirect => arns # {})
  OBVIOUS
<1>. HIDE DEF tls, arns, redirect, in
<1>5. in.arns = arns /\ in.redirect = redirect /\ in.address = a
  BY <1>3
<1>6. IsIngress(in)
  BY <1>2, <1>4, <1>5 DEF IsIngress
<1>7. in = [tls |-> in.tls, arns |-> in.arns, redirect |-> in.redirect, address |-> in.address]
  BY <1>3
<1>. QED  BY <1>6, <1>7 DEF IngressIs, in

(* Requests that are told an address keep everything else.                 *)
LEMMA ToldRequests ==
  ASSUME RequestsTyped, NEW told, NEW a \in Addresses,
         requests' = [at \in DOMAIN requests |->
                        IF at \in told THEN [requests[at] EXCEPT !.address = a] ELSE requests[at]]
  PROVE  RequestsTyped'
<1>1. DOMAIN requests' = DOMAIN requests
  OBVIOUS
<1>2. \A at \in DOMAIN requests : RequestIs(requests'[at]) /\ requests'[at].born = requests[at].born
  <2>. SUFFICES ASSUME NEW at \in DOMAIN requests
                PROVE  RequestIs(requests'[at]) /\ requests'[at].born = requests[at].born
    OBVIOUS
  <2>. DEFINE r == requests[at]
              s == [hosts |-> r.hosts, protocol |-> r.protocol, https |-> r.https,
                    born |-> r.born, address |-> a]
  <2>1. RequestIs(r) /\ IsRequest(r)
    BY DEF RequestsTyped, RequestIs
  <2>2. CASE at \in told
    <3>1. requests'[at] = [r EXCEPT !.address = a]
      BY <2>2
    <3>2. r = [hosts |-> r.hosts, protocol |-> r.protocol, https |-> r.https,
               born |-> r.born, address |-> r.address]
      BY <2>1 DEF RequestIs
    <3>3. requests'[at] = s
      BY <3>1, <3>2
    <3>4. RequestIs(s) /\ s.born = r.born
      BY <2>1 DEF RequestIs, IsRequest
    <3>. QED  BY <3>3, <3>4
  <2>3. CASE at \notin told
    BY <2>1, <2>3
  <2>. QED  BY <2>2, <2>3
<1>3. HasYoungest(requests')
  BY <1>1, <1>2, YoungestOfSome DEF RequestsTyped
<1>. QED  BY <1>1, <1>2, <1>3 DEF RequestsTyped

LEMMA SyncProtocolTyped ==
  ASSUME TypeInv, job # NoPass, NEW p \in Protocols, SyncProtocol(p)
  PROVE  TypeInv'
<1>. DEFINE k == <<job.target, p>>
            R == {at \in DOMAIN job.seen : job.seen[at].protocol = p}
            a == IF k \in DOMAIN ingresses THEN ingresses[k].address ELSE NoAddress
            new == IngressFor(R, p, a)
            same(at) == at \in DOMAIN requests /\ requests[at] = job.seen[at]
            untold == {at \in R : job.seen[at].address # new.address}
            told == {at \in untold :
                       \A b \in untold : job.seen[b].born <= job.seen[at].born => same(b)}
<1>1. /\ p \in job.todo
      /\ ingresses' = With(ingresses, k, new)
      /\ requests' = [at \in DOMAIN requests |->
                        IF at \in told THEN [requests[at] EXCEPT !.address = new.address]
                        ELSE requests[at]]
      /\ due' = due \cup told \cup
                (IF ingresses' = ingresses THEN {} ELSE ConcernedByIngress(k))
      /\ queue' = queue \cup told
      /\ job' = [job EXCEPT !.todo = @ \ {p}]
      /\ UNCHANGED <<spec, hostname, objects, orphans, certs, history, steps>>
  BY DEF SyncProtocol
<1>2. k \in Keys
  BY DEF TypeInv, PassTyped, Keys
<1>3. a \in Addresses
  BY DEF TypeInv, IngressesTyped, IngressIs, IsIngress, Addresses
<1>4. IngressIs(new)
  BY <1>3, IngressTyped DEF TypeInv, CountersTyped
<1>5. new.address \in Addresses
  BY <1>4 DEF IngressIs, IsIngress
<1>6. told \subseteq DOMAIN requests
  BY DEF TypeInv, PassTyped, RequestIs, IsRequest
<1>. HIDE DEF k, new, told
<1>7. IngressesTyped'
  <2>1. /\ DOMAIN ingresses' = DOMAIN ingresses \cup {k}
        /\ ingresses' = [x \in DOMAIN ingresses' |-> ingresses'[x]]
    BY <1>1 DEF With
  <2>2. \A x \in DOMAIN ingresses' : ingresses'[x] = IF x = k THEN new ELSE ingresses[x]
    BY <1>1 DEF With
  <2>. QED  BY <1>2, <1>4, <2>1, <2>2 DEF TypeInv, IngressesTyped
<1>8. RequestsTyped'
  BY <1>1, <1>5, ToldRequests DEF TypeInv
<1>9. QueuesTyped'
  <2>1. told \subseteq AppTargets
    BY <1>6 DEF TypeInv, RequestsTyped
  <2>2. ConcernedByIngress(k) \subseteq AppTargets
    BY ConcernedAre DEF TypeInv
  <2>. QED  BY <1>1, <2>1, <2>2 DEF TypeInv, QueuesTyped
<1>10. PassTyped'
  <2>1. job = [target |-> job.target, name |-> job.name, all |-> job.all,
               groups |-> job.groups, todo |-> job.todo, seen |-> job.seen]
    BY DEF TypeInv, PassTyped
  <2>2. job' = [target |-> job.target, name |-> job.name, all |-> job.all,
                groups |-> job.groups, todo |-> job.todo \ {p}, seen |-> job.seen]
    BY <1>1, <2>1
  <2>3. /\ job'.target = job.target /\ job'.name = job.name /\ job'.all = job.all
        /\ job'.groups = job.groups /\ job'.todo = job.todo \ {p} /\ job'.seen = job.seen
    BY <2>2
  <2>4. /\ job'.todo \subseteq job'.groups
        /\ job' = [target |-> job'.target, name |-> job'.name, all |-> job'.all,
                   groups |-> job'.groups, todo |-> job'.todo, seen |-> job'.seen]
    BY <2>2, <2>3 DEF TypeInv, PassTyped
  <2>. QED  BY <2>3, <2>4 DEF TypeInv, PassTyped
<1>11. ObjectsTyped' /\ CountersTyped'
  BY <1>1 DEF TypeInv, objects, owned, history, ObjectsTyped, CountersTyped
<1>. QED  BY <1>7, <1>8, <1>9, <1>10, <1>11 DEF TypeInv

LEMMA AssignTyped ==
  ASSUME TypeInv, NEW k \in Keys, Assign(k)
  PROVE  TypeInv'
<1>1. /\ k \in DOMAIN ingresses
      /\ ingresses' = [ingresses EXCEPT ![k].address = "assigned"]
      /\ due' = due \cup ConcernedByIngress(k)
      /\ UNCHANGED <<spec, hostname, owned, certs, queue, job, history, steps>>
  BY DEF Assign
<1>2. IngressesTyped'
  <2>1. ingresses = [x \in DOMAIN ingresses |-> ingresses[x]] /\ IngressIs(ingresses[k])
    BY <1>1 DEF TypeInv, IngressesTyped
  <2>2. /\ DOMAIN ingresses' = DOMAIN ingresses
        /\ \A x \in DOMAIN ingresses \ {k} : ingresses'[x] = ingresses[x]
        /\ ingresses'[k] = [ingresses[k] EXCEPT !.address = "assigned"]
        /\ ingresses' = [x \in DOMAIN ingresses' |-> ingresses'[x]]
    BY <1>1, <2>1
  <2>. DEFINE in == ingresses[k]
              out == [tls |-> in.tls, arns |-> in.arns, redirect |-> in.redirect,
                      address |-> "assigned"]
  <2>3. in = [tls |-> in.tls, arns |-> in.arns, redirect |-> in.redirect, address |-> in.address]
    BY <2>1 DEF IngressIs
  <2>4. ingresses'[k] = out
    BY <2>2, <2>3
  <2>5. IngressIs(out)
    BY <2>1 DEF IngressIs, IsIngress, Addresses
  <2>. QED  BY <2>2, <2>4, <2>5 DEF TypeInv, IngressesTyped
<1>3. QueuesTyped'
  BY <1>1, ConcernedAre DEF TypeInv, QueuesTyped
<1>4. ObjectsTyped' /\ RequestsTyped' /\ CountersTyped' /\ PassTyped'
  BY <1>1 DEF TypeInv, objects, owned, history, ObjectsTyped, RequestsTyped, CountersTyped,
              PassTyped
<1>. QED  BY <1>2, <1>3, <1>4 DEF TypeInv

-----------------------------------------------------------------------------
(* Users, and all steps.                                                   *)

LEMMA EditManifestTyped ==
  ASSUME TypeInv, NEW at \in AppTargets, NEW o \in Options[at], EditManifest(at, o)
  PROVE  TypeInv'
<1>1. /\ spec' = With(spec, at, o) /\ queue' = queue \cup {at} /\ steps' = steps + 1
      /\ UNCHANGED <<hostname, owned, ingresses, certs, due, job, history>>
  BY DEF EditManifest, Bounded
<1>2. IsOption(o)
  BY IngressesAssumption
<1>3. /\ DOMAIN spec' = DOMAIN spec \cup {at}
      /\ \A b \in DOMAIN spec' : spec'[b] = IF b = at THEN o ELSE spec[b]
  BY <1>1 DEF With
<1>4. ObjectsTyped'
  BY <1>1, <1>2, <1>3 DEF TypeInv, objects, owned, history, ObjectsTyped
<1>5. QueuesTyped' /\ CountersTyped'
  BY <1>1 DEF TypeInv, history, QueuesTyped, CountersTyped
<1>6. RequestsTyped' /\ IngressesTyped' /\ PassTyped'
  BY <1>1 DEF TypeInv, owned, RequestsTyped, IngressesTyped, PassTyped
<1>. QED  BY <1>4, <1>5, <1>6 DEF TypeInv

LEMMA DeleteAppTyped ==
  ASSUME TypeInv, NEW at \in AppTargets, DeleteApp(at)
  PROVE  TypeInv'
<1>1. /\ spec' = Without(spec, {at}) /\ queue' = queue \ {at} /\ steps' = steps + 1
      /\ hostname' = [hostname EXCEPT ![at] = NoAddress]
      /\ orphans' = orphans \cup {x \in Owned : x[1] = at}
      /\ UNCHANGED <<objects, requests, ingresses, certs, due, job, history>>
  BY DEF DeleteApp, Bounded
<1>2. DOMAIN spec' \subseteq DOMAIN spec /\ \A b \in DOMAIN spec' : spec'[b] = spec[b]
  BY <1>1 DEF Without
<1>3. hostname' \in [AppTargets -> Addresses]
  BY <1>1 DEF TypeInv, ObjectsTyped, Addresses
<1>4. {x \in Owned : x[1] = at} \subseteq AppTargets \X Kinds
  <2>. SUFFICES Owned \subseteq AppTargets \X Kinds
    OBVIOUS
  <2>1. /\ services \subseteq AppTargets /\ rules \subseteq AppTargets
        /\ DOMAIN virtual \subseteq AppTargets /\ DOMAIN monitors \subseteq AppTargets
        /\ DOMAIN requests \subseteq AppTargets
    BY DEF TypeInv, ObjectsTyped, RequestsTyped
  <2>. QED  BY <2>1 DEF Owned, Kinds
<1>5. ObjectsTyped'
  BY <1>1, <1>2, <1>3, <1>4 DEF TypeInv, objects, ObjectsTyped
<1>6. QueuesTyped' /\ CountersTyped'
  BY <1>1 DEF TypeInv, history, QueuesTyped, CountersTyped
<1>7. RequestsTyped' /\ IngressesTyped' /\ PassTyped'
  BY <1>1 DEF TypeInv, RequestsTyped, IngressesTyped, PassTyped
<1>. QED  BY <1>5, <1>6, <1>7 DEF TypeInv

LEMMA SyncCertsTyped ==
  ASSUME TypeInv, SyncCerts
  PROVE  TypeInv'
<1>1. /\ due' = due \cup UNION {ConcernedByCert(c) : c \in (certs \ certs') \cup (certs' \ certs)}
      /\ steps' = steps + 1
      /\ UNCHANGED <<spec, hostname, owned, ingresses, queue, job, history>>
  BY DEF SyncCerts, Bounded
<1>2. certs' \subseteq Certs
  <2>1. PICK provided \in Provided :
          certs' \in {provided} \cup {certs \cup S : S \in SUBSET provided}
    BY DEF SyncCerts
  <2>2. provided \subseteq Certs /\ certs \subseteq Certs
    BY IngressesAssumption DEF TypeInv, CountersTyped
  <2>. QED  BY <2>1, <2>2
<1>3. QueuesTyped'
  <2>1. \A c : ConcernedByCert(c) \subseteq AppTargets
    BY DEF ConcernedByCert, Oldest, RequestsOf, TypeInv, RequestsTyped
  <2>. QED  BY <1>1, <2>1 DEF TypeInv, QueuesTyped
<1>4. CountersTyped'
  BY <1>1, <1>2 DEF TypeInv, history, CountersTyped
<1>5. ObjectsTyped' /\ RequestsTyped' /\ IngressesTyped' /\ PassTyped'
  BY <1>1 DEF TypeInv, objects, owned, history, ObjectsTyped, RequestsTyped, IngressesTyped,
              PassTyped
<1>. QED  BY <1>3, <1>4, <1>5 DEF TypeInv

LEMMA StepTyped ==
  ASSUME TypeInv, [Next]_vars
  PROVE  TypeInv'
<1>1. ASSUME NEW at \in AppTargets, Deploy(at) \/ DeployFails(at) \/ DeleteApp(at)
      PROVE  TypeInv'
  BY <1>1, DeployTyped, DeployFailsTyped, DeleteAppTyped
<1>2. ASSUME NEW at \in AppTargets, NEW o \in Options[at], EditManifest(at, o)
      PROVE  TypeInv'
  BY <1>2, EditManifestTyped
<1>3. CASE IngressController
  BY <1>3, BeginPassTyped, SyncProtocolTyped, FinishPassTyped DEF IngressController
<1>4. CASE PassFails
  BY <1>4, PassFailsTyped
<1>5. ASSUME NEW k \in Keys, Assign(k)
      PROVE  TypeInv'
  BY <1>5, AssignTyped
<1>6. CASE SyncCerts
  BY <1>6, SyncCertsTyped
<1>7. ASSUME NEW x \in orphans, Collect(x[1], x[2])
      PROVE  TypeInv'
  BY <1>7, CollectTyped
<1>8. CASE UNCHANGED vars
  BY <1>8 DEF vars, objects, owned, history, TypeInv, ObjectsTyped, RequestsTyped,
              IngressesTyped, PassTyped,
              CountersTyped, QueuesTyped
<1>. QED
  BY <1>1, <1>2, <1>3, <1>4, <1>5, <1>6, <1>7, <1>8 DEF Next

(* In every reachable state the objects have their types: an ingress       *)
(* redirects HTTP only if it has a certificate, also while certificates    *)
(* and requests are replaced, and it names only certificates that exist;   *)
(* each request has the time it was made, which orders those of a target;  *)
(* and a pass works only on requests, protocols and targets that can exist *)
(* (ConfigureIngress, reconcileForAppProtocol, reconcileIngressRequest).   *)
THEOREM IngressesTypeCorrect == Spec => []TypeOK
<1>1. Init => TypeInv
  BY InitTyped
<1>2. TypeInv /\ [Next]_vars => TypeInv'
  BY StepTyped
<1>3. TypeInv => TypeOK
  BY TypesHold
<1>. QED  BY <1>1, <1>2, <1>3, PTL DEF Spec
=============================================================================
