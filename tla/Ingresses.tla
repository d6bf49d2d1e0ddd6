----------------------------- MODULE Ingresses -----------------------------
(***************************************************************************)
(* How an app target is reached: its service, virtual service, monitor and *)
(* ingress request, the ingresses and the certificates on them.            *)
(*                                                                         *)
(* The deployment controller keeps a service and what goes with it for     *)
(* each app target, and an ingress request for those that want an ingress. *)
(* The ingress request controller makes one ingress of all requests of a   *)
(* target that have the same protocol, and tells each request the address  *)
(* that the load balancer got.  Releases and their weights, which the      *)
(* virtual service carries too, are in module Rollout.                     *)
(***************************************************************************)
EXTENDS Integers, Sequences, FiniteSetsExt, Maps

CONSTANTS
  AppTargets,  \* pairs of an app and a target
  Options,     \* what the manifest of each may say: see IsOption
  FirstSpecs,  \* the app targets that may exist at first
  Certs,       \* certificates: [id, domain, expires], domains being sequences
  FirstCerts,  \* those that the cluster may know at first
  Provided,    \* those that the provider may list, a set of sets
  MaxSteps     \* bound: manifests changed, certificates synced, failures

Targets == {at[2] : at \in AppTargets}
Protocols == {"", "grpc"}
Keys == Targets \X Protocols
NoAddress == "none"
Addresses == {NoAddress, "assigned"}
Kinds == {"service", "rule", "virtual", "monitor", "rules", "request"}

(* ports: there are some.  watched: which of the two objects of Prometheus *)
(* the manifest asks for.  Without hosts there is no ingress.              *)
IsOption(o) ==
  /\ o.ports \in BOOLEAN /\ o.watched \subseteq {"monitor", "rules"}
  /\ o.protocol \in Protocols /\ o.https \in BOOLEAN
  /\ IsFiniteSet(o.hosts)

ASSUME IngressesAssumption ==
  /\ \A at \in AppTargets : \A o \in Options[at] : IsOption(o)
  /\ \A f \in FirstSpecs :
       DOMAIN f \subseteq AppTargets /\ \A at \in DOMAIN f : f[at] \in Options[at]
  /\ \A c, d \in Certs : c.id = d.id => c = d
  /\ FirstCerts \cup Provided \subseteq SUBSET Certs
  /\ MaxSteps \in Nat

VARIABLES
  spec,       \* the app targets that exist, with their options
  hostname,   \* the hostname in an app target's status
  services,   \* app targets with a service
  rules,      \* app targets with a destination rule
  virtual,    \* the hosts of an app target's virtual service
  monitors,   \* the objects of Prometheus for an app target
  requests,   \* ingress requests: [hosts, protocol, https, born, address]
  orphans,    \* objects, by app target and kind, whose owner was deleted
  ingresses,  \* by target and protocol: [tls, arns, redirect, address]
  certs,      \* the certificates the cluster knows
  queue,      \* app targets the deployment controller is to reconcile
  due,        \* names of requests to reconcile
  job,        \* the ingress request controller's pass, or NoPass
  switched,   \* history: a request changed its protocol
  missed,     \* history: app targets that lost an object that is not watched
  steps

objects == <<services, rules, virtual, monitors>>
owned == <<objects, requests, orphans>>
history == <<switched, missed>>
vars == <<spec, hostname, owned, ingresses, certs, queue, due, job, history, steps>>

NoPass == [target |-> "none"]
IsRequest(r) ==
  /\ IsFiniteSet(r.hosts) /\ r.protocol \in Protocols /\ r.https \in BOOLEAN
  /\ r.born \in Nat /\ r.address \in Addresses
IsIngress(in) ==
  /\ in.arns \subseteq {c.id : c \in Certs} /\ in.redirect \in BOOLEAN
  /\ in.address \in Addresses /\ (in.redirect => in.arns # {})

TypeOK ==
  /\ DOMAIN spec \subseteq AppTargets /\ \A at \in DOMAIN spec : IsOption(spec[at])
  /\ DOMAIN hostname = AppTargets /\ \A at \in AppTargets : hostname[at] \in Addresses
  /\ services \cup rules \cup DOMAIN virtual \cup DOMAIN monitors \subseteq AppTargets
  /\ \A at \in DOMAIN requests : at \in AppTargets /\ IsRequest(requests[at])
  /\ \A k \in DOMAIN ingresses : k \in Keys /\ IsIngress(ingresses[k])
  /\ certs \subseteq Certs
  /\ queue \subseteq AppTargets /\ due \subseteq AppTargets
  /\ \/ job = NoPass
     \/ /\ job.target \in Targets /\ job.all \in BOOLEAN
        /\ job.todo \subseteq job.groups /\ job.groups \subseteq Protocols
        /\ \A at \in DOMAIN job.seen : IsRequest(job.seen[at])
  /\ orphans \subseteq AppTargets \X Kinds
  /\ switched \in BOOLEAN /\ missed \subseteq AppTargets /\ steps \in Nat

Init ==
  /\ spec \in FirstSpecs
  /\ hostname = [at \in AppTargets |-> NoAddress]
  /\ services = {} /\ rules = {} /\ virtual = << >> /\ monitors = << >>
  /\ requests = << >> /\ orphans = {} /\ ingresses = << >> /\ certs \in FirstCerts
  /\ queue = DOMAIN spec /\ due = {} /\ job = NoPass
  /\ switched = FALSE /\ missed = {} /\ steps = 0

Bounded == steps < MaxSteps /\ steps' = steps + 1

-----------------------------------------------------------------------------
(* Certificates and requests.                                              *)

(* A first label may be a wildcard, and a wildcard covers the bare domain. *)
CertificateCovers(cert, host) ==
  IF Len(cert) # Len(host) THEN cert = <<"*">> \o host
  ELSE \A i \in 1..Len(cert) : cert[i] = host[i] \/ (i = 1 /\ cert[i] = "*")

Covering(host) == {c \in certs : CertificateCovers(c.domain, host)}

(* Mutant: the certificate that expires first.                             *)
FirstToExpire(host) == {c \in Covering(host) : \A d \in Covering(host) : d.expires >= c.expires}

(* GetCertificatesForHosts: the one that expires last.                     *)
Certificate(host) == {c \in Covering(host) : \A d \in Covering(host) : d.expires <= c.expires}

RequestsOf(target) == {at \in DOMAIN requests : at[2] = target}
Oldest(S) == {at \in S : \A b \in S : requests[at].born <= requests[b].born}

(* Mutant: only requests that know an address are told of another.         *)
ConcernedIfTold(k) ==
  Oldest({at \in RequestsOf(k[1]) :
            requests[at].protocol = k[2] /\ requests[at].address # NoAddress})

(* The watch on ingresses: the oldest request for a changed ingress.       *)
ConcernedByIngress(k) == Oldest({at \in RequestsOf(k[1]) : requests[at].protocol = k[2]})

(* The watch on certificates: of each target only the oldest request.      *)
ConcernedByCert(c) ==
  {at \in UNION {Oldest(RequestsOf(t)) : t \in Targets} :
     \E h \in requests[at].hosts : CertificateCovers(c.domain, h)}

-----------------------------------------------------------------------------
(* The deployment controller: reconcileService, -PrometheusServiceMonitor, *)
(* -PrometheusRules, -DestinationRule, -VirtualService, -IngressRequest,   *)
(* then the status.  A pass that fails does the first steps only; monitors *)
(* are made with the service, destination rules with the virtual service.  *)

Steps == <<"service", "virtual", "request", "status">>

Watching(o) == {x \in o.watched : x = "monitor" => o.ports}

Request(at, o) ==
  LET old == at \in DOMAIN requests
  IN  [hosts    |-> o.hosts, protocol |-> o.protocol, https |-> o.https,
       born     |-> IF old THEN requests[at].born
                    ELSE 1 + Max({requests[b].born : b \in DOMAIN requests} \cup {0}),
       address  |-> IF old THEN requests[at].address ELSE NoAddress]

(* Mutant: only the app target itself is watched.                          *)
StatusChanged == hostname' # hostname

(* Changes that queue the app target: of its status, or of objects it owns *)
(* that are watched; destination rules and monitors are not.               *)
Noticed ==
  hostname' # hostname \/ services' # services \/ virtual' # virtual \/ requests' # requests

(* The objects that exist, by app target and kind.                         *)
Owned ==
  {<<at, "service">> : at \in services} \cup {<<at, "rule">> : at \in rules}
    \cup {<<at, "virtual">> : at \in DOMAIN virtual}
    \cup {<<at, "request">> : at \in DOMAIN requests}
    \cup {x \in (DOMAIN monitors) \X {"monitor", "rules"} : x[2] \in monitors[x[1]]}

(* A service in the pass that deletes it counts as one in the steps that   *)
(* follow: what goes with it is left for the next pass.  Destination rules *)
(* stay.  The hostname is reset with the service, and taken from the       *)
(* request that was there before.  What exists is updated, whoever owns it,*)
(* and keeps its owner.                                                    *)
RunSteps(at, n) ==
  LET o == spec[at]
      done(s) == \E i \in 1..n : Steps[i] = s
      service == o.ports \/ at \in services
      wanted == o.hosts # {}
      reset == IF o.ports THEN NoAddress ELSE hostname[at]
  IN  /\ services' = IF ~done("service") THEN services
                     ELSE IF o.ports THEN services \cup {at} ELSE services \ {at}
      /\ monitors' = IF done("service") THEN With(monitors, at, Watching(o)) ELSE monitors
      /\ rules' = IF done("virtual") /\ service THEN rules \cup {at} ELSE rules
      /\ virtual' = IF ~done("virtual") THEN virtual
                    ELSE IF service THEN With(virtual, at, o.hosts) ELSE Without(virtual, {at})
      /\ requests' = IF ~done("request") THEN requests
                     ELSE IF wanted THEN With(requests, at, Request(at, o))
                     ELSE Without(requests, {at})
      /\ due' = IF requests' = requests THEN due ELSE due \cup {at}
      /\ switched' = (switched \/ \E b \in DOMAIN requests \cap DOMAIN requests' :
                                    requests'[b].protocol # requests[b].protocol)
      /\ hostname' = IF ~done("status") THEN hostname
                     ELSE [hostname EXCEPT ![at] =
                             IF wanted /\ at \in DOMAIN requests THEN requests[at].address
                             ELSE reset]
      /\ orphans' = orphans \cap Owned'
      /\ UNCHANGED <<spec, ingresses, certs, job>>

Deploy(at) ==
  /\ at \in queue /\ at \in DOMAIN spec
  /\ RunSteps(at, Len(Steps))
  /\ queue' = IF Noticed THEN queue ELSE queue \ {at}
  /\ missed' = missed \ {at}
  /\ UNCHANGED steps

DeployFails(at) ==
  /\ Bounded
  /\ at \in queue /\ at \in DOMAIN spec
  /\ \E n \in 1..(Len(Steps) - 1) : RunSteps(at, n)
  /\ UNCHANGED <<queue, missed>>

Watched == {"service", "virtual", "request"}

(* What a deleted app target owned is deleted by Kubernetes, one object    *)
(* after another, also when an app target of that name exists again: the   *)
(* loss of an object that is watched queues the new one.                   *)
Collect(at, kind) ==
  LET lost(k) == IF k = kind THEN {at} ELSE {}
  IN  /\ <<at, kind>> \in orphans
      /\ services' = services \ lost("service") /\ rules' = rules \ lost("rule")
      /\ virtual' = Without(virtual, lost("virtual"))
      /\ monitors' = [b \in DOMAIN monitors |->
                        IF b = at THEN monitors[b] \ {kind} ELSE monitors[b]]
      /\ requests' = Without(requests, lost("request"))
      /\ orphans' = orphans \ {<<at, kind>>}
      /\ due' = due \cup lost("request")
      /\ queue' = IF kind \in Watched THEN queue \cup ({at} \cap DOMAIN spec) ELSE queue
      /\ missed' = IF kind \in Watched THEN missed ELSE missed \cup ({at} \cap DOMAIN spec)
      /\ UNCHANGED <<spec, hostname, ingresses, certs, job, switched, steps>>

-----------------------------------------------------------------------------
(* The ingress request controller.                                         *)

(* For a request that is gone everything of its target is reconciled, else *)
(* the requests with the same protocol.                                    *)
BeginPass(at) ==
  LET all == at \notin DOMAIN requests
      groups == {requests[b].protocol : b \in RequestsOf(at[2])}
      mine == IF all THEN groups ELSE {requests[at].protocol}
  IN  /\ job = NoPass /\ at \in due
      /\ due' = due \ {at}
      /\ job' = [target |-> at[2], name |-> at, all |-> all, groups |-> mine, todo |-> mine,
                 seen |-> [b \in RequestsOf(at[2]) |-> requests[b]]]
      /\ UNCHANGED <<spec, hostname, owned, ingresses, certs, queue, history, steps>>

(* Mutant: HTTP is redirected whether or not there is a certificate.       *)
RedirectAlways(R, p, address) ==
  [tls |-> {}, arns |-> {}, redirect |-> p # "grpc" /\ \E at \in R : job.seen[at].https,
   address |-> address]

(* ConfigureIngress, from the requests R of a protocol as they were read.  *)
IngressFor(R, p, address) ==
  LET hosts == UNION {job.seen[at].hosts : at \in R}
      arns == {c.id : c \in UNION {Certificate(h) : h \in hosts}}
  IN  [tls      |-> {h \in hosts : p = "grpc" \/ Certificate(h) # {}},
       arns     |-> arns,
       redirect |-> arns # {} /\ p # "grpc" /\ \E at \in R : job.seen[at].https,
       address  |-> address]

(* reconcileForAppProtocol: the ingress is written and read again; then    *)
(* the requests are told its address, oldest first, until one has changed  *)
(* since it was read, which is no error.                                   *)
SyncProtocol(p) ==
  LET k == <<job.target, p>>
      R == {at \in DOMAIN job.seen : job.seen[at].protocol = p}
      address == IF k \in DOMAIN ingresses THEN ingresses[k].address ELSE NoAddress
      new == IngressFor(R, p, address)
      same(at) == at \in DOMAIN requests /\ requests[at] = job.seen[at]
      untold == {at \in R : job.seen[at].address # new.address}
      told == {at \in untold :
                 \A b \in untold : job.seen[b].born <= job.seen[at].born => same(b)}
  IN  /\ p \in job.todo
      /\ ingresses' = With(ingresses, k, new)
      /\ requests' = [at \in DOMAIN requests |->
                        IF at \in told THEN [requests[at] EXCEPT !.address = new.address]
                        ELSE requests[at]]
      /\ due' = due \cup told \cup
                (IF ingresses' = ingresses THEN {} ELSE ConcernedByIngress(k))
      /\ queue' = queue \cup told
      /\ job' = [job EXCEPT !.todo = @ \ {p}]
      /\ UNCHANGED <<spec, hostname, objects, orphans, certs, history, steps>>

(* Mutant: the clean-up passes over the target of the request that is gone.*)
OfOtherTargets(k) == k[1] # job.target /\ k[2] \notin job.groups

(* The ingresses that a full pass deletes: of whatever target, and by      *)
(* protocol only.                                                          *)
Unmatched(k) == k[2] \notin job.groups

FinishPass ==
  LET gone == IF job.all THEN {k \in DOMAIN ingresses : Unmatched(k)} ELSE {}
  IN  /\ job # NoPass /\ job.todo = {}
      /\ ingresses' = Without(ingresses, gone)
      /\ due' = due \cup UNION {ConcernedByIngress(k) : k \in gone}
      /\ job' = NoPass
      /\ UNCHANGED <<spec, hostname, owned, certs, queue, history, steps>>

PassFails ==
  /\ Bounded
  /\ job # NoPass
  /\ due' = due \cup {job.name} /\ job' = NoPass
  /\ UNCHANGED <<spec, hostname, owned, ingresses, certs, queue, history>>

(* The load balancer of an ingress gets an address (external).             *)
Assign(k) ==
  /\ k \in DOMAIN ingresses /\ ingresses[k].address = NoAddress
  /\ ingresses' = [ingresses EXCEPT ![k].address = "assigned"]
  /\ due' = due \cup ConcernedByIngress(k)
  /\ UNCHANGED <<spec, hostname, owned, certs, queue, job, history, steps>>

-----------------------------------------------------------------------------
(* Users.                                                                  *)

(* An app target may come back while what the old one owned is still there.*)
EditManifest(at, o) ==
  /\ Bounded
  /\ spec' = With(spec, at, o) /\ spec' # spec
  /\ queue' = queue \cup {at}
  /\ UNCHANGED <<hostname, owned, ingresses, certs, due, job, history>>

DeleteApp(at) ==
  /\ Bounded
  /\ at \in DOMAIN spec
  /\ spec' = Without(spec, {at})
  /\ hostname' = [hostname EXCEPT ![at] = NoAddress]
  /\ orphans' = orphans \cup {x \in Owned : x[1] = at}
  /\ queue' = queue \ {at}
  /\ UNCHANGED <<objects, requests, ingresses, certs, due, job, history>>

(* kon certificate sync and import: what the provider has is written, each *)
(* on its own; if all of a sync went well, it deletes the others.          *)
SyncCerts ==
  /\ Bounded
  /\ \E provided \in Provided : certs' \in {provided} \cup {certs \cup S : S \in SUBSET provided}
  /\ due' = due \cup UNION {ConcernedByCert(c) : c \in (certs \ certs') \cup (certs' \ certs)}
  /\ UNCHANGED <<spec, hostname, owned, ingresses, queue, job, history>>

-----------------------------------------------------------------------------
IngressController ==
  \/ \E at \in AppTargets : BeginPass(at)
  \/ job # NoPass /\ \E p \in Protocols : SyncProtocol(p)
  \/ FinishPass

Next ==
  \/ \E at \in AppTargets : Deploy(at) \/ DeployFails(at) \/ DeleteApp(at)
  \/ \E x \in orphans : Collect(x[1], x[2])
  \/ \E at \in AppTargets : \E o \in Options[at] : EditManifest(at, o)
  \/ IngressController
  \/ PassFails
  \/ \E k \in Keys : Assign(k)
  \/ SyncCerts

Spec == Init /\ [][Next]_vars

(* Fairness: queued objects are reconciled, and Kubernetes and the cloud   *)
(* do their part.  Nothing is assumed of the users.                        *)
FairSpec ==
  /\ Spec
  /\ WF_vars(\E at \in AppTargets : Deploy(at))
  /\ WF_vars(\E x \in orphans : Collect(x[1], x[2]))
  /\ WF_vars(IngressController)
  /\ WF_vars(\E k \in Keys : Assign(k))

-----------------------------------------------------------------------------
(* Properties.                                                             *)

Wants(at) == at \in DOMAIN spec /\ spec[at].hosts # {}

(* Every app target that wants an ingress comes to have one, with an       *)
(* address that its request and its status say, whatever other targets'    *)
(* ingresses were deleted by a full pass on the way.  When a request moves *)
(* to another protocol while the requests are told, those after it are not *)
(* told, and nothing makes up for it.                                      *)
IngressesCome ==
  <>[](\A at \in AppTargets : Wants(at) /\ ~switched =>
         /\ <<at[2], spec[at].protocol>> \in DOMAIN ingresses
         /\ at \in DOMAIN requests /\ requests[at].hosts = spec[at].hosts
         /\ requests[at].address = "assigned" /\ hostname[at] = "assigned")

(* Ingresses without requests go ("when in full reconcile mode, delete     *)
(* ingresses that don't match", ingressrequest_controller.go:98), unless a *)
(* request moved from one protocol to another.                             *)
UnusedIngressesGo ==
  <>[](switched \/ \A k \in DOMAIN ingresses :
         \E at \in AppTargets : Wants(at) /\ k = <<at[2], spec[at].protocol>>)

LastsLongest(h, c) ==
  \A d \in certs : CertificateCovers(d.domain, h) => d.expires <= c.expires

(* The certificate that lasts longest comes to be on the ingress of a      *)
(* target's oldest request for each host it covers, and the others of the  *)
(* cluster leave it: renewals are picked up.                               *)
RenewalsArePickedUp ==
  <>[](\A t \in Targets : \A at \in Oldest(RequestsOf(t)) :
         \A h \in requests[at].hosts, c \in certs :
           CertificateCovers(c.domain, h) =>
             /\ <<t, requests[at].protocol>> \in DOMAIN ingresses
             /\ LastsLongest(h, c) <=> c.id \in ingresses[<<t, requests[at].protocol>>].arns)

(* Services, what goes with them and monitors come and go with what the    *)
(* manifest says, although the pass that deletes a service keeps the rest, *)
(* and although an app target that comes back finds objects that are still *)
(* to be collected.  Of those, monitors that go after the last pass are    *)
(* not made again.                                                         *)
ObjectsFollow ==
  <>[](\A at \in AppTargets :
         /\ at \in services <=> at \in DOMAIN spec /\ spec[at].ports
         /\ at \in DOMAIN virtual <=> at \in DOMAIN spec /\ spec[at].ports
         /\ at \in DOMAIN virtual \cap DOMAIN spec => virtual[at] = spec[at].hosts
         /\ at \in DOMAIN spec \ missed =>
              at \in DOMAIN monitors /\ monitors[at] = Watching(spec[at]))
=============================================================================
