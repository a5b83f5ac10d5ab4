--------------------------- MODULE MCShootControl ---------------------------
(***************************************************************************)
(* The shoot's machines, its control plane, the webhooks, a client's tokens *)
(* and the task runner.  They share no variable (what one writes, another   *)
(* at most reads after it is done), so a behaviour follows one of them.     *)
(***************************************************************************)
EXTENDS Worker, ControlPlane, Webhooks, TokenCache, TaskRunner, TLC

(* Worker: one pool in one or two zones, in either order, whose image is     *)
(* upgraded; zone z3 has no subnet.                                          *)
Variants == {[zones |-> <<"z1", "z2">>, version |-> "v1"], [zones |-> <<"z2", "z1">>, version |-> "v1"],
             [zones |-> <<"z2">>, version |-> "v2"], [zones |-> <<"z3">>, version |-> "v2"]}

(* Control plane: two keys of one account, one file naming a CA of its own,  *)
(* and one without a project; a profile with another CA and a zone fewer.   *)
AccountOf(project, key, ca) == [project |-> project, key |-> key, caCertPath |-> ca]
SomeAccounts == {AccountOf("p", 1, Unset), AccountOf("p", 2, "file"), AccountOf(Unset, 1, Unset)}
Offering(ca, zones) == [caData |-> ca, zones |-> [z \in zones |-> z]]
SomeOffers == {Offering("ca1", {"z1", "z2"}), Offering("ca2", {"z1"})}
SomeZones == {{}, {"z1", "z2"}}
SomeStorage == {Unset, [class |-> FALSE, snapshotClass |-> Unset]}

(* Webhooks: what the writers of each object write.                          *)
Container(flags) == [flags |-> flags, mounts |-> {}, spc |-> FALSE]
NoFlag == [f \in {} |-> {}]
Workload(v, labels, volumes, containers) ==
  [image |-> v, labels |-> labels, volumes |-> volumes, containers |-> containers]
APIServer(v) ==
  Workload(v, {}, {}, [c \in {"kube-apiserver", "vpn-client"} |-> Container(
    "cloud-config" :> "path" @@ (IF v = 30 THEN NoFlag ELSE "disable-admission-plugins" :> {"Other"}))])
KCM == Workload(0, {"to-public-networks", "gardener"}, {"etc-ssl"},
         "kube-controller-manager" :> [Container("cloud-config" :> "path") EXCEPT !.mounts = {"etc-ssl"}])
Proj(name, padded) == [name |-> name, padded |-> padded]
Service(type, lbType, subnet, projects) ==
  [deleting |-> FALSE, type |-> type, lbType |-> lbType, subnet |-> subnet, addresses |-> NotSet,
   projects |-> projects]
Written ==
  ("kube-apiserver" :> {APIServer(v) : v \in 30..32}) @@
  ("kube-controller-manager" :> {KCM}) @@
  ("machine-controller-manager" :> {Workload(v, {}, {}, "mcm" :> Container(NoFlag)) : v \in {30, 32}}) @@
  ("machine-controller-manager-vpa" :>
     {[policies |-> NotSet], [policies |-> {<<"mcm", "any">>, <<"provider", "old">>}]}) @@
  ("vpn-seed-server" :> {Workload(0, {}, {}, [c \in {"vpn-seed-server", "setup"} |-> Container(NoFlag)])}) @@
  ("fluent-bit" :> {Workload(0, {}, {}, [c \in {"fluent-bit", "other"} |-> Container(NoFlag)])}) @@
  ("kubelet.service" :> {[start |-> NotSet, pre |-> {}], [start |-> Container(NoFlag), pre |-> {"other"}]}) @@
  ("kubelet" :> {[attachDetach |-> NotSet]}) @@
  ("etcd-main" :> {[class |-> NotSet, capacity |-> NotSet], [class |-> NotSet, capacity |-> "30Gi"]}) @@
  ("service" :>
     {Service("LoadBalancer", "internal", "name", <<Proj("p", TRUE), Proj("q", FALSE), Proj("p", FALSE)>>),
      Service("LoadBalancer", "internal", NotSet, <<Proj("p", TRUE), Proj("*", FALSE)>>),
      Service("LoadBalancer", NotSet, NotSet, NotSet), Service("LoadBalancer", NotSet, "ip", NotSet),
      Service("ClusterIP", "any", "ip", <<>>)}) @@
  ("crd" :> {[rule |-> "keyword", column |-> "keyword", text |-> "plain"]}) @@
  ("node" :> [deleting : BOOLEAN, condition : {"false", "noRouteCreated", "down"}])
SomeEtcd == {NotSet, [class |-> "fast", capacity |-> NotSet], [class |-> NotSet, capacity |-> "80Gi"]}

---------------------------------------------------------------------------
VARIABLE follows
Parts == {"worker", "controlplane", "webhooks", "tokens", "runner"}
others(part) ==
  /\ part # "worker" => UNCHANGED vars
  /\ part # "controlplane" => UNCHANGED cpvars
  /\ part # "webhooks" => UNCHANGED wvars
  /\ part # "tokens" => UNCHANGED tvars
  /\ part # "runner" => UNCHANGED rvars

(* What is not followed starts, and stays, in one state with nothing to do.  *)
ControlInit ==
  /\ follows \in Parts
  /\ TInit
  /\ RInit /\ (follows # "runner" => \A t \in Tasks : outcome[t] = "ok")
  /\ Init
  /\ follows # "worker" => /\ Satisfied /\ egress = "false"
                           /\ \A p \in Pools : spec[p] = [zones |-> <<"z1", "z2">>, version |-> "v1"]
  /\ CPInit
  /\ storage = Unset /\ account = AccountOf("p", 1, Unset) /\ offered = Offering("ca1", {"z1", "z2"})
  /\ follows # "controlplane" => active = {}
  /\ WInit
  /\ follows # "webhooks" => version = 30 /\ seedVersion = 30 /\ operator.etcd = NotSet /\ object = "crd"
ControlNext ==
  /\ UNCHANGED follows
  /\ \/ follows = "worker" /\ Next
     \/ follows = "controlplane" /\ CPNext
     \/ follows = "webhooks" /\ WNext
     \/ follows = "tokens" /\ TNext
     \/ follows = "runner" /\ RNext
  /\ others(follows)
ControlSpec ==
  /\ ControlInit /\ [][ControlNext]_<<vars, cpvars, wvars, tvars, rvars, follows>>
  /\ WF_vars(follows = "worker" /\ Reconcile)
  /\ \A n \in Names : WF_vars(follows = "worker" /\ Vanishes(n))
  /\ WF_rvars(follows = "runner" /\ Main)
  /\ \A t \in Tasks : WF_rvars(follows = "runner" /\ Goroutine(t))
=============================================================================
