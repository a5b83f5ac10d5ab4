--------------------------- MODULE MCShootServices ---------------------------
(***************************************************************************)
(* The bastion, the DNS records and the backups of shoots.  Their           *)
(* controllers share no state, so no interleaving of them shows more than   *)
(* each alone does: a behaviour follows the one it has chosen.             *)
(***************************************************************************)
EXTENDS Bastion, DNSRecord, Backup

Api == [type |-> "a", name |-> <<"api", "shoot", "org">>]
Ingress == [type |-> "a", name |-> <<"*", "ingress", "shoot", "org">>]
OneRecord == {Ingress}
TwoRecords == {Api, Ingress}

(* Two zones nest, and one belongs to other names.                          *)
Nesting == [root |-> <<"org">>, sub |-> <<"shoot", "org">>, other |-> <<"example", "org">>]
ZoneNames == DOMAIN Nesting

(* A spec may name the zone above the most specific one, and a status one   *)
(* the project has no longer.                                              *)
NamedZones == {"none", "root"}
FormerZones == {"none", "former"}

(* Two shoots, the name of one the beginning of the other's, which a        *)
(* migration has left behind as a "source-" entry.                         *)
Nested == {<<"a">>, <<"source-", "a", "b">>}

VARIABLE follows

ServicesInit == BInit /\ DInit /\ Init /\ follows \in {"bastion", "records", "backups"}
ServicesNext ==
  /\ UNCHANGED follows
  /\ \/ follows = "bastion" /\ BNext /\ UNCHANGED <<dvars, vars>>
     \/ follows = "records" /\ DNext /\ UNCHANGED <<bvars, vars>>
     \/ follows = "backups" /\ Next /\ UNCHANGED <<bvars, dvars>>
ServicesSpec == ServicesInit /\ [][ServicesNext]_<<bvars, dvars, vars, follows>>
(* In a behaviour that follows another, the workers of the bastion and of    *)
(* the backups have nothing to do: fairness asks nothing of them.           *)
FairServices == ServicesSpec /\ BFairness /\ BackupFairness
=============================================================================
