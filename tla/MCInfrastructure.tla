-------------------------- MODULE MCInfrastructure --------------------------
(***************************************************************************)
(* Values for the constants of Infrastructure.tla.                         *)
(***************************************************************************)
EXTENDS InfrastructureProperties, TLC

CONSTANTS a, b, n1, ns1, ns2, z1, z2, c1, c2, k1, k2

Z(z, cidr) == [name |-> z, cidr |-> cidr]
Cfg(zones, egress) == [root |-> k1, zones |-> zones, egress |-> egress]

(* Shoots of two Gardener projects with the same name in one GDC project.   *)
OneName == [i \in Infra |-> n1]
OwnNamespace == [i \in Infra |-> IF i = b THEN ns2 ELSE ns1]
(* A shoot and what becomes of it after control plane migration.            *)
OneNamespace == [i \in Infra |-> ns1]

Plain == [i \in Infra |-> {Cfg(<<Z(z1, c1)>>, "unset")}]
(* A shoot that changes its zones and drops egress, and its successor.      *)
Successive == [i \in Infra |-> {Cfg(<<Z(z1, c1)>>, "on")} \cup
                IF i = a THEN {Cfg(<<Z(z2, c2), Z(z1, c1)>>, "off")} ELSE {}]
Shrinking == [i \in Infra |-> {Cfg(<<Z(z1, c1), Z(z2, c2)>>, "on"), Cfg(<<Z(z1, c1)>>, "off")}]
(* A shoot whose zone CIDR may change to and fro.                            *)
Recut == [i \in Infra |-> {Cfg(<<Z(z1, c1)>>, "unset"), Cfg(<<Z(z1, c2)>>, "unset")}]
(* A shoot whose zone CIDR may change, and whose root key may.              *)
Rebuilt == [i \in Infra |-> {Cfg(<<Z(z1, c1)>>, "unset"), Cfg(<<Z(z1, c2)>>, "unset"),
                             [Cfg(<<Z(z1, c1)>>, "unset") EXCEPT !.root = k2]}]
=============================================================================
