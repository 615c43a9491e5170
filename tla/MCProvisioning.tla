-------------------------- MODULE MCProvisioning --------------------------
(* Instances of Provisioning for TLC: everything belongs to one managed    *)
(* application, and both requests ask for the same API.                    *)
EXTENDS Provisioning

CONSTANTS m1, r1, r2, c1, api

MCAppOf == [x \in Requests \cup Credentials |-> m1]
MCApiOf == [r \in Requests |-> api]
=============================================================================
