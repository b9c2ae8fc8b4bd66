------------------------- MODULE MCTemplateRegistry -------------------------
(* Two templates, each in an object that may be replaced while it is loaded. *)
EXTENDS TemplateRegistry

CONSTANTS vlan, dhcp

MCName == {vlan, dhcp}
MCTaskOf == <<vlan, dhcp>>
=============================================================================
