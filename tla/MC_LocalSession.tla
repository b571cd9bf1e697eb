--------------------------- MODULE MC_LocalSession ---------------------------
(* Model values for LocalSession: two destinations, one of which the     *)
(* access list sends direct; two payload tokens each way.                *)
EXTENDS LocalSession

MC_Data   == <<"d1", "d2">>
MC_UpData == <<"u1", "u2">>
MC_Dests  == {"dst_direct", "dst_relay"}
MC_AclDirect == {"dst_direct"}
=============================================================================
