------------------------------- MODULE MCUploads --------------------------------
(* Instances of Uploads: three clients that log in from two addresses, or one   *)
(* page that uploads two files, over either backend.                            *)
EXTENDS Uploads

CONSTANTS r1, r2, r3, i1, i2, f1, f2

MCScopes ==
    {[slots |-> {r1, r2, r3}, ips |-> {i1, i2}, backend |-> "drizzle", files |-> {}, faults |-> {}]}
    \cup [slots : {{r1}}, ips : {{i1}}, backend : {"memory", "drizzle"}, files : {{f1, f2}},
          faults : {{"net", "access"}, {"restart"}}]
===============================================================================
