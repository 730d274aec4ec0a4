----------------------------- MODULE MCControl ------------------------------
(* The control plane on workloads of two to four requests.                 *)
EXTENDS ControlPlane, TLC

Rq(kind, inst, as, on, to) == [kind |-> kind, inst |-> inst, as |-> as, on |-> on, to |-> to]
MCInsts == {"i1", "i2"}
MCRepos == {"r1", "r2", "front"}
MCStores == {"s1", "s2"}
MCUsers == {"root", "ann", "bob"}
\* Paths 1 and 2 are in the directory that is deleted, 3 is in its sibling.
MCPaths == 1 .. 3
MCUnder == {1, 2}
MCSiblings == {3}
MCMembers == <<"r1", "r2">>
MCFields == {"x", "y"}
MCRoles == ("root" :> {"admin"}) @@ ("ann" :> {"reader"})
MCPermKinds == {"put", "get", "delete", "bulk_delete", "list", "archive", "head"}
MCOwnKinds == {"change_password", "revoke"}

MCAsk ==
    [cr |-> Rq("create_repo", "i1", "root", "r1", "s1"), cr2 |-> Rq("create_repo", "i2", "root", "r1", "s1"),
     cs2 |-> Rq("create_repo", "i1", "root", "r2", "s2"), up |-> Rq("update_repo", "i1", "root", "r1", None),
     del |-> Rq("delete_repo", "i1", "root", "r1", None), del2 |-> Rq("delete_repo", "i2", "root", "r1", None),
     cl |-> Rq("clone_repo", "i1", "root", "r1", "r2"), cl2 |-> Rq("clone_repo", "i2", "root", "r1", "r2"),
     cn2 |-> Rq("create_repo", "i2", "root", "r2", "s1"), mks |-> Rq("create_store", "i1", "root", "s2", None),
     mks2 |-> Rq("create_store", "i2", "root", "s2", None), ups |-> Rq("update_store", "i1", "root", "s2", None),
     rms |-> Rq("delete_store", "i1", "root", "s2", None), rms1 |-> Rq("delete_store", "i1", "root", "s1", None),
     chk |-> Rq("check_store", "i2", "root", "s2", None), bak |-> Rq("get_backup", "i1", "root", None, None),
     res |-> Rq("post_restore", "i1", "root", None, "bak"), put1 |-> Rq("put", "i1", "root", "r1", 1),
     put1b |-> Rq("put", "i2", "ann", "r1", 1), put2 |-> Rq("put", "i2", "root", "front", 2),
     put3 |-> Rq("put", "i2", "root", "r2", 3), rm1 |-> Rq("delete", "i1", "root", "r1", 1),
     rmp |-> Rq("delete", "i2", "root", "front", 1), bulk |-> Rq("bulk_delete", "i1", "root", "front", 1),
     bulk2 |-> Rq("bulk_delete", "i2", "root", "front", 1), get1 |-> Rq("get", "i2", "ann", "front", 1),
     ls |-> Rq("list", "i2", "ann", "front", None), log |-> Rq("login", "i1", "ann", None, "init"),
     log2 |-> Rq("login", "i2", "ann", None, "init"), logn |-> Rq("login", "i1", "ann", None, "cpw"),
     use |-> Rq("use", "i1", "ann", None, "log"), use2 |-> Rq("use", "i2", "ann", None, "log"),
     cpw |-> Rq("change_password", "i1", "ann", "ann", "init"), spw |-> Rq("set_password", "i2", "root", "ann", None),
     mku |-> Rq("create_user", "i1", "root", "bob", {"admin"}), upu |-> Rq("update_user", "i1", "root", "ann", {"admin"}),
     dem |-> Rq("update_user", "i2", "root", "root", {"reader"}), rmroot |-> Rq("delete_user", "i1", "root", "root", None),
     rmbob |-> Rq("delete_user", "i2", "root", "bob", None), rev |-> Rq("revoke", "i2", "ann", "ann", None),
     reva |-> Rq("revoke_all", "i1", "root", None, None), rot |-> Rq("rotate", "i1", None, None, None),
     rot2 |-> Rq("rotate", "i2", None, None, None), mkr |-> Rq("create_role", "i1", "root", "reader", "denies"),
     upr |-> Rq("update_role", "i1", "root", "reader", "denies"), rmr |-> Rq("delete_role", "i2", "root", "reader", None),
     rmr2 |-> Rq("delete_role", "i1", "root", "reader", None),
     rma |-> Rq("delete_role", "i1", "root", "admin", None), setx |-> Rq("put_settings", "i1", "root", "x", None),
     sety |-> Rq("put_settings", "i2", "root", "y", None), sety1 |-> Rq("put_settings", "i1", "root", "y", None),
     mku2 |-> Rq("create_user", "i2", "root", "bob", {"reader"}), upb |-> Rq("update_user", "i2", "root", "bob", {"admin"}),
     cpw2 |-> Rq("change_password", "i2", "ann", "ann", "init"), cln |-> Rq("clean", "i1", "root", "r1", None), cln2 |-> Rq("clean", "i2", "root", "r1", None),
     arc |-> Rq("archive", "i1", "root", "front", None), hd1 |-> Rq("head", "i1", "root", "r1", 1), logb |-> Rq("login", "i1", "ann", None, "init"),
     ic |-> Rq("check", "i1", "root", None, "fix"), ic2 |-> Rq("check", "i2", "root", None, "verify"), icb |-> Rq("check", "i1", "root", None, "fix"),
     icd |-> Rq("check", "i1", "root", None, "dry"), tag |-> Rq("put", "i1", "root", "r1", 6), rm4 |-> Rq("delete", "i2", "root", "r1", 4), rm5 |-> Rq("delete", "i2", "root", "r2", 5),
     put3a |-> Rq("put", "i1", "root", "r2", 3), put1c |-> Rq("put", "i1", "root", "r1", 3),
     del3 |-> Rq("delete_repo", "i2", "root", "r2", None),
     nosy |-> Rq("create_repo", "i2", "ann", "r1", "s1")]
MCReqs == DOMAIN MCAsk

\* Files at 4 and 5 belong at 3; 6 is the tag of the manifest at 1.
MCNormal == 4 :> 3
MCchart_path == 5 :> 3
MCManifestOf == 6 :> 1
MCHelmRepos == {"r2"}

Load(rs, ps, rp, as, warm, n) == [reqs |-> rs, parts |-> ps, repos |-> rp, arts |-> as, lost |-> {}, warm |-> warm, faults |-> n]
Loads(sets, ps, rp, as, n) == {Load(rs, ps, rp, as, IF "ttl" \in ps THEN {"ann"} ELSE {"root", "ann"}, n) : rs \in sets}
One == {<<"r1", 1>>}
All == {<<"r1", 1>>, <<"r1", 3>>, <<"r2", 2>>}
Both == {"r1", "r2", "front"}

RepoLoads ==
    Loads({{"cr", "cr2", "del"}, {"del", "cr2", "up"}, {"del", "put1", "cr2"}, {"del", "del2", "cr"}}, {"drain"}, {"r1"}, One, 0)
    \cup Loads({{"del", "cr"}, {"cl", "del"}}, {"drain"}, {"r1"}, One, 1)
    \cup Loads({{"del", "del3", "cr"}}, {"drain"}, {"r1", "r2"}, One, 0) \cup Loads({{"del", "cr"}}, {"drain", "gc"}, {"r1"}, One, 0)
    \cup Loads({{"cl", "cl2", "cn2"}, {"cl", "put1", "rm1"}}, {}, {"r1"}, One, 0)
    \cup Loads({{"mks", "mks2", "cs2"}, {"mks", "cs2", "rms", "chk"}, {"mks", "ups", "rms"}, {"mks", "cs2", "put3"}, {"rms1", "del"}}, {"gc", "drain"}, {"r1"}, One, 0)
    \cup Loads({{"cl", "del", "rms1"}}, {"drain"}, {"r1"}, {}, 0)
    \cup Loads({{"bak", "res", "mku"}, {"bak", "res", "setx"}}, {}, {"r1"}, {}, 1)
ArtifactLoads ==
    Loads({{"put1", "put1b"}, {"put1", "rm1"}, {"bulk", "bulk2"}, {"bulk", "put2"}, {"bulk", "put3"}, {"rmp", "get1", "hd1"}}, {}, Both, All, 1)
    \cup Loads({{"ls", "rm1", "put2"}, {"ls", "bulk"}}, {}, Both, All, 0) \cup Loads({{"arc", "rm1", "put2"}, {"arc", "bulk"}, {"cln", "put1"}, {"cln", "cln2"}}, {}, Both, All, 0)
    \cup Loads({{"cln", "del"}, {"arc", "del"}}, {"drain"}, Both, All, 0)
    \cup Loads({{"ls", "put3"}}, {}, Both, All, 1)
    \cup Loads({{"bulk", "rmp"}}, {}, {"front"}, {}, 0) \cup Loads({{"ls", "rm1", "del"}}, {"drain"}, Both, All, 0)
FollowLoads ==
    Loads({{"cr"}}, {"live", "scan"}, {}, {}, 1) \cup Loads({{"mku", "cr2"}}, {"live", "scan"}, {}, {}, 1)
    \cup Loads({{"cl2", "up"}, {"del", "up"}, {"del2", "cr"}, {"cr2", "del", "mku"}}, {"live", "scan", "settled"}, {"r1"}, {}, 1)
    \cup Loads({{"cr"}}, {"live", "scan", "client"}, {}, {}, 0) \cup Loads({{"cr2"}}, {"live", "scan", "client"}, {}, {}, 1)
    \cup Loads({{"del", "mku"}}, {"live", "scan", "client", "settled"}, {"r1"}, {}, 1)
    \cup Loads({{"cr", "mks"}}, {"live", "scan", "client", "settled"}, {}, {}, 0)
    \cup Loads({{"del", "cr2"}, {"up", "cl"}}, {"ports"}, {"r1"}, {}, 1)
IdentityLoads ==
    Loads({{"log", "cpw", "logn", "use"}, {"log2", "cpw", "use2", "log"}, {"rev", "log", "use2"}, {"spw", "rev", "log"}, {"log", "spw", "logb"}, {"upr", "get1"}, {"rmr", "rmr2"}, {"rmr", "upr"}, {"cpw", "cpw2"}, {"mku", "mku2", "upb"}, {"rmr", "mkr", "get1"}, {"nosy", "upu", "rma"}},
          {"ttl"}, {"r1", "front"}, One, 0)
    \cup Loads({{"log", "rot", "use2"}, {"reva", "rot2", "log"}, {"reva", "log", "use"}, {"rot", "rot2"}, {"setx", "sety"}, {"setx", "sety1"}}, {"refresh"}, {}, {}, 0)
    \cup Loads({{"mku", "rmroot"}, {"mku", "rmroot", "rmbob"}, {"mku", "dem", "rmbob"}}, {"ttl"}, {}, {}, 0)
\* Before a check: a file has lost its blob, others are at a malformed and at a
\* legacy path, and there is a tag.
Odd == {<<"r1", 1>>, <<"r1", 4>>, <<"r2", 5>>, <<"r1", 6>>}
Checked(loads) == {[w EXCEPT !.lost = {<<"r1", 1>>}] : w \in loads}
CheckRaces == Loads({{"ic", "put1"}}, {}, {"r1"}, {}, 0)
CheckLoads ==
    Checked(Loads({{"ic"}, {"ic2"}, {"icd"}}, {}, {"r1", "r2"}, Odd, 1) \cup Loads({{"ic", "icb"}, {"ic", "ic2"}}, {}, {"r1"}, Odd \ {<<"r2", 5>>}, 0)
            \cup Loads({{"ic", "put1", "rm4"}, {"ic", "put1c"}, {"icd", "put1"}}, {}, {"r1"}, Odd \ {<<"r2", 5>>}, 0))
    \cup CheckRaces \cup Loads({{"ic", "put3"}, {"ic", "put3", "rm5"}}, {}, {"r2"}, Odd \cap {<<"r2", 5>>}, 0)
    \cup Loads({{"ic", "tag"}, {"ic2", "rm1"}, {"ic", "cl"}}, {}, {"r1"}, One, 0) \cup Loads({{"ic", "mks"}, {"ic2", "mks", "cs2", "put3a"}}, {}, {"r1"}, One, 0) \cup Loads({{"ic2", "del"}}, {"drain", "gc"}, {"r1"}, Odd \ {<<"r2", 5>>}, 0)
MCWorkloads == CheckLoads \cup RepoLoads \cup ArtifactLoads \cup FollowLoads \cup IdentityLoads
=============================================================================
