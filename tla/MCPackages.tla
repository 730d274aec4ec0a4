----------------------------- MODULE MCPackages -----------------------------
(* Packages on small workloads of at most three or four requests.          *)
EXTENDS Packages, TLC

CONSTANTS a, b, da, db, \* packages and their directories
          up1, up2, upp, geth, geth2, getc, getp, geto, gets, del, snap, rot, rot2, deep,
          upo, upn, dla, dlc, dlc2, dlx, dlp, dlo, yank, pgh, pgc, pgp, pub,
          i1, i2          \* instances

MCPkgs == {a, b}
MCDirs == {da, db}
MCDirOf == (a :> da) @@ (b :> db)
Rq(kind, repo, pkg) == [kind |-> kind, repo |-> repo, pkg |-> pkg, inst |-> i1]
MCAsk ==
    (up1 :> Rq("upload", Hosted, a)) @@ (up2 :> Rq("upload", Hosted, b)) @@ (upp :> Rq("upload", Proxy, a))
    @@ (geth :> Rq("get", Hosted, a)) @@ (geth2 :> Rq("get", Hosted, a)) @@ (getc :> Rq("get", Cache, a))
    @@ (getp :> Rq("get", Proxy, a)) @@ (geto :> Rq("get", Outer, a))
    @@ (gets :> Rq("get", Snap, a)) @@ (del :> Rq("delete", Hosted, a)) @@ (snap :> Rq("snapshot", Hosted, a))
    @@ (rot :> Rq("rotate", Hosted, a)) @@ (rot2 :> Rq("rotate", Hosted, a)) @@ (deep :> Rq("depth", Hosted, a))
    @@ (upo :> Rq("upload", Outer, a)) @@ (upn :> Rq("nexus", Proxy, a)) @@ (dla :> Rq("download", Cache, a))
    @@ (dlc :> Rq("download", Cache, b)) @@ (dlc2 :> Rq("download", Cache, b)) @@ (dlp :> Rq("download", Proxy, b))
    @@ (dlo :> Rq("download", Outer, b)) @@ (yank :> Rq("yank", Hosted, a)) @@ (pub :> Rq("publish", Hosted, a))
    @@ (dlx :> [Rq("download", Cache, b) EXCEPT !.inst = i2])
    @@ (pgh :> Rq("page", Hosted, a)) @@ (pgc :> Rq("page", Cache, a)) @@ (pgp :> Rq("page", Proxy, a))
MCInsts == {i1, i2}
MCReqs == DOMAIN MCAsk
MCOffers == <<{Entry(b, None)}, {Entry(a, None)}>>
Load(f, rs, d, n) == [format |-> f, reqs |-> rs, depth |-> d, faults |-> n]
Loads(f, sets, n) == {Load(f, rs, 0, n) : rs \in sets}
\* A format at a time; the last number says how many faults there may be.
MCWorkloads ==
    UNION {
      Loads("apt", {{up1, up2, geth}, {up1, geth, geth2}, {up1, geth, getp}, {upp, getp, geto},
                    {getc, getp}, {up1, del, geth}, {up1, rot, geth}, {up1, rot, snap, geth}, {up1, snap, geth, gets},
                    {rot, rot2, geth}}, 0),
      Loads("apt", {{up1, geth, snap}, {up1, getp}, {getc}, {upn, geth}}, MaxFaults),
      Loads("yum", {{up1, up2, geth}, {up1, geth, geth2}, {upp, getp, geto},
                    {getc, getp}, {up1, del, geth}, {up1, snap, gets}, {up1, snap, deep}, {up1, geth, deep}}, 0),
      Loads("yum", {{up1, geth, snap}, {up1, getp}, {getc}, {upn, geth}}, MaxFaults),
      {Load("yum", {up1, up2, geth}, 1, 0), Load("yum", {up1, snap, geth}, 1, 0)},
      Loads("helm", {{up1, up2, geth}, {getc, getp}, {upp, geto}, {upn, geto}, {up1, del, geth},
                     {dlc, dlc2, dlp}, {up2, dlo}}, 0),
      Loads("helm", {{up1, getp}, {getc, dlc}, {geth, dla}}, MaxFaults),
      Loads("npm", {{up1, up2, getp}, {up1, getc, getp}, {up1, upp, geth}, {up1, del, geto}, {dlc, dlp, dlo},
                    {pub, getp}, {pub, up2, geth}, {pub, up1}}, 0),
      Loads("npm", {{up1, getc, dlc}, {dla}, {pub, getc}}, MaxFaults),
      Loads("pypi", {{up1, up2, getp}, {upp, geth, geto}, {upn, getp}, {up1, getc, pgp}, {dlc, dlc2, dlo}, {dlc, dlp, pgc}, {dlc, dlc2, dlx}, {up1, pgh, pgc}}, 0),
      Loads("pypi", {{up1, getp}, {getc, dlc}, {dla, pgc, pgp}}, MaxFaults),
      Loads("cargo", {{up1, upp, yank, geth}, {up1, getp, geto}, {up1, up2, dlp, dlo, getc}}, 0),
      Loads("golang", {{up1, up2, geth, getp}, {upp, dlo, geto}, {up2, dlp, dlc}}, 0),
      Loads("golang", {{up1, getc, dlc}, {dla, upo, upn}}, MaxFaults)}
=============================================================================
