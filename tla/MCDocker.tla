------------------------------ MODULE MCDocker ------------------------------
(***************************************************************************)
(* DockerRegistry on small workloads.  An initial state picks one: the     *)
(* requests that are sent, the kind of blob store, and what is collected.  *)
(***************************************************************************)
EXTENDS DockerRegistry, TLC

CONSTANTS p1, p2, f1, f2, m1, m2,                        \* uploads
          push1, push2, pushl, get, head, getb, headb,   \* registry requests
          getr, headr, getbr, headbr, getd, pushb, tagpages, copy, mount, del, untag,
          img1, img2, list

MCPatches == {p1, p2}
MCFinals == {f1, f2}
MCMonos == {m1, m2}
MCMonoContent == [m \in MCMonos |-> <<p1>>]
MCOps == {push1, push2, pushl, get, head, getb, headb, getr, headr, getbr, headbr, getd, pushb,
          tagpages,
          copy, mount, del, untag}
MCOtherIds == {CopyId(<<p1>>), CopyId(<<img1>>), CopyId(<<img2>>), CopyId(<<list>>)}
MCMembers == <<Repo, Cache>>
MCLists == {list}
MCImages == {img1, img2}
MCRefs == (list :> {img1}) @@ (img1 :> {<<p1>>}) @@ (img2 :> {<<p1>>})
MCLayers == (img1 :> {<<p1>>}) @@ (img2 :> {})
MCTags == {1, 2}
Op(kind, repo, tag, digest) == [kind |-> kind, repo |-> repo, tag |-> tag, digest |-> digest]
MCAsk ==
    (push1 :> Op("push", Repo, 1, img1)) @@ (push2 :> Op("push", Proxy, 1, img2))
    @@ (pushl :> Op("push", Repo, 1, list))
    @@ (get :> Op("get manifest", Proxy, 1, None)) @@ (head :> Op("head manifest", Proxy, 1, None))
    @@ (getb :> Op("get blob", Proxy, None, <<p1>>)) @@ (headb :> Op("head blob", Cache, None, <<p1>>))
    @@ (getr :> Op("get manifest", Repo, 1, None)) @@ (headr :> Op("head manifest", Repo, 1, None))
    @@ (getbr :> Op("get blob", Repo, None, <<p1>>)) @@ (headbr :> Op("head blob", Repo, None, <<p1>>))
    @@ (getd :> Op("get manifest", Cache, None, img1))
    @@ (pushb :> Op("push", Repo, 2, img1)) @@ (tagpages :> Op("list", Proxy, None, None))
    @@ (copy :> [kind |-> "copy", tag |-> 1, overwrite |-> FALSE, move |-> TRUE, repo |-> Repo])
    @@ (mount :> Op("mount", Dest, None, <<p1>>)) @@ (del :> Op("delete", Repo, None, img1))
    @@ (untag :> Op("untag", Repo, 1, None))

Load(b, up, o, sweep, repos, apart) ==
    [backend |-> b, uploads |-> up, ops |-> o, untagged |-> sweep, collect |-> repos, foreign |-> apart]

UploadLoads ==
    {Load(b, {Post, p1, p2}, {}, FALSE, <<>>, FALSE) : b \in Blobs!Backends}
    \cup {Load("s3", {Post, f1, f2}, {}, FALSE, <<>>, FALSE),
          Load("direct", {Post, p1, f1}, {}, FALSE, <<>>, FALSE),
          Load("file", {Post, f1, m1}, {}, FALSE, <<>>, FALSE)}

PushLoads ==
    {Load("file", {m1}, {push1, push2}, FALSE, <<Repo>>, FALSE),
     Load("file", {m1}, {push1, pushl}, TRUE, <<Repo>>, FALSE),
     Load("file", {m1, m2}, {}, TRUE, <<Repo>>, FALSE),
     Load("file", {m1}, {push1, del, untag}, TRUE, <<Repo>>, FALSE)}

CopyLoads ==
    {Load("s3", {m1}, {push1, copy}, FALSE, <<Repo, Dest>>, FALSE),
     Load("s3", {m1}, {push1, copy}, TRUE, <<Repo>>, TRUE),
     Load("s3", {m1}, {push1, copy}, TRUE, <<Dest>>, TRUE)}
    \cup
    UNION {{Load("s3", {m1}, {push1, push2, copy}, FALSE, <<>>, apart),
            Load("s3", {m1}, {mount}, FALSE, <<Dest>>, apart)} : apart \in BOOLEAN}

PullLoads ==
    {Load("file", {m1}, {push1, getr, headr}, FALSE, <<>>, FALSE),
     Load("file", {m1}, {push1, pushb, tagpages}, FALSE, <<>>, FALSE),
     Load("file", {m1}, {getbr, headbr}, FALSE, <<>>, FALSE),
     Load("file", {}, {get, head}, TRUE, <<Cache>>, FALSE),
     Load("file", {m1}, {getb, headb}, TRUE, <<Cache>>, FALSE),
     Load("file", {}, {get, getd}, TRUE, <<Cache>>, FALSE)}

MCWorkloads == UploadLoads \cup PushLoads \cup CopyLoads \cup PullLoads
=============================================================================
