------------------------------- MODULE MCImages -------------------------------
EXTENDS Images, TLC

Ref(repo, tag, dig) == [repo |-> repo, tag |-> tag, dig |-> dig]

\* A Docker Hub repository, typed short: a tag, and the tag pinned to a digest.
MCRefs == {Ref("app", "v1", ""), Ref("app", "v1", "d1")}
MCPublished == (Ref("app", "v1", "") :> "d1")
MCLegacy == {Ref("app", "v1", "")}
MCCanonical == ("app" :> "docker.io/app")

\* Two images on a shared base layer.
MCBlobs == ("d1" :> {"base", "b1"}) @@ ("d2" :> {"base", "b2"})

\* One command at a time on the node; either side pushes, and so writes the index.
MCVerbs == ("node" :> {"load", "preload", "push"}) @@ ("local" :> {"cache", "push", "purge"})

================================================================================
