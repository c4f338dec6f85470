--------------------------- MODULE MCArtifactSet ---------------------------
(* Three runs of one experiment: they agree on their first file; two agree *)
(* on the second as well; the manifest is the third file of four.          *)
EXTENDS ArtifactSet

MCArtifacts == {<<"p", "q", "manifest a", "r">>, <<"p", "q", "manifest b", "s">>,
                <<"p", "t", "manifest c", "r">>}
=============================================================================
