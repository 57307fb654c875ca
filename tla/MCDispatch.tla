----------------------------- MODULE MCDispatch -----------------------------
EXTENDS Dispatch, TLC

CONSTANTS c1, c2, h1

\* "/a" and "//a/" for one route, "/s/a" for a file, "/i" for the icon.
MCUri == {<<"/", "a">>, <<"/", "/", "a", "/">>, <<"/", "s", "/", "a">>, <<"/", "i">>}
MCPrefix == <<"/", "s", "/">>
MCFavicon == <<"/", "i">>

Symmetry == Permutations(Conn)

=============================================================================
