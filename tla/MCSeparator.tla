----------------------------- MODULE MCSeparator -----------------------------
(* Instances of Separator for TLC: one base, one lib and images on them.    *)
EXTENDS Separator

CONSTANTS s1, s2, l1, imgBase, imgLib, imgLib2, imgA, imgA2, imgB, imgC, imgOnA, imgMixed, imgDeep, imgDeep2

N(n) == <<"", n, "latest">>
OtherA == <<"reg", "a", "latest">>

MCImages ==
  [i \in {imgBase, imgLib, imgLib2, imgA, imgA2, imgB, imgC, imgOnA, imgMixed, imgDeep, imgDeep2} |->
     CASE i = imgBase -> <<1>>
       [] i = imgLib -> <<1, 2>>
       [] i = imgLib2 -> <<1, 2, 11>>
       [] i = imgA -> <<1, 2, 3>>
       [] i = imgA2 -> <<1, 2, 8>>
       [] i = imgB -> <<1, 2, 4, 5>>
       [] i = imgC -> <<1, 2, 4, 6>>
       [] i = imgOnA -> <<1, 2, 3, 7>>
       [] i = imgMixed -> <<1, 9, 2, 10>>
       [] i = imgDeep -> <<1, 2, 11, 12>>
       [] i = imgDeep2 -> <<1, 2, 11, 13>>]

MCOrder == <<N("a"), N("b"), N("base"), N("c"), N("deep"), N("deep2"), N("lib"), N("lib2"), N("mixed"), N("onA"), OtherA>>
IDs == <<imgA, imgB, imgBase, imgC, imgDeep, imgDeep2, imgLib, imgLib2, imgMixed, imgOnA, imgA2>>
MCNames == [n \in ToSet(MCOrder) |-> IDs[CHOOSE k \in DOMAIN MCOrder : MCOrder[k] = n]]
MCMoves == {<<N("lib"), imgLib2>>}
MCDests == {"d1", "d2"}

Req(imgs, from, on) ==
  [images |-> imgs, base |-> from, lib |-> on, dest |-> "d1", rename |-> Empty]
OneName == [t \in {<<"a", "latest", "app">>, <<"deep", "latest", "app">>} |-> <<"same", "", "app">>]

MCSaveReqs ==
  LET lists == {<<N("a")>>, <<N("a"), N("deep")>>, <<<<"", "a", "">>, N("a"), N("mixed")>>, <<N("a"), OtherA>>,
                <<N("b"), N("c")>>, <<N("onA"), N("a")>>, <<N("lib")>>, <<imgA>>}
  IN  (s1 :> {Req(i, N("base"), N("lib")) : i \in lists}
             \cup {Req(<<N("deep"), N("deep2")>>, N("base"), N("lib2")),
                   Req(<<N("a")>>, N("base"), NoName), Req(<<N("a")>>, N("lib"), NoName),
                   Req(<<N("a")>>, NoName, N("lib")), Req(<<N("a")>>, N("base"), N("base")),
                   [Req(<<N("a"), N("deep")>>, N("base"), N("lib")) EXCEPT !.rename = OneName]}) @@
      (s2 :> {[Req(<<N("deep")>>, N("base"), N("lib")) EXCEPT !.dest = "d2"], Req(<<N("a")>>, N("base"), NoName)})

Load(n, base_, lib_, skip) == [app |-> n, dir |-> "d1", base |-> base_, lib |-> lib_, skip |-> skip]
MCLoadReqs ==
  LET d2(part) == <<"d2", <<"deep", "latest", part>>>>
  IN  {Load(n, NoPath, NoPath, k) : n \in {N("a"), N("deep")}, k \in BOOLEAN}
      \cup {Load(OtherA, NoPath, NoPath, FALSE), Load(<<"", "a", "">>, d2("base"), NoPath, FALSE), Load(N("deep"), NoPath, d2("lib"), FALSE),
            Load(N("a"), d2("base"), d2("lib"), TRUE), Load(N("a"), d2("base"), d2("app"), TRUE)}
=============================================================================
