------------------------------- MODULE MC_Layout -------------------------------
(* Sizes around the edges of the default ladder, with pixel shapes, rotations
   and bitrates on both sides of every test the arithmetic makes. *)
EXTENDS Layout, TLC

Box(x, y, b) == [w |-> x, h |-> y, kbps |-> b]
Default == <<Box(640, 360, 800), Box(854, 480, 1400), Box(1280, 720, 2800),
             Box(1920, 1080, 5000)>>
Custom  == <<Box(480, 640, 700), Box(401, 301, 500)>>
Odd     == <<Box(-320, 240, 800), Box(640, 480, -1)>>

Sizes == {<<1, 1>>, <<2, 7>>, <<199, 3>>, <<319, 239>>, <<320, 240>>, <<432, 768>>,
          <<640, 360>>, <<641, 360>>, <<641, 361>>, <<720, 480>>, <<720, 576>>, <<854, 480>>,
          <<1080, 1080>>, <<1080, 1920>>, <<1081, 1921>>, <<1440, 1080>>, <<1920, 1080>>,
          <<2560, 1080>>, <<4000, 361>>}

Shown(x, a, r, b) == [w |-> x[1], h |-> x[2], sar |-> a, matrix |-> r[1], tag |-> r[2],
                      kbps |-> b[1], codec |-> b[2]]
MC_Stream ==
    {Shown(x, a, r, <<0, "h264">>) : x \in Sizes, a \in {<<1, 1>>, <<0, 1>>, <<32, 27>>},
                                     r \in {<<None, None>>, <<-90, 90>>, <<None, 90>>}}
    \cup {Shown(<<1920, 1080>>, <<1, 1>>, <<180, 90>>, b) :
            b \in {50, 344, 1500} \X {"h264", "hevc", "av1", "prores"}}
    \cup {Shown(<<720, 481>>, a, <<None, d>>, <<0, "h264">>) :
            a \in {<<32, 27>>, <<1, 2000>>}, d \in {-134, -90, -46, -44, 0, 45, 134, 136}}
MC_Conf == {Default, Custom, Odd}
MC_Old  == {{}, {Default[i] : i \in 1..4}, {Box(640, 480, 1400), Box(960, 720, 2800)},
            {Default[1], Box(640, 480, 1400)}}
MC_OldVersion == {<< >>, <<0, 1, 9>>, <<0, 1, 9, 9>>}
MC_Version    == <<0, 2, 0>>
KeySymmetry   == Permutations(Key)
MC_Threshold  == {None, << >>, <<0, 1>>, <<0, 2>>, <<0, 3>>, <<0, 1, 9, 9>>}
=============================================================================
