----------------------------- MODULE MCArchive -----------------------------
(* One apparatus of one channel; a sound file that is resampled, a text, a *)
(* file of two channels, which is found too late, and one not allowed in.  *)
EXTENDS Archive
CONSTANTS x, y

MCSurface == [kinds |-> {"audio", "text"}, operations |-> {"decode", "resample"}, rates |-> {8},
              channels |-> 1]
Sound == [kind |-> "audio", bytes |-> x, derivative |-> y, rate |-> 8, target |-> 16,
          normalized |-> FALSE, channels |-> 1, allowed |-> TRUE, wellformed |-> TRUE]
Text == [Sound EXCEPT !.kind = "text", !.derivative = NoBytes, !.rate = 0, !.target = 0]
MCInputs == {Sound, Text, [Sound EXCEPT !.channels = 2], [Text EXCEPT !.allowed = FALSE]}
MCPolicies == {[authorized |-> TRUE, operations |-> {"decode", "enumerate"}, frequency |-> 0]}
MCAuthority == [id |-> <<"authority", 0>>, refs |-> {}, bytes |-> NoBytes, data |-> NoBytes]
=============================================================================
