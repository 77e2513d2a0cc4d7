---------------------------- MODULE MCHandshake ----------------------------
(* The handshake on a set of small scenarios. *)
EXTENDS Handshake

Pref(kex, key, cipher, mac, comp) ==
  [kex |-> kex, key |-> key, cipher |-> cipher, mac |-> mac, comp |-> comp]
Plain(kex) == Pref(kex, <<"ed25519">>, <<"aes-gcm">>, <<>>, <<"none-comp">>)

All == <<"ext-info-c", "ext-info-s", "kex-strict-c", "kex-strict-s">>
Default == [prefs |-> [s \in Side |-> Plain(<<"ecdh">> \o All)], hostKeys |-> {"ed25519"},
            guess |-> FALSE, banner |-> <<>>, noisy |-> {}, silent |-> {}, group |-> "good",
            trusted |-> TRUE, anonymous |-> FALSE]
With(c, v) == [Default EXCEPT !.prefs = [s \in Side |-> IF s = "client" THEN c ELSE v]]

\* Exchanges, guesses and strictness: one name is known to one end only.
KexLists == {<<"ecdh">>, <<"gex">>, <<"ecdh", "gex">>, <<"gex", "ecdh">>, <<"sntrup", "gex">>}
KexScenarios ==
  {[With(Plain(c \o cx), Plain(v \o vx)) EXCEPT !.guess = g, !.group = grp] :
     c \in KexLists, v \in KexLists \ {<<"sntrup", "gex">>}, cx \in {<<>>, All}, vx \in {<<>>, All},
     g \in BOOLEAN, grp \in {"good"}}
\* Host keys, with and without a guess.
KeyLists == {<<"ed25519">>, <<"rsa-sha2-512", "ssh-rsa">>, <<"ed25519", "ssh-rsa">>}
KeyScenarios ==
  {[With([Plain(k) EXCEPT !.key = c], [Plain(k) EXCEPT !.key = v]) EXCEPT !.hostKeys = h, !.guess = g] :
     c \in KeyLists, v \in KeyLists, h \in {{"ed25519"}, {"rsa"}, {"ed25519", "rsa"}}, g \in BOOLEAN,
     k \in {<<"ecdh">>, <<"gex">>}}
\* Ciphers, MACs, compression.
CipherScenarios ==
  {With(Pref(<<"ecdh">>, <<"ed25519">>, c, m, <<"none-comp">>),
        Pref(<<"ecdh">>, <<"ed25519">>, v, w, z)) :
     c \in {<<"aes-gcm", "aes-ctr">>, <<"aes-ctr">>}, v \in {<<"aes-ctr", "aes-gcm">>, <<"aes-gcm">>},
     m \in {<<"sha256">>, <<"sha512", "sha256">>}, w \in {<<"sha256", "sha512">>, <<"md5">>},
     z \in {<<"none-comp">>, <<"zlib", "none-comp">>, <<"zlib">>}}
\* What happens around the exchange.
OtherScenarios ==
  {[Default EXCEPT !.banner = b, !.noisy = n] :
     b \in {<<>>, <<"x", "lf">>, <<"cr", "lf", "x", "lf">>, <<"x", "x", "x", "x", "lf">>,
            <<"x", "x", "x", "x", "x", "lf">>, <<"x", "lf", "x", "lf", "x", "lf">>},
     n \in {{}, {"client"}, {"server"}}}
  \cup {[Default EXCEPT !.prefs = [s \in Side |-> Plain(<<"ecdh">>)], !.noisy = Side]}
  \cup {[Default EXCEPT !.silent = {s}] : s \in Side}
  \cup {[With(Plain(<<"gex">>), Plain(<<"gex">>)) EXCEPT !.group = g, !.silent = s] :
          g \in {"missing", "bad size"}, s \in {{}, {"client"}}}
  \cup {[Default EXCEPT !.trusted = FALSE], [Default EXCEPT !.anonymous = TRUE]}

MCScenarios == KexScenarios \cup KeyScenarios \cup CipherScenarios \cup OtherScenarios
=============================================================================
