------------------------------- MODULE Colours -------------------------------
(***************************************************************************)
(* The colours in which a program shows the messages of its users:         *)
(* getUserColorPair of ui.cpp, and the set-up of the terminal around it.   *)
(*                                                                         *)
(* ncurses has COLOR_PAIRS pairs of colours, which init_pair defines one   *)
(* by one and may refuse to.  Pairs 1 to 3 are for the program's own       *)
(* messages.  A user gets the next pair with his first message; when there *)
(* is none left he shares one, chosen by a hash of his name.               *)
(***************************************************************************)
EXTENDS Integers, Functions

CONSTANTS
    Users,     \* names that are not empty
    Hash,      \* std::hash of a name
    Palette,   \* size of the palette (32, or 4 on a simple terminal)
    Terminals  \* bound: the values of COLOR_PAIRS

ASSUME ColoursAssumption ==
    /\ Hash \in [Users -> Nat]
    /\ Palette \in Nat \ {0}
    /\ Terminals \subseteq Nat

VARIABLES
    COLOR_PAIRS,
    windows,       \* chatWin and inputWin exist
    looping,       \* the program is in its loop
    colors_ready,
    foreground,    \* the pairs above 3 that init_pair has defined
    user_pairs,
    next_pair,
    next_palette

terminal == <<COLOR_PAIRS, windows, looping, colors_ready>>
vars == <<terminal, foreground, user_pairs, next_pair, next_palette>>

max_pair == IF COLOR_PAIRS - 1 < 255 THEN COLOR_PAIRS - 1 ELSE 255
available_slots == max_pair - 3

TypeOK ==
    /\ COLOR_PAIRS \in Nat
    /\ windows \in BOOLEAN /\ looping \in BOOLEAN /\ colors_ready \in BOOLEAN
    /\ DOMAIN foreground = 4..(next_pair - 1)
    /\ \A pair \in DOMAIN foreground : foreground[pair] \in 0..(Palette - 1)
    /\ DOMAIN user_pairs \subseteq Users
    /\ \A u \in DOMAIN user_pairs : user_pairs[u] \in 4..255
    /\ next_pair \in 4..256 /\ next_palette \in Nat

-----------------------------------------------------------------------------
\* setupNcurses and initPrintColors: the client sets its terminal up again
\* after login, and no program does so inside its loop.
SetupNcurses ==
    /\ ~windows /\ ~looping
    /\ windows' = TRUE
    /\ \E ok \in BOOLEAN : colors_ready' = ok
    /\ UNCHANGED <<COLOR_PAIRS, looping, foreground, user_pairs, next_pair, next_palette>>

CleanupNcurses ==
    /\ windows
    /\ windows' = FALSE
    /\ UNCHANGED <<COLOR_PAIRS, looping, colors_ready, foreground, user_pairs,
                   next_pair, next_palette>>

Run ==
    /\ windows /\ ~looping
    /\ looping' = TRUE
    /\ UNCHANGED <<COLOR_PAIRS, windows, colors_ready, foreground, user_pairs,
                   next_pair, next_palette>>

Emplaced(u, pair) == user_pairs' = [v \in DOMAIN user_pairs \cup {u} |->
                                      IF v = u THEN pair ELSE user_pairs[v]]

\* Mutation: the pair is not used up.
AfterSame(pair) == pair

\* ++next_pair
After(pair) == pair + 1

\* Mutation: the last pair is forgotten.
PairsLeftButOne == next_pair < max_pair

PairsLeft == next_pair <= max_pair

Shared(u) == 4 + (Hash[u] % available_slots)

\* The first message of a user for whom there is a pair.
OwnPair(u) ==
    /\ PairsLeft
    /\ foreground' = [pair \in DOMAIN foreground \cup {next_pair} |->
                        IF pair = next_pair THEN next_palette % Palette
                                            ELSE foreground[pair]]
    /\ Emplaced(u, next_pair)
    /\ next_pair' = After(next_pair)
    /\ next_palette' = next_palette + 1

\* init_pair fails: this message has no colour, the next one tries again.
NoPair ==
    /\ PairsLeft
    /\ UNCHANGED <<foreground, user_pairs, next_pair, next_palette>>

SharedPair(u) ==
    /\ ~PairsLeft
    /\ Emplaced(u, Shared(u))
    /\ UNCHANGED <<foreground, next_pair, next_palette>>

\* A message of user u is shown; only a loop receives any.
PrintMessage(u) ==
    /\ windows /\ looping
    /\ colors_ready /\ available_slots > 0
    /\ u \notin DOMAIN user_pairs
    /\ OwnPair(u) \/ NoPair \/ SharedPair(u)
    /\ UNCHANGED terminal

Init ==
    /\ COLOR_PAIRS \in Terminals
    /\ windows = FALSE /\ looping = FALSE /\ colors_ready = FALSE
    /\ foreground = <<>> /\ user_pairs = <<>>
    /\ next_pair = 4 /\ next_palette = 0

Next ==
    \/ SetupNcurses \/ CleanupNcurses \/ Run
    \/ \E u \in Users : PrintMessage(u)

Spec == Init /\ [][Next]_vars

-----------------------------------------------------------------------------
\* Users are told apart as long as the terminal can: two share a pair only
\* when each pair it has is taken, and a pair is always one that was defined.
SharedOnlyWhenFull ==
    \A u, v \in DOMAIN user_pairs :
      /\ user_pairs[u] \in DOMAIN foreground
      /\ u # v /\ user_pairs[u] = user_pairs[v] =>
           foreground # <<>> /\ DOMAIN foreground = 4..max_pair

\* What a user has written keeps its colour on the screen: neither his pair
\* nor what it stands for changes with the users that follow.
ColourKept ==
    [][\A u \in DOMAIN user_pairs :
         /\ u \in DOMAIN user_pairs' /\ user_pairs'[u] = user_pairs[u]
         /\ foreground'[user_pairs[u]] = foreground[user_pairs[u]]]_vars
=============================================================================
