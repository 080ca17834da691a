----------------------------- MODULE MCLeaseText -----------------------------
(***************************************************************************)
(* A small instance of LeaseText: two clients, two addresses, names that   *)
(* try to look like other fields, and the lines that administrators write. *)
(***************************************************************************)
EXTENDS LeaseText

CONSTANTS a, b

Letter == Char("letter")
Odd    == Char("odd")

MCHostnames ==
    {<<Dash>>, <<Odd>>, <<Comment, Letter, Space, Number(1)>>,
     <<Letter, NewLine, Character("mac", b), Space, Dotted(2), Space, Dash, Space, Number(1)>>}

LineOf(mac, ip, until) == <<mac, Space, Dotted(ip), Space, Dash, Space, Number(until)>>

MCEdits ==
    {<<>>, <<Space, Space>>, <<Space, Comment, Letter>>, <<Letter>>,
     <<Comment>> \o LineOf(Character("mac", a), 2, 1),
     <<Space>> \o LineOf(Character("mac", a), 2, 1),
     LineOf(Character("mac", a), 2, 1) \o <<Space, Letter>>,
     <<Character("mac", b), Space, Dotted(1), Space, Number(1)>>,
     LineOf(Letter, 1, 1)}

=============================================================================
