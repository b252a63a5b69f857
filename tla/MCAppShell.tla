------------------------------ MODULE MCAppShell ------------------------------
EXTENDS AppShell

MCHome == <<"s1", "s2", "s3">>
MCDuration == [s1 |-> 2, s2 |-> 3, s3 |-> 1, s4 |-> 2]
MCPeople == <<"p1", "p2">>

MCLeads == [list |-> "/this"]

MCLinkedFirst == [e1 |-> "v1", e2 |-> "v2"]

MCSaved == [a |-> "pa", b |-> "pb", x |-> "absent"]
MCSeeds == {[room |-> "", password |-> ""], [room |-> "a", password |-> "old"]}

Nothing == [faults |-> 0, imports |-> 0, clicks |-> 0, filters |-> 0, menus |-> 0,
            drags |-> 0, deletes |-> 0, renames |-> 0, undos |-> 0, targets |-> 0,
            hearts |-> 0, follows |-> 0, creates |-> 0, moves |-> 0, natives |-> 0,
            panels |-> 0, hides |-> 0, rooms |-> 0,
            clips |-> 0, checks |-> 0, edits |-> 0]
Some(budget) == budget @@ Nothing

MCScenes == {
    Some([moves |-> 1, menus |-> 1, undos |-> 1, imports |-> 1]),
    Some([moves |-> 1, menus |-> 1, undos |-> 1, drags |-> 1, faults |-> 1]),
    Some([moves |-> 2, menus |-> 1, undos |-> 1, faults |-> 1]),
    Some([moves |-> 1, drags |-> 2, imports |-> 1, faults |-> 1]),
    Some([moves |-> 1, clicks |-> 3, menus |-> 1, filters |-> 1]),
    Some([moves |-> 1, clicks |-> 1, menus |-> 1, targets |-> 2, faults |-> 1]),
    Some([moves |-> 1, menus |-> 2, undos |-> 2]),
    Some([moves |-> 1, menus |-> 1, deletes |-> 1, imports |-> 1]),
    Some([moves |-> 2, menus |-> 1, deletes |-> 1, faults |-> 1]),
    Some([moves |-> 2, menus |-> 1, renames |-> 1, imports |-> 1, faults |-> 1]),
    Some([moves |-> 1, hearts |-> 2, menus |-> 1, faults |-> 1]),
    Some([moves |-> 2, hearts |-> 2, faults |-> 1]),
    Some([moves |-> 1, follows |-> 1, menus |-> 1, faults |-> 1]),
    Some([moves |-> 3, follows |-> 2, faults |-> 1]),
    Some([moves |-> 3, follows |-> 1, menus |-> 1]),
    Some([moves |-> 3, menus |-> 1, imports |-> 1]),
    Some([moves |-> 2, creates |-> 1, deletes |-> 1, faults |-> 1]),
    Some([moves |-> 5]),
    Some([moves |-> 3, natives |-> 1, panels |-> 1]),
    Some([moves |-> 1, panels |-> 2, menus |-> 1, clicks |-> 2]),
    Some([moves |-> 1, hides |-> 3, imports |-> 1, natives |-> 1]),
    Some([clips |-> 2, checks |-> 2, faults |-> 1]),
    Some([moves |-> 1, clips |-> 1, checks |-> 1]),
    Some([edits |-> 4, faults |-> 1]),
    Some([edits |-> 2, panels |-> 1]),
    Some([rooms |-> 3]),
    Some([rooms |-> 2, faults |-> 1]),
    Some([moves |-> 1, rooms |-> 1, faults |-> 1]) }
===============================================================================
