------------------------------ MODULE MCBurst ------------------------------
(* Burst on a small instance for TLC: two connections of one product and    *)
(* one of another, a cap of one row, and results that read whole, read      *)
(* short, or stopped in one of two budget windows.                          *)
EXTENDS Burst

MCConns == <<"c1", "c2", "c3">>
MCByName == <<"c3", "c1", "c2">>
MCProduct == [c \in ToSet(MCConns) |-> IF c = "c3" THEN "gitlab" ELSE "github"]

Rows(prs, failing, days, alerts) ==
    [f \in ToSet(Families) |->
        CASE f = "prs" -> prs [] f = "failing" -> failing [] f = "days" -> days [] f = "alerts" -> alerts
          [] OTHER -> {}]

Read(rows, escalates, degraded) ==
    [stop |-> "none", escalates |-> escalates, degraded |-> degraded, reset |-> 1, rows |-> rows,
     listed |-> {"a"}, tool |-> <<1, 2, 1, 3>>]

Stopped(stop, escalates, reset) ==
    [stop |-> stop, escalates |-> escalates, degraded |-> escalates, reset |-> reset,
     rows |-> Rows({1}, {1}, {}, {}), listed |-> {}, tool |-> <<>>]

Few == Read(Rows({1}, {1, 3}, {<<1, "a">>, <<2, "b">>}, {}), FALSE, FALSE)
Many == Read(Rows({}, {2}, {}, {1, 2, 3, 4}), FALSE, FALSE)
Short == Read(Rows({2}, {}, {}, {}), TRUE, TRUE)
TimedOut == Stopped("scan_timeout", FALSE, 2)

MCScans == {
    [c \in ToSet(MCConns) |-> CASE c = "c1" -> a [] c = "c2" -> b [] c = "c3" -> d] :
    a \in {Few, Many, Short, Stopped("read_reserve", FALSE, 1), Stopped("rate_limited", TRUE, 2),
           Stopped("read_reserve", FALSE, Unknown), TimedOut},
    b \in {Few, Many, TimedOut},
    d \in {Few, Many, Short, Stopped("read_reserve", TRUE, 1)}}
=============================================================================
