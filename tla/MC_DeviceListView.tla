------------------------- MODULE MC_DeviceListView -------------------------
(* Instances of DeviceListView for TLC.                                    *)
EXTENDS DeviceListView, TLC

\* The requests of the page, and one of another client.
Requests == ViewRequest \cup {<<0, "any", AnyDevice>>}

\* No window, and all but the first hour.
Windows == {AnyTime, [from |-> 1, to |-> MaxHour]}
============================================================================
