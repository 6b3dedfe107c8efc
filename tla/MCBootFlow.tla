---------------------------- MODULE MCBootFlow -----------------------------
(* Boot orders for TLC: none, names in the table, an unknown one, a repetition. *)
EXTENDS BootFlow

MCDevices == [name \in {"sd", "usb", "net", "emmc"} |->
                IF name = "emmc" THEN "builtin" ELSE name]

MCOrders == {<<>>, <<"nvme", "sd">>, <<"sd">>, <<"usb", "nvme", "emmc">>,
             <<"emmc", "sd">>, <<"net", "sd", "emmc">>, <<"sd", "sd", "net">>}
=============================================================================
