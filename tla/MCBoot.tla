------------------------------- MODULE MCBoot -------------------------------
(* Small instances of Boot. *)
EXTENDS Boot

Line(key, value) == [key |-> key, value |-> value]

Good == "192.168.1.9"

SerialFile == << Line("address_length", 5), Line("network_type", "RS232"), Line("serial", "8E1") >>
TcpFile    == << Line("network_type", "TCP"), Line("address_length", 6), Line("stray", "x"),
                 Line("ip", Good), Line("port", 1502) >>
ShortFile  == << Line("network_type", "TCP"), Line("address_length", 4) >>
WrongFile  == << Line("address_length", 7) >>
WrongIp    == << Line("network_type", "TCP"), Line("address_length", 5),
                 Line("ip", "192.168.1"), Line("port", 1502) >>

MCIniFiles == {SerialFile, TcpFile, ShortFile, WrongFile, WrongIp}
MCValidIp  == {Good}
=============================================================================
