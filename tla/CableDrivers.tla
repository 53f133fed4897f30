---------------------------- MODULE CableDrivers ----------------------------
(* The drivers of the cables behind the interface JtagInterface: what a call k *)
(* of a virtual method does to the driver s of a cable.                        *)
EXTENDS JtagCable

Blaster == INSTANCE UsbBlaster
Mpsse   == INSTANCE FtdiMpsse
Packets == INSTANCE PacketCables
Vectors == INSTANCE BitVectorCables
Bang    == INSTANCE BitBang

-----------------------------------------------------------------------------
WriteTMS(cable, s, k) ==
    CASE cable = "usb-blaster"  -> Blaster!WriteTMS(s, k.tms, k.now)
      [] cable = "ftdi"         -> Mpsse!WriteTMS(s, k.tms, k.now)
      [] cable = "ftdi-H"       -> Mpsse!WriteTMS(s, k.tms, k.now)
      [] cable = "dirtyJtag-1"  -> Packets!DirtyWriteTMS(s, k.tms)
      [] cable = "dirtyJtag-2"  -> Packets!DirtyWriteTMS(s, k.tms)
      [] cable = "cmsisdap"     -> Packets!DapWriteTMS(s, k.tms, k.now)
      [] cable = "jlink"        -> Vectors!JlinkWriteTMS(s, k.tms, k.now)
      [] cable = "esp32s3"      -> Packets!EspWriteTMS(s, k.tms, k.now)
      [] cable = "ch347"        -> Packets!Ch347WriteTMS(s, k.tms, k.now)
      [] cable = "gwu2x"        -> Packets!GwuWriteTMS(s, k.tms, k.now)
      [] cable = "ch552"        -> Mpsse!Ch552WriteTMS(s, k.tms)
      [] cable = "anlogic"      -> Bang!AnlogicTMS(s, k.tms)
      [] cable = "ft232RL"      -> Bang!BangTMS(s, k.tms, k.now)
      [] cable = "libgpiod-1"   -> Bang!GpiodTMS(s, k.tms)
      [] cable = "libgpiod-2"   -> Bang!GpiodTMS(s, k.tms)
      [] cable = "remote"       -> Bang!RemoteTMS(s, k.tms, k.now)
      [] cable = "xvc"          -> Vectors!XvcWriteTMS(s, k.tms, k.now)

WriteTDI(cable, s, k) ==
    CASE cable = "usb-blaster"  -> Blaster!WriteTDI(s, k.tdi, k.rd, k.end)
      [] cable = "ftdi"         -> Mpsse!WriteTDI(s, k.tdi, k.rd, k.end)
      [] cable = "ftdi-H"       -> Mpsse!WriteTDI(s, k.tdi, k.rd, k.end)
      [] cable = "dirtyJtag-1"  -> Packets!DirtyWriteTDI(s, k.tdi, k.rd, k.end, TRUE)
      [] cable = "dirtyJtag-2"  -> Packets!DirtyWriteTDI(s, k.tdi, k.rd, k.end, FALSE)
      [] cable = "cmsisdap"     -> Packets!DapWriteTDI(s, k.tdi, k.rd, k.end)
      [] cable = "jlink"        -> Vectors!JlinkWriteTDI(s, k.tdi, k.rd, k.end)
      [] cable = "esp32s3"      -> Packets!EspWriteTDI(s, k.tdi, k.rd, k.end)
      [] cable = "ch347"        -> Packets!Ch347WriteTDI(s, k.tdi, k.rd, k.end)
      [] cable = "gwu2x"        -> Packets!GwuWriteTDI(s, k.tdi, k.rd, k.end)
      [] cable = "ch552"        -> Mpsse!Ch552WriteTDI(s, k.tdi, k.rd, k.end)
      [] cable = "anlogic"      -> Bang!AnlogicTDI(s, k.tdi, k.rd, k.end)
      [] cable = "ft232RL"      -> Bang!BangTDI(s, k.tdi, k.rd, k.end)
      [] cable = "libgpiod-1"   -> Bang!GpiodTDI(s, k.tdi, k.rd, k.end, FALSE)
      [] cable = "libgpiod-2"   -> Bang!GpiodTDI(s, k.tdi, k.rd, k.end, TRUE)
      [] cable = "remote"       -> Bang!RemoteTDI(s, k.tdi, k.rd, k.end)
      [] cable = "xvc"          -> Vectors!XvcWriteTDI(s, k.tdi, k.rd, k.end)

CableClk(cable, s, k) ==
    CASE cable = "usb-blaster"  -> Blaster!ToggleClk(s, k.tms, k.n)
      [] cable = "ftdi"         -> Mpsse!ToggleClk(s, k.tms, k.n)
      [] cable = "ftdi-H"       -> Mpsse!ToggleClkH(s, k.n)
      [] cable = "dirtyJtag-1"  -> Packets!DirtyToggleClk(s, k.tms, k.n)
      [] cable = "dirtyJtag-2"  -> Packets!DirtyToggleClk(s, k.tms, k.n)
      [] cable = "cmsisdap"     -> Packets!DapToggleClk(s, k.tms, k.n)
      [] cable = "jlink"        -> Vectors!JlinkToggleClk(s, k.tms, k.n)
      [] cable = "esp32s3"      -> Packets!EspToggleClk(s, k.tms, k.n)
      [] cable = "ch347"        -> Packets!Ch347ToggleClk(s, k.tms, k.n)
      [] cable = "gwu2x"        -> Packets!GwuToggleClk(s, k.tms, k.n)
      [] cable = "ch552"        -> Mpsse!Ch552ToggleClk(s, k.tms, k.n)
      [] cable = "anlogic"      -> Bang!AnlogicClk(s, k.tms, k.n)
      [] cable = "ft232RL"      -> Bang!BangClk(s, k.tms, k.n)
      [] cable = "libgpiod-1"   -> Bang!GpiodClk(s, k.tms, k.n, FALSE)
      [] cable = "libgpiod-2"   -> Bang!GpiodClk(s, k.tms, k.n, TRUE)
      [] cable = "remote"       -> Bang!RemoteClk(s, k.tms, k.n)
      [] cable = "xvc"          -> Vectors!XvcToggleClk(s, k.tms, k.n)

CableFlush(cable, s) ==
    CASE cable = "usb-blaster"  -> Blaster!Flush(s)
      [] cable = "ftdi"         -> Mpsse!Flush(s)
      [] cable = "ftdi-H"       -> Mpsse!Flush(s)
      [] cable = "cmsisdap"     -> Packets!DapFlush(s)
      [] cable = "jlink"        -> Vectors!JlinkFlush(s)
      [] cable = "esp32s3"      -> Packets!EspFlush(s)
      [] cable = "ch347"        -> Packets!Ch347Flush(s)
      [] cable = "gwu2x"        -> Packets!GwuFlush(s)
      [] cable = "ch552"        -> Mpsse!Ch552Flush(s)
      [] cable = "ft232RL"      -> Bang!BangWrite(s)
      [] cable = "remote"       -> Bang!RemoteWrite(s)
      [] cable = "xvc"          -> Vectors!XvcFlush(s)
      [] OTHER                  -> s        \* nothing is buffered

Run(cable, s, k) ==
    CASE k.op = "writeTMS"  -> WriteTMS(cable, s, k)
      [] k.op = "writeTDI"  -> WriteTDI(cable, s, k)
      [] k.op = "toggleClk" -> CableClk(cable, s, k)
      [] k.op = "flush"     -> CableFlush(cable, s)
=============================================================================
