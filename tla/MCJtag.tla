------------------------------- MODULE MCJtag -------------------------------
(* Small instances of JtagSystem. *)
EXTENDS JtagSystem, CableDrivers

\* (With LET, action coverage counts the call and not every step of the driver.)
MCSend(d, s, k) == LET after == Run(d, s, k) IN after

AllCables == {"usb-blaster", "ftdi", "ftdi-H", "dirtyJtag-1", "dirtyJtag-2", "cmsisdap",
    "jlink", "esp32s3", "ch347", "gwu2x", "ch552", "anlogic", "ft232RL", "libgpiod-1",
    "libgpiod-2", "remote", "xvc"}
OneOrTwoDevices == {<<3>>, <<2, 3>>}
=============================================================================
