----------------------------- MODULE MCChannels -----------------------------
EXTENDS Channels

\* All programs but the select over two channels, which loses values.
MCPrograms == (ChannelNames \ {"select"}) \cup ThreadNames
=============================================================================
