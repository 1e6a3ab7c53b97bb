SPECIFICATION NSpec
CONSTANTS
  Text = {x, y}
  NoItem = NoItem
  NoText = NoText
PROPERTIES ItemFlushed
