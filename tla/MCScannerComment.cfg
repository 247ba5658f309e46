SPECIFICATION Spec
CONSTANTS
  Files <- CommentFiles
  Blocks = {1, 6}
  MaxEnds = 2
  IntMax = 15
  LongMax = 127
PROPERTY CommentsEnd
